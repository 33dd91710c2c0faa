-------------------------- MODULE UserStateProofs --------------------------
(***************************************************************************)
(* What TLAPS proves of the state of the user's that the runs of tasks     *)
(* share: the totals a harness keeps of a session (SessionAccounting), the *)
(* Claude sign-in (ClaudeLogin) and the tokens of Hermes                   *)
(* (HermesCredentials).  All of it is for any number of tasks, and for any *)
(* value of the bounds.                                                    *)
(***************************************************************************)
EXTENDS SessionAccounting, ClaudeLogin, HermesCredentials, SequenceTheorems, WellFoundedInduction, TLAPS

-----------------------------------------------------------------------------
(* SessionAccounting: a session's calls are those made before a run and    *)
(* the run's own, whichever runs were killed, branched or not exported.    *)

Figures == Amounts \cup {NoTotal}
Words == {"complete", "partial", "unavailable"}
Tallies == [parent: Nat, fate: Fates, base: Amounts, before: Figures, own: 0..MaxCalls, kept: 0..MaxCalls,
            wrote: BOOLEAN, usage: Figures, cost: Figures, status: Words, total: Figures]
Flights == [on: BOOLEAN, parent: 0..MaxRuns, base: Amounts, before: Figures,
            own: 0..MaxCalls, main: 0..MaxCalls, told: 0..MaxCalls, kept: 0..MaxCalls]

\* A run's figures are among the session's, and the run it resumes is one of those before it.
Summed ==
  /\ harness \in Harnesses /\ spent \in Amounts
  /\ now \in Flights /\ runs \in Seq(Tallies)
  /\ now.told <= now.main /\ now.main <= now.own /\ now.kept <= now.own
  /\ now.parent <= Len(runs)
  /\ \A i \in DOMAIN runs : runs[i].parent < i

\* What went before a run and what it used since are all of the session's, and what was
\* exported or recorded before it is of what went before.
SplitInv ==
  /\ now.on =>
       /\ now.base + now.own = spent
       /\ now.before \in {NoTotal, now.base}
       /\ now.parent = 0 => now.base = 0
       /\ harness # "muse" => now.main = now.own
       /\ \A i \in DOMAIN runs : runs[i].total # NoTotal => runs[i].total <= now.base
  /\ \A i \in DOMAIN runs : runs[i].total # NoTotal => runs[i].total <= spent

\* What may come on top of a run's own use, and what a run reports.
OnTop(r) == IF harness = "hermes" THEN Strays(r) ELSE 0
Fair(r) ==
  /\ r.fate = "ended" /\ r.status = "complete" /\ (harness = "devin" => r.wrote) =>
       /\ r.usage = r.own \/ (harness = "hermes" /\ Strays(r) > 0)
       /\ r.cost \in {r.own, NoTotal} \/ Strays(r) > 0
  /\ r.usage # NoTotal => r.usage <= r.own + OnTop(r)
  /\ r.cost # NoTotal => r.cost <= r.own + Strays(r)
FairInv == \A i \in DOMAIN runs : Fair(runs[i])

IInv == Summed /\ SplitInv /\ FairInv

-----------------------------------------------------------------------------
LEMMA NoTotalNat == NoTotal \in Nat /\ NoTotal = MaxRuns * MaxCalls + 1 /\ 0 < NoTotal
                    /\ MaxRuns * MaxCalls \in Nat
BY AccountingAssumption DEF NoTotal

LEMMA Amounting == /\ Amounts \subseteq Nat /\ 0 \in Amounts /\ MaxRuns \in Nat /\ MaxCalls \in Nat
                   /\ \A a \in Amounts, n \in Nat : n <= a => n \in Amounts
                   /\ \A a \in Nat : a < MaxRuns * MaxCalls => a + 1 \in Amounts
                   /\ \A a \in Amounts : a < NoTotal
                   /\ Amounts \subseteq Figures /\ Figures \subseteq Nat /\ NoTotal \in Figures
<1> PICK n : n = MaxRuns * MaxCalls
  OBVIOUS
<1>1. n \in Nat /\ Amounts = 0 .. n /\ NoTotal = n + 1
  BY NoTotalNat DEF Amounts, NoTotal
<1>2. MaxRuns \in Nat /\ MaxCalls \in Nat
  BY AccountingAssumption
<1>3. /\ Amounts \subseteq Nat /\ 0 \in Amounts
      /\ \A a \in Amounts, k \in Nat : k <= a => k \in Amounts
      /\ \A a \in Nat : a < n => a + 1 \in Amounts
      /\ \A a \in Amounts : a < NoTotal
  BY <1>1
<1>4. Amounts \subseteq Figures /\ Figures \subseteq Nat /\ NoTotal \in Figures
  BY <1>1 DEF Figures
<1> QED
  BY <1>2, <1>3, <1>4

LEMMA IdleFlight ==
  /\ Idle \in Flights /\ ~Idle.on /\ Idle.parent = 0 /\ Idle.before = NoTotal
  /\ Idle.told = 0 /\ Idle.main = 0 /\ Idle.own = 0 /\ Idle.kept = 0
BY Amounting DEF Idle, Flights

LEMMA LessAmount == ASSUME NEW a \in Amounts, NEW b \in Nat PROVE Less(a, b) \in Amounts
BY Amounting DEF Less

\* What the counts of the run that is going on are.
LEMMA Counted ==
  ASSUME Summed
  PROVE  /\ spent \in Amounts /\ now.base \in Amounts /\ now.before \in Figures
         /\ spent \in Nat /\ now.base \in Nat /\ now.before \in Nat
         /\ now.own \in Nat /\ now.main \in Nat /\ now.told \in Nat /\ now.kept \in Nat
         /\ now.told <= now.main /\ now.main <= now.own /\ now.kept <= now.own
         /\ spent < NoTotal /\ NoTotal \in Nat
         /\ now.parent \in Nat /\ Len(runs) \in Nat /\ DOMAIN runs = 1 .. Len(runs)
<1>1. /\ now.base \in Amounts /\ now.before \in Figures /\ now.parent \in 0 .. MaxRuns
      /\ now.own \in 0 .. MaxCalls /\ now.main \in 0 .. MaxCalls
      /\ now.told \in 0 .. MaxCalls /\ now.kept \in 0 .. MaxCalls
  BY DEF Summed, Flights
<1>2. /\ now.own \in Nat /\ now.main \in Nat /\ now.told \in Nat /\ now.kept \in Nat /\ now.parent \in Nat
  BY <1>1
<1>3. spent \in Amounts /\ spent \in Nat /\ now.base \in Nat /\ now.before \in Nat
      /\ spent < NoTotal /\ NoTotal \in Nat
  <2>1. spent \in Amounts
    BY DEF Summed
  <2> QED
    BY <1>1, <2>1, Amounting
<1>4. Len(runs) \in Nat /\ DOMAIN runs = 1 .. Len(runs)
  BY DEF Summed
<1> QED
  BY <1>1, <1>2, <1>3, <1>4 DEF Summed

\* What the totals of recorded runs are.
LEMMA Tallied ==
  ASSUME Summed, NEW i \in DOMAIN runs
  PROVE  runs[i] \in Tallies /\ runs[i].total \in Nat /\ runs[i].total \in Figures
<1>1. runs[i] \in Tallies
  BY DEF Summed
<1> QED
  BY <1>1, Amounting DEF Tallies

\* A run strays by no less than nothing.
LEMMA StraysNat ==
  ASSUME Summed, SplitInv, now.on
  PROVE  /\ Strays(now) \in Nat
         /\ harness = "hermes" /\ now.before = NoTotal => Strays(now) = now.base
         /\ harness = "claude" /\ now.parent # 0 /\ runs[now.parent].total # NoTotal =>
              Strays(now) = now.base - runs[now.parent].total
         /\ harness \notin {"hermes", "claude"} => Strays(now) = 0
<1>1. CASE harness = "claude" /\ now.parent # 0
  <2>1. now.parent \in DOMAIN runs
    BY <1>1, Counted DEF Summed
  <2>2. runs[now.parent].total \in Nat
        /\ (runs[now.parent].total # NoTotal => runs[now.parent].total <= now.base)
    BY <2>1, Tallied DEF SplitInv
  <2> QED
    BY <1>1, <2>2, Counted DEF Strays
<1>2. CASE ~(harness = "claude" /\ now.parent # 0)
  BY <1>2, Counted DEF Strays
<1> QED
  BY <1>1, <1>2

-----------------------------------------------------------------------------
(* What the adapters report *)

FairAccount(a, fate, wrote) ==
  /\ fate = "ended" /\ a.status = "complete" /\ (harness = "devin" => wrote) =>
       /\ a.usage = now.own \/ (harness = "hermes" /\ Strays(now) > 0)
       /\ a.cost \in {now.own, NoTotal} \/ Strays(now) > 0
  /\ a.usage # NoTotal => a.usage <= now.own + OnTop(now)
  /\ a.cost # NoTotal => a.cost <= now.own + Strays(now)
\* A measurement that can be reported as it is.
FairMeasure(m, fate, wrote) ==
  /\ m.usage \in Figures /\ m.cost \in Figures
  /\ m.usage <= now.own + OnTop(now)
  /\ m.cost # NoTotal => m.cost <= now.own + Strays(now)
  /\ fate = "ended" /\ (harness = "devin" => wrote) /\ (m.seen \/ ~RequireObserved(fate)) =>
       /\ m.usage = now.own \/ (harness = "hermes" /\ Strays(now) > 0)
       /\ m.cost \in {now.own, NoTotal} \/ Strays(now) > 0

Sound(a) == a.usage \in Figures /\ a.cost \in Figures /\ a.status \in Words

LEMMA Finalized ==
  ASSUME NEW m, NEW fate \in Fates, NEW wrote \in BOOLEAN, FairMeasure(m, fate, wrote),
         now.own \in Nat, Strays(now) \in Nat
  PROVE  FairAccount(Finalize(fate, m), fate, wrote) /\ Sound(Finalize(fate, m))
<1>1. Finalize(fate, m) \in {Unavailable, Account(m.usage, m.cost, "complete"),
                            Account(m.usage, m.cost, "partial")}
  BY DEF Finalize
<1>2. /\ FairAccount(Unavailable, fate, wrote) /\ FairAccount(Account(m.usage, m.cost, "partial"), fate, wrote)
      /\ Sound(Unavailable) /\ Sound(Account(m.usage, m.cost, "partial"))
      /\ Sound(Account(m.usage, m.cost, "complete"))
  BY Amounting DEF FairAccount, FairMeasure, Unavailable, Account, Sound, Words
<1>3. CASE fate = "ended" => m.seen \/ ~RequireObserved(fate)
  <2>1. FairAccount(Account(m.usage, m.cost, "complete"), fate, wrote)
    BY <1>3 DEF FairAccount, FairMeasure, Account
  <2> QED
    BY <1>1, <1>2, <2>1
<1>4. CASE ~(fate = "ended" => m.seen \/ ~RequireObserved(fate))
  BY <1>2, <1>4 DEF Finalize
<1> QED
  BY <1>3, <1>4

LEMMA MeasuredFacts ==
  ASSUME Summed, SplitInv, now.on, NEW fate \in Fates, NEW wrote \in BOOLEAN, harness # "zcode",
         fate = "ended" => now.told = now.main, ~wrote => harness \in Missing(fate),
         ~(harness = "muse" /\ ~Reconciled(fate, wrote))
  PROVE  FairMeasure(Measured(fate, wrote), fate, wrote)
<1>1. /\ now.own \in Nat /\ now.main \in Nat /\ now.told \in Nat /\ now.before \in Nat /\ now.kept \in Nat
      /\ spent \in Nat /\ now.base \in Nat /\ now.told <= now.main /\ now.main <= now.own
      /\ now.base + now.own = spent /\ spent < NoTotal /\ NoTotal \in Nat /\ now.kept <= now.own
      /\ harness # "muse" => now.main = now.own
      /\ now.before \in {NoTotal, now.base}
  BY Counted DEF SplitInv
<1>2. /\ spent \in Figures /\ now.own \in Figures /\ now.told \in Figures /\ 0 \in Figures /\ NoTotal \in Figures
      /\ \A n \in Nat : n <= now.own => n \in Figures
  <2>1. \A n \in Nat : n <= spent => n \in Figures
    BY Counted, Amounting
  <2> QED
    BY <1>1, <2>1, Amounting
<1>3. Strays(now) \in Nat
  BY StraysNat
<1>4. OnTop(now) \in Nat
  BY <1>3 DEF OnTop
<1>5. ~Unmeasured.seen /\ Unmeasured.usage = 0 /\ Unmeasured.cost = NoTotal
  BY DEF Unmeasured, Measure
<1>6. CASE harness = "claude"
  <2>1. Measured(fate, wrote) = Claude(wrote)
    BY <1>6 DEF Measured
  <2>2. ClaudeCost = now.own + Strays(now) /\ ClaudeCost \in Figures
    <3>1. CASE now.parent = 0 \/ now.base = 0
      <4>1. now.base = 0
        BY <3>1 DEF SplitInv
      <4>2. Strays(now) = 0
        <5>1. CASE now.parent = 0
          BY <1>6, <5>1 DEF Strays
        <5>2. CASE now.parent # 0
          <6>1. now.parent \in DOMAIN runs
            BY <5>2, Counted DEF Summed
          <6>2. runs[now.parent].total \in Nat
                /\ (runs[now.parent].total # NoTotal => runs[now.parent].total <= now.base)
            BY <6>1, Tallied DEF SplitInv
          <6> QED
            BY <1>6, <4>1, <5>2, <6>2 DEF Strays
        <5> QED
          BY <5>1, <5>2
      <4> QED
        BY <1>1, <1>2, <3>1, <4>1, <4>2 DEF ClaudeCost
    <3>2. CASE now.parent # 0 /\ now.base # 0
      <4>1. now.parent \in DOMAIN runs
        BY <3>2, Counted DEF Summed
      <4>2. runs[now.parent].total \in Nat
            /\ (runs[now.parent].total # NoTotal => runs[now.parent].total <= now.base)
        BY <4>1, Tallied DEF SplitInv
      <4>3. CASE runs[now.parent].total = NoTotal
        BY <1>1, <1>2, <1>6, <3>2, <4>3 DEF ClaudeCost, Strays
      <4>4. CASE runs[now.parent].total # NoTotal
        <5>1. ClaudeCost = Less(spent, runs[now.parent].total)
          BY <3>2, <4>4 DEF ClaudeCost
        <5>2. Strays(now) = now.base - runs[now.parent].total
          BY <1>6, <3>2, <4>4 DEF Strays
        <5>3. ClaudeCost \in Amounts
          BY <4>2, <5>1, LessAmount, Counted
        <5>4. Less(spent, runs[now.parent].total) = spent - runs[now.parent].total
          BY <1>1, <4>2, <4>4 DEF Less
        <5> QED
          BY <1>1, <4>2, <4>4, <5>1, <5>2, <5>3, <5>4, Amounting
      <4> QED
        BY <4>3, <4>4
    <3> QED
      BY <3>1, <3>2
  <2>3. fate = "ended" => wrote
    BY <1>6 DEF Missing
  <2>4. CASE ~wrote
    <3>1. Measured(fate, wrote) = Unmeasured
      BY <2>1, <2>4 DEF Claude
    <3> QED
      BY <1>1, <1>2, <1>3, <1>4, <1>5, <2>3, <2>4, <3>1 DEF FairMeasure
  <2>5. CASE wrote
    <3>1. /\ Measured(fate, wrote).usage = now.own /\ Measured(fate, wrote).seen
          /\ Measured(fate, wrote).cost = now.own + Strays(now)
          /\ Measured(fate, wrote).cost \in Figures
      BY <2>1, <2>2, <2>5 DEF Claude, Measure
    <3> QED
      BY <1>1, <1>2, <1>3, <1>4, <3>1 DEF FairMeasure
  <2> QED
    BY <2>4, <2>5
<1>7. CASE harness = "hermes"
  <2>1. Measured(fate, wrote) = Hermes(wrote)
    BY <1>7 DEF Measured
  <2>2. HermesUsage = now.own + Strays(now) /\ OnTop(now) = Strays(now) /\ HermesUsage \in Figures
    <3>1. CASE now.before = NoTotal
      BY <1>1, <1>2, <1>7, <3>1, StraysNat DEF HermesUsage, OnTop
    <3>2. CASE now.before # NoTotal
      <4>1. now.before = now.base /\ Strays(now) = 0
        BY <1>1, <1>7, <3>2 DEF Strays
      <4>2. HermesUsage = now.own
        BY <1>1, <3>2, <4>1 DEF HermesUsage, Less
      <4> QED
        BY <1>1, <1>2, <1>7, <4>1, <4>2 DEF OnTop
    <3> QED
      BY <3>1, <3>2
  <2>3. fate = "ended" => wrote
    BY <1>7 DEF Missing
  <2>4. CASE ~wrote
    <3>1. Measured(fate, wrote) = Unmeasured
      BY <2>1, <2>4 DEF Hermes
    <3> QED
      BY <1>1, <1>2, <1>3, <1>4, <1>5, <2>3, <2>4, <3>1 DEF FairMeasure
  <2>5. CASE wrote
    <3>1. /\ Measured(fate, wrote).usage = HermesUsage
          /\ Measured(fate, wrote).cost = HermesUsage
      BY <2>1, <2>5 DEF Hermes, Measure
    <3> QED
      BY <1>1, <1>3, <1>7, <2>2, <3>1 DEF FairMeasure
  <2> QED
    BY <2>4, <2>5
<1>8. CASE harness = "devin"
  <2>1. Measured(fate, wrote) = Devin(fate, wrote) /\ RequireObserved(fate)
    BY <1>8 DEF Measured, RequireObserved
  <2>2. CASE fate = "ended"
    <3>1. DevinSteps(wrote) \in Nat /\ DevinSteps(wrote) <= now.own /\ (wrote => DevinSteps(wrote) = now.own)
      BY <1>1 DEF DevinSteps, DevinStart
    <3>2. Measured(fate, wrote) = Measure(DevinSteps(wrote), DevinSteps(wrote) > 0, NoTotal)
      BY <2>1, <2>2 DEF Devin
    <3>3. /\ Measured(fate, wrote).usage = DevinSteps(wrote) /\ Measured(fate, wrote).cost = NoTotal
      BY <3>2 DEF Measure
    <3> QED
      BY <1>1, <1>2, <1>3, <1>4, <1>8, <3>1, <3>3 DEF FairMeasure
  <2>3. CASE fate # "ended"
    <3>1. Measured(fate, wrote) = Unmeasured
      BY <2>1, <2>3 DEF Devin
    <3> QED
      BY <1>1, <1>2, <1>3, <1>4, <1>5, <2>3, <3>1 DEF FairMeasure
  <2> QED
    BY <2>2, <2>3
<1>9. CASE harness = "muse"
  <2>1. Measured(fate, wrote) = Muse(fate, wrote)
    BY <1>9 DEF Measured
  <2>2. Measured(fate, wrote) = Measure(now.own, TRUE, now.own)
    BY <1>9, <2>1 DEF Muse, Priced
  <2>3. Measured(fate, wrote).usage = now.own /\ Measured(fate, wrote).cost = now.own
    BY <2>2 DEF Measure
  <2> QED
    BY <1>1, <1>2, <1>3, <1>4, <2>3 DEF FairMeasure
<1>10. CASE harness \notin {"claude", "hermes", "devin", "muse"}
  <2>1. Measured(fate, wrote) = Stream(fate)
    BY <1>10 DEF Measured
  <2>2. fate = "ended" => now.told = now.own
    BY <1>1, <1>10
  <2>3. CASE harness = "cursor" /\ fate = "ended"
    <3>1. Measured(fate, wrote) = Measure(now.own, TRUE, NoTotal)
      BY <2>1, <2>3 DEF Stream
    <3>2. Measured(fate, wrote).usage = now.own /\ Measured(fate, wrote).cost = NoTotal
      BY <3>1 DEF Measure
    <3> QED
      BY <1>1, <1>2, <1>3, <1>4, <3>2 DEF FairMeasure
  <2>4. CASE (harness = "cursor" /\ fate # "ended") \/ (harness = "dsh" /\ now.told = 0)
    <3>1. Measured(fate, wrote) = Unmeasured /\ RequireObserved(fate)
      BY <2>1, <2>4 DEF Stream, RequireObserved
    <3> QED
      BY <1>1, <1>2, <1>3, <1>4, <1>5, <3>1 DEF FairMeasure
  <2>5. CASE harness # "cursor" /\ ~(harness = "dsh" /\ now.told = 0)
    <3>1. Measured(fate, wrote) = Measure(now.told, now.told > 0, now.told)
      BY <2>1, <2>5 DEF Stream
    <3>2. Measured(fate, wrote).usage = now.told /\ Measured(fate, wrote).cost = now.told
      BY <3>1 DEF Measure
    <3> QED
      BY <1>1, <1>2, <1>3, <1>4, <2>2, <3>2 DEF FairMeasure
  <2> QED
    BY <2>3, <2>4, <2>5
<1> QED
  BY <1>6, <1>7, <1>8, <1>9, <1>10

LEMMA ReportedFacts ==
  ASSUME Summed, SplitInv, now.on, NEW fate \in Fates, NEW wrote \in BOOLEAN,
         fate = "ended" => now.told = now.main, ~wrote => harness \in Missing(fate)
  PROVE  FairAccount(Reported(fate, wrote), fate, wrote) /\ Sound(Reported(fate, wrote))
<1>1. /\ now.own \in Nat /\ now.told \in Nat /\ now.main \in Nat
      /\ now.told <= now.main /\ now.main <= now.own /\ now.own < NoTotal /\ NoTotal \in Nat
      /\ now.own \in Figures /\ now.told \in Figures /\ NoTotal \in Figures
  <2>1. now.own <= spent
    BY Counted DEF SplitInv
  <2> QED
    BY <2>1, Counted, Amounting
<1>2. Strays(now) \in Nat /\ OnTop(now) \in Nat
  BY StraysNat DEF OnTop
<1>3. CASE harness = "zcode"
  <2>1. Reported(fate, wrote) = ZcodeAccount(fate)
    BY <1>3 DEF Reported
  <2>2. CASE fate = "ended"
    <3>1. Reported(fate, wrote) = Account(now.own, now.own, "complete")
      BY <2>1, <2>2 DEF ZcodeAccount
    <3> QED
      BY <1>1, <1>2, <3>1 DEF FairAccount, Account, Sound, Words
  <2>3. CASE fate # "ended"
    <3>1. Reported(fate, wrote) \in {Account(now.told, now.told, "partial"), Unavailable}
      BY <2>1, <2>3 DEF ZcodeAccount
    <3> QED
      BY <1>1, <1>2, <2>3, <3>1 DEF FairAccount, Account, Unavailable, Sound, Words
  <2> QED
    BY <2>2, <2>3
<1>4. CASE harness = "muse" /\ ~Reconciled(fate, wrote)
  <2> DEFINE m == Measured(fate, wrote)
             a == Finalize(fate, m)
  <2>1. m = Measure(now.told, now.told > 0, NoTotal)
    BY <1>4 DEF Measured, Muse
  <2>2. m.usage = now.told /\ m.cost = NoTotal
    BY <2>1 DEF Measure
  <2> HIDE DEF m
  <2>3. a \in {Unavailable, Account(now.told, NoTotal, "complete"), Account(now.told, NoTotal, "partial")}
    BY <2>2 DEF Finalize
  <2> HIDE DEF a
  <2>4. Reported(fate, wrote) = IF a.status = "complete" THEN [a EXCEPT !.status = "partial"] ELSE a
    BY <1>4 DEF Reported, a, m
  <2>5. Reported(fate, wrote) \in {Unavailable, Account(now.told, NoTotal, "partial")}
    BY <2>3, <2>4 DEF Account, Unavailable
  <2> QED
    BY <1>1, <1>2, <2>5 DEF FairAccount, Account, Unavailable, Sound, Words
<1>5. CASE harness # "zcode" /\ ~(harness = "muse" /\ ~Reconciled(fate, wrote))
  <2>1. Reported(fate, wrote) = Finalize(fate, Measured(fate, wrote))
    BY <1>5 DEF Reported
  <2>2. FairMeasure(Measured(fate, wrote), fate, wrote)
    BY <1>5, MeasuredFacts
  <2> QED
    BY <1>1, <1>2, <2>1, <2>2, Finalized
<1> QED
  BY <1>3, <1>4, <1>5

-----------------------------------------------------------------------------
(* The steps. *)

\* What is recorded stays as it is, and strays as it did.
LEMMA Unstrayed ==
  ASSUME Summed, FairInv, UNCHANGED harness,
         \A i \in DOMAIN runs : i \in DOMAIN runs' /\ runs'[i] = runs[i],
         NEW i \in DOMAIN runs
  PROVE  Fair(runs[i])'
<1>1. runs'[i] = runs[i] /\ Fair(runs[i])
  BY DEF FairInv
<1>2. runs[i].parent < i /\ runs[i] \in Tallies /\ DOMAIN runs = 1 .. Len(runs) /\ Len(runs) \in Nat
  BY Tallied, Counted DEF Summed
<1>3. runs[i].parent # 0 => runs[i].parent \in DOMAIN runs
  BY <1>2 DEF Tallies
<1>4. Strays(runs[i])' = Strays(runs[i])
  BY <1>1, <1>3 DEF Strays
<1> QED
  BY <1>1, <1>4 DEF Fair, OnTop

LEMMA StartStep ==
  ASSUME IInv, NEW parent \in 0..MaxRuns, Start(parent)
  PROVE  IInv'
<1>1. PICK exported \in BOOLEAN :
        now' = [Idle EXCEPT !.on = TRUE, !.parent = parent, !.base = spent,
                            !.before = ExportedTotal(parent, exported)]
  BY DEF Start
<1>2. ExportedTotal(parent, exported) \in {NoTotal, spent}
  BY DEF ExportedTotal
<1>3. ~now.on /\ UNCHANGED <<harness, spent, runs>>
      /\ IF runs = <<>> THEN parent = 0 /\ spent = 0 ELSE parent \in DOMAIN runs
  BY DEF Start
<1>4. Summed /\ SplitInv /\ FairInv
  BY DEF IInv
<1>5. /\ now' \in Flights /\ now'.on /\ now'.parent = parent /\ now'.own = 0 /\ now'.main = 0 /\ now'.kept = 0
      /\ now'.told = 0 /\ now'.base = spent /\ now'.before = ExportedTotal(parent, exported)
  BY <1>1, <1>2, <1>4, IdleFlight, Amounting DEF Summed, Flights
<1>6. parent <= Len(runs) /\ (parent = 0 => spent = 0)
  <2>1. CASE runs = <<>>
    BY <1>3, <1>4, <2>1, Counted
  <2>2. CASE runs # <<>>
    BY <1>3, <1>4, <2>2, Counted
  <2> QED
    BY <2>1, <2>2
<1>7. Summed'
  BY <1>3, <1>4, <1>5, <1>6 DEF Summed
<1>8. SplitInv'
  <2>1. spent \in Nat
    BY <1>4, Counted
  <2> QED
    BY <1>2, <1>3, <1>4, <1>5, <1>6, <2>1 DEF SplitInv
<1>9. FairInv'
  BY <1>3, <1>4, Unstrayed DEF FairInv
<1> QED
  BY <1>7, <1>8, <1>9 DEF IInv

LEMMA CallStep ==
  ASSUME IInv, NEW main \in BOOLEAN, Call(main)
  PROVE  IInv'
<1>1. /\ now.on /\ spent < MaxRuns * MaxCalls /\ spent' = spent + 1 /\ UNCHANGED <<harness, runs>>
      /\ main \/ harness = "muse"
      /\ now.own < MaxCalls
  BY DEF Call
<1>2. Summed /\ SplitInv /\ FairInv /\ now \in Flights
  BY DEF IInv, Summed
<1> DEFINE agents == IF main THEN now.main + 1 ELSE now.main
<1>3. now' = [now EXCEPT !.own = now.own + 1, !.main = agents]
  BY DEF Call
<1>4. /\ now.own \in Nat /\ now.main \in Nat /\ now.told \in Nat /\ now.kept \in Nat /\ now.base \in Nat
      /\ spent \in Nat /\ now.told <= now.main /\ now.main <= now.own /\ now.kept <= now.own
      /\ MaxCalls \in Nat
  BY <1>2, Counted, Amounting
<1>5. /\ agents \in Nat /\ now.told <= agents /\ agents <= now.own + 1
      /\ (harness # "muse" => now.main = now.own) => (harness # "muse" => agents = now.own + 1)
  BY <1>1, <1>4
<1> HIDE DEF agents
<1>6. now.own + 1 \in 0 .. MaxCalls /\ agents \in 0 .. MaxCalls
  BY <1>1, <1>4, <1>5
<1>7. /\ now' \in Flights /\ now'.on /\ now'.own = now.own + 1 /\ now'.main = agents
      /\ now'.told = now.told /\ now'.before = now.before /\ now'.parent = now.parent
      /\ now'.base = now.base /\ now'.kept = now.kept
  BY <1>1, <1>2, <1>3, <1>6 DEF Flights
<1>8. Summed'
  <2>1. spent' \in Amounts
    BY <1>1, <1>4, Amounting
  <2> QED
    BY <1>1, <1>2, <1>4, <1>5, <1>7, <2>1 DEF Summed
<1>9. SplitInv'
  <2>1. \A i \in DOMAIN runs : runs[i].total \in Nat
    BY <1>2, Tallied
  <2> QED
    BY <1>1, <1>2, <1>4, <1>5, <1>7, <2>1 DEF SplitInv
<1>10. FairInv'
  BY <1>1, <1>2, Unstrayed DEF FairInv
<1> QED
  BY <1>8, <1>9, <1>10 DEF IInv

\* What is told, and where Devin goes on, are no more than the calls that were made.
LEMMA TellStep ==
  ASSUME IInv, Tell \/ Continue
  PROVE  IInv'
<1>1. UNCHANGED <<harness, spent, runs>> /\ now.on
  BY DEF Tell, Continue
<1>2. Summed /\ SplitInv /\ FairInv /\ now \in Flights
  BY DEF IInv, Summed
<1>3. /\ now.told \in Nat /\ now.main \in 0 .. MaxCalls /\ now.own \in 0 .. MaxCalls /\ MaxCalls \in Nat
      /\ now.kept \in 0 .. MaxCalls /\ now.told <= now.main /\ now.kept <= now.own
  BY <1>2, Counted, Amounting DEF Flights
<1>4. /\ now' \in Flights /\ now'.on = now.on /\ now'.own = now.own /\ now'.main = now.main
      /\ now'.told <= now'.main /\ now'.kept <= now'.own
      /\ now'.before = now.before /\ now'.parent = now.parent /\ now'.base = now.base
  <2>1. CASE Tell
    <3>1. now' = [now EXCEPT !.told = now.told + 1] /\ now.told + 1 \in 0 .. MaxCalls /\ now.told + 1 <= now.main
      BY <1>3, <2>1 DEF Tell
    <3> QED
      BY <1>2, <1>3, <3>1 DEF Flights
  <2>2. CASE Continue
    <3>1. now' = [now EXCEPT !.kept = now.own]
      BY <2>2 DEF Continue
    <3> QED
      BY <1>2, <1>3, <3>1 DEF Flights
  <2> QED
    BY <2>1, <2>2
<1>5. Summed'
  BY <1>1, <1>2, <1>4, Counted DEF Summed
<1>6. SplitInv'
  BY <1>1, <1>2, <1>4 DEF SplitInv
<1>7. FairInv'
  BY <1>1, <1>2, Unstrayed DEF FairInv
<1> QED
  BY <1>5, <1>6, <1>7 DEF IInv

LEMMA KillStep ==
  ASSUME IInv, Kill
  PROVE  IInv'
<1>1. UNCHANGED <<harness, spent, runs>> /\ now' = Idle
  BY DEF Kill
<1>2. Summed /\ SplitInv /\ FairInv
  BY DEF IInv
<1>3. Summed'
  BY <1>1, <1>2, IdleFlight, Counted DEF Summed
<1>4. SplitInv'
  BY <1>1, <1>2, IdleFlight DEF SplitInv
<1>5. FairInv'
  BY <1>1, <1>2, Unstrayed DEF FairInv
<1> QED
  BY <1>3, <1>4, <1>5 DEF IInv

LEMMA FinishStep ==
  ASSUME IInv, NEW fate \in Fates, NEW wrote \in BOOLEAN, Finish(fate, wrote)
  PROVE  IInv'
<1> DEFINE a == Reported(fate, wrote)
           total == IF wrote THEN spent ELSE NoTotal
           r == [parent |-> now.parent, fate |-> fate, base |-> now.base, before |-> now.before,
                 own |-> now.own, kept |-> now.kept, wrote |-> wrote,
                 usage |-> a.usage, cost |-> a.cost, status |-> a.status, total |-> total]
<1>1. now.on /\ runs' = Append(runs, r) /\ now' = Idle /\ UNCHANGED <<harness, spent>>
  BY DEF Finish
<1>2. Summed /\ SplitInv /\ FairInv /\ now \in Flights /\ runs \in Seq(Tallies)
  BY DEF IInv, Summed
<1>3. FairAccount(a, fate, wrote) /\ Sound(a)
  BY <1>1, <1>2, ReportedFacts DEF Finish
<1>4. total \in Figures /\ (total # NoTotal => total = spent)
  BY <1>2, Counted, Amounting
<1> HIDE DEF a, total
<1>5. /\ r \in Tallies /\ r.total = total /\ r.parent = now.parent /\ r.base = now.base
      /\ r.before = now.before /\ r.own = now.own /\ r.fate = fate /\ r.wrote = wrote
      /\ r.usage = a.usage /\ r.cost = a.cost /\ r.status = a.status
  BY <1>2, <1>3, <1>4, Amounting DEF Tallies, Flights, Sound
<1> HIDE DEF r
<1>6. /\ runs' \in Seq(Tallies) /\ Len(runs') = Len(runs) + 1 /\ Len(runs) \in Nat
      /\ \A i \in DOMAIN runs' : i \in DOMAIN runs \/ i = Len(runs) + 1
      /\ \A i \in DOMAIN runs : i \in DOMAIN runs' /\ runs'[i] = runs[i]
      /\ runs'[Len(runs) + 1] = r /\ DOMAIN runs = 1 .. Len(runs)
  BY <1>1, <1>2, <1>5
<1>7. now.parent \in Nat /\ now.parent <= Len(runs) /\ spent \in Nat
  BY <1>2, Counted DEF Summed
<1>8. Summed'
  <2>1. \A i \in DOMAIN runs' : runs'[i].parent < i
    BY <1>2, <1>5, <1>6, <1>7 DEF Summed
  <2> QED
    BY <1>1, <1>2, <1>6, <2>1, IdleFlight DEF Summed
<1>9. SplitInv'
  <2>1. \A i \in DOMAIN runs' : runs'[i].total # NoTotal => runs'[i].total <= spent
    BY <1>2, <1>4, <1>5, <1>6, <1>7 DEF SplitInv
  <2> QED
    BY <1>1, <2>1, IdleFlight DEF SplitInv
<1>10. FairInv'
  <2>1. PICK n \in Nat : n = Len(runs) + 1
    BY <1>6
  <2>2. runs[n]' = r
    BY <1>6, <2>1
  <2>3. now.parent # 0 => now.parent \in DOMAIN runs
    BY <1>6, <1>7
  <2>4. Strays(runs[n])' = Strays(now)
    BY <1>1, <1>5, <1>6, <2>2, <2>3 DEF Strays
  <2>5. Fair(runs[n])'
    BY <1>1, <1>3, <1>5, <2>2, <2>4 DEF Fair, FairAccount, OnTop
  <2>6. ASSUME NEW i \in DOMAIN runs' PROVE Fair(runs[i])'
    <3>1. CASE i \in DOMAIN runs
      BY <1>1, <1>2, <1>6, <3>1, Unstrayed
    <3>2. CASE i = n
      BY <2>5, <3>2
    <3> QED
      BY <1>6, <2>1, <3>1, <3>2
  <2> QED
    BY <2>6 DEF FairInv
<1> QED
  BY <1>8, <1>9, <1>10 DEF IInv

LEMMA AccountingInductive == Spec => []IInv
<1>1. Init => IInv
  <2> SUFFICES ASSUME Init PROVE IInv
    OBVIOUS
  <2>1. runs \in Seq(Tallies) /\ DOMAIN runs = {} /\ Len(runs) = 0
    BY EmptySeq DEF Init
  <2> QED
    BY <2>1, IdleFlight, Amounting DEF Init, IInv, Summed, SplitInv, FairInv
<1>2. IInv /\ [Next]_vars => IInv'
  <2> SUFFICES ASSUME IInv, [Next]_vars PROVE IInv'
    OBVIOUS
  <2>1. CASE \E parent \in 0..MaxRuns : Start(parent)
    BY <2>1, StartStep
  <2>2. CASE \E main \in BOOLEAN : Call(main)
    BY <2>2, CallStep
  <2>3. CASE Tell \/ Continue
    BY <2>3, TellStep
  <2>4. CASE Kill
    BY <2>4, KillStep
  <2>5. CASE \E fate \in Fates, wrote \in BOOLEAN : Finish(fate, wrote)
    BY <2>5, FinishStep
  <2>6. CASE UNCHANGED vars
    <3>1. Summed' /\ SplitInv'
      BY <2>6 DEF vars, IInv, Summed, SplitInv
    <3>2. FairInv'
      BY <2>6, Unstrayed DEF vars, IInv, FairInv
    <3> QED
      BY <3>1, <3>2 DEF IInv
  <2> QED
    BY <2>1, <2>2, <2>3, <2>4, <2>5, <2>6 DEF Next
<1> QED
  BY <1>1, <1>2, PTL DEF Spec

\* A run that ended by itself and calls its accounting complete reports exactly what it
\* used, but for the calls that no total taken off has and the part of Devin's export
\* that a continuation cuts off (the adapters' parsers and _finalize_accounting).
THEOREM CompleteRunsAreOwn == Spec => []CompleteIsOwn
<1>1. IInv => CompleteIsOwn
  BY DEF IInv, FairInv, Fair, CompleteIsOwn
<1> QED
  BY <1>1, AccountingInductive, PTL

\* What each run reports is at most its own and those strays, so no other call is counted
\* twice over the runs of a session, whichever were killed, resumed again or not exported.
THEOREM CallsAreCountedOnce == Spec => []CountedOnce
<1>1. IInv => CountedOnce
  BY DEF IInv, FairInv, Fair, OnTop, CountedOnce
<1> QED
  BY <1>1, AccountingInductive, PTL

\* Every reachable state of SessionAccounting is well typed.
THEOREM AccountingTypeCorrect == Spec => []TypeOK
<1>1. IInv => TypeOK
  <2> SUFFICES ASSUME IInv PROVE TypeOK
    OBVIOUS
  <2>1. Summed /\ \A i \in DOMAIN runs : runs[i] \in Tallies
    BY DEF IInv, Summed
  <2> QED
    BY <2>1, Amounting DEF Summed, TypeOK, Tallies, Flights, Figures, Words
<1> QED
  BY <1>1, AccountingInductive, PTL

-----------------------------------------------------------------------------
(* ClaudeLogin: the user's Claude sign-in and its private copies.          *)

Watched == Watching \cup {"final", "final_copy"}
Copying == {"copy", "final_copy"}
Starting == {"start", "start_copy"}

LoginTyped ==
  /\ live \in Nat /\ 0 < live /\ source \in 0 .. live
  /\ live <= MaxRefresh + 1
  /\ private \in [Homes -> 0 .. live] /\ shared \in [Homes -> 0 .. live]
  /\ got \in [Homes -> [source : 0 .. live, private : 0 .. live]]
  /\ seen \in [Homes -> [source : 0 .. live, private : 0 .. live]]
  /\ pc \in [Homes -> Points]
  /\ crashes \in 0 .. MaxCrashes /\ failures \in 0 .. MaxFailures /\ stranded \in BOOLEAN

\* A token that was accepted when it was read, and still is, has not left its file.
ReadInv(t) ==
  /\ pc[t] \in Starting \cup Copying =>
       /\ got[t].source = live => source = live
       /\ got[t].private = live => private[t] = live
  /\ pc[t] \in Starting => got[t].private = private[t]

\* What a private copy that differs from the token known on both sides may be.
KnownInv(t) ==
  pc[t] \in Watched =>
    /\ shared[t] = live => private[t] \in {0, live}
    /\ shared[t] # 0 /\ shared[t] = source => private[t] \in {0, shared[t], live}

\* A run that AOP found ahead still is when its copy is taken.
AheadInv(t) ==
  pc[t] \in Copying /\ RunIsAhead(t) => private[t] = live /\ shared[t] # live /\ source # live

\* A token the user's file has not got yet is in one private copy only.
OneHolder ==
  source # live => \A t, u \in Homes : private[t] = live /\ private[u] = live => t = u

WipeInv == LoginTyped /\ OneHolder /\ \A t \in Homes : ReadInv(t) /\ KnownInv(t) /\ AheadInv(t)

LEMMA LoginBounds == MaxRefresh \in Nat /\ MaxCrashes \in Nat /\ MaxFailures \in Nat
BY LoginAssumption

LEMMA LoginStarts == ASSUME LoginInit PROVE WipeInv
<1>1. live = 1 /\ source = 1 /\ crashes = 0 /\ failures = 0 /\ stranded = FALSE
  BY DEF LoginInit
<1>2. LoginTyped
  <2>1. /\ private \in [Homes -> 0 .. live] /\ shared \in [Homes -> 0 .. live] /\ pc \in [Homes -> Points]
    BY <1>1 DEF LoginInit, Points
  <2>2. Nothing \in [source : 0 .. live, private : 0 .. live]
    BY <1>1 DEF Nothing
  <2>3. /\ got \in [Homes -> [source : 0 .. live, private : 0 .. live]]
        /\ seen \in [Homes -> [source : 0 .. live, private : 0 .. live]]
    BY <2>2 DEF LoginInit
  <2>4. /\ live \in Nat /\ 0 < live /\ source \in 0 .. live /\ live <= MaxRefresh + 1
        /\ crashes \in 0 .. MaxCrashes /\ failures \in 0 .. MaxFailures
    BY <1>1, LoginBounds
  <2>5. stranded \in BOOLEAN
    BY Zenon DEF LoginInit
  <2> QED
    BY <2>1, <2>3, <2>4, <2>5 DEF LoginTyped
<1>3. OneHolder
  BY <1>1 DEF OneHolder
<1>4. \A t \in Homes : ReadInv(t) /\ KnownInv(t) /\ AheadInv(t)
  BY DEF LoginInit, ReadInv, KnownInv, AheadInv, Watched, Copying, Starting, Watching
<1> QED
  BY <1>2, <1>3, <1>4 DEF WipeInv

LEMMA BeginKeeps ==
  ASSUME WipeInv, NEW t \in Homes, Begin(t) PROVE WipeInv'
<1> USE DEF At, Goto, Files, Nothing, trouble
<1>1. LoginTyped'
  BY DEF Begin, WipeInv, LoginTyped, Points, Watching
<1>2. OneHolder'
  BY DEF Begin, WipeInv, LoginTyped, OneHolder
<1>3. ASSUME NEW u \in Homes PROVE (ReadInv(u) /\ KnownInv(u) /\ AheadInv(u))'
  BY <1>3 DEF Begin, WipeInv, LoginTyped, OneHolder, ReadInv, KnownInv, AheadInv,
      Watched, Copying, Starting,
      Watching, RunIsAhead
<1> QED
  BY <1>1, <1>2, <1>3 DEF WipeInv

LEMMA DecideKeeps ==
  ASSUME WipeInv, NEW t \in Homes, Decide(t) PROVE WipeInv'
<1> USE DEF At, Goto, Files, Nothing, trouble
<1>1. LoginTyped'
  BY DEF Decide, WipeInv, LoginTyped, Points, Watching
<1>2. OneHolder'
  BY DEF Decide, WipeInv, LoginTyped, OneHolder, ReadInv, Starting
<1>3. ASSUME NEW u \in Homes PROVE (ReadInv(u) /\ KnownInv(u) /\ AheadInv(u))'
  BY <1>3 DEF Decide, WipeInv, LoginTyped, OneHolder, ReadInv, KnownInv, AheadInv,
      Watched, Copying, Starting,
      Watching, RunIsAhead
<1> QED
  BY <1>1, <1>2, <1>3 DEF WipeInv

LEMMA StartCopyKeeps ==
  ASSUME WipeInv, NEW t \in Homes, StartCopy(t) PROVE WipeInv'
<1> USE DEF At, Goto, Files, Nothing, trouble
<1>1. LoginTyped'
  BY DEF StartCopy, WipeInv, LoginTyped, Points, Watching
<1>2. OneHolder'
  BY DEF StartCopy, WipeInv, LoginTyped, OneHolder, ReadInv, Starting
<1>3. ASSUME NEW u \in Homes PROVE (ReadInv(u) /\ KnownInv(u) /\ AheadInv(u))'
  BY <1>3 DEF StartCopy, WipeInv, LoginTyped, OneHolder, ReadInv, KnownInv, AheadInv,
      Watched, Copying, Starting,
      Watching, RunIsAhead
<1> QED
  BY <1>1, <1>2, <1>3 DEF WipeInv

LEMMA StartCopyFailsKeeps ==
  ASSUME WipeInv, NEW t \in Homes, StartCopyFails(t) PROVE WipeInv'
<1> USE DEF At, Goto, Files, Nothing, trouble
<1>1. LoginTyped'
  BY LoginAssumption DEF StartCopyFails, WipeInv, LoginTyped, Points, Watching, trouble
<1>2. OneHolder'
  BY DEF StartCopyFails, WipeInv, LoginTyped, OneHolder
<1>3. ASSUME NEW u \in Homes PROVE (ReadInv(u) /\ KnownInv(u) /\ AheadInv(u))'
  BY <1>3 DEF StartCopyFails, WipeInv, LoginTyped, OneHolder, ReadInv, KnownInv, AheadInv,
      Watched, Copying, Starting,
      Watching, RunIsAhead
<1> QED
  BY <1>1, <1>2, <1>3 DEF WipeInv

LEMMA PollKeeps ==
  ASSUME WipeInv, NEW t \in Homes, Poll(t) PROVE WipeInv'
<1> USE DEF At, Goto, Files, Nothing, trouble
<1>1. LoginTyped'
  BY DEF Poll, WipeInv, LoginTyped, Points, Watching
<1>2. OneHolder'
  BY DEF Poll, WipeInv, LoginTyped, OneHolder
<1>3. ASSUME NEW u \in Homes PROVE (ReadInv(u) /\ KnownInv(u) /\ AheadInv(u))'
  BY <1>3 DEF Poll, WipeInv, LoginTyped, OneHolder, ReadInv, KnownInv, AheadInv,
      Watched, Copying, Starting,
      Watching, RunIsAhead
<1> QED
  BY <1>1, <1>2, <1>3 DEF WipeInv

LEMMA RunEndsKeeps ==
  ASSUME WipeInv, NEW t \in Homes, RunEnds(t) PROVE WipeInv'
<1> USE DEF At, Goto, Files, Nothing, trouble
<1>1. LoginTyped'
  BY DEF RunEnds, WipeInv, LoginTyped, Points, Watching
<1>2. OneHolder'
  BY DEF RunEnds, WipeInv, LoginTyped, OneHolder
<1>3. ASSUME NEW u \in Homes PROVE (ReadInv(u) /\ KnownInv(u) /\ AheadInv(u))'
  BY <1>3 DEF RunEnds, WipeInv, LoginTyped, OneHolder, ReadInv, KnownInv, AheadInv,
      Watched, Copying, Starting,
      Watching, RunIsAhead
<1> QED
  BY <1>1, <1>2, <1>3 DEF WipeInv

LEMMA FinalReadKeeps ==
  ASSUME WipeInv, NEW t \in Homes, FinalRead(t) PROVE WipeInv'
<1> USE DEF At, Goto, Files, Nothing, trouble
<1>1. LoginTyped'
  BY DEF FinalRead, WipeInv, LoginTyped, Points, Watching
<1>2. OneHolder'
  BY DEF FinalRead, WipeInv, LoginTyped, OneHolder
<1>3. ASSUME NEW u \in Homes PROVE (ReadInv(u) /\ KnownInv(u) /\ AheadInv(u))'
  BY <1>3 DEF FinalRead, WipeInv, LoginTyped, OneHolder, ReadInv, KnownInv, AheadInv,
      Watched, Copying, Starting,
      Watching, RunIsAhead
<1> QED
  BY <1>1, <1>2, <1>3 DEF WipeInv

LEMMA StampKeeps ==
  ASSUME WipeInv, NEW t \in Homes, Stamp(t) PROVE WipeInv'
<1> USE DEF At, Goto, Files, Nothing, trouble
<1>1. LoginTyped'
  BY DEF Stamp, WipeInv, LoginTyped, Points, Watching
<1>2. OneHolder'
  BY DEF Stamp, WipeInv, LoginTyped, OneHolder
<1>3. ASSUME NEW u \in Homes PROVE (ReadInv(u) /\ KnownInv(u) /\ AheadInv(u))'
  BY <1>3 DEF Stamp, WipeInv, LoginTyped, OneHolder, ReadInv, KnownInv, AheadInv,
      Watched, Copying, Starting,
      Watching, RunIsAhead
<1> QED
  BY <1>1, <1>2, <1>3 DEF WipeInv

LEMMA CrashKeeps ==
  ASSUME WipeInv, NEW t \in Homes, Crash(t) PROVE WipeInv'
<1> USE DEF At, Goto, Files, Nothing, trouble
<1>1. LoginTyped'
  BY LoginAssumption DEF Crash, WipeInv, LoginTyped, Points, Watching
<1>2. OneHolder'
  BY DEF Crash, WipeInv, LoginTyped, OneHolder
<1>3. ASSUME NEW u \in Homes PROVE (ReadInv(u) /\ KnownInv(u) /\ AheadInv(u))'
  BY <1>3 DEF Crash, WipeInv, LoginTyped, OneHolder, ReadInv, KnownInv, AheadInv,
      Watched, Copying, Starting,
      Watching, RunIsAhead
<1> QED
  BY <1>1, <1>2, <1>3 DEF WipeInv

LEMMA CopyKeeps ==
  ASSUME WipeInv, NEW t \in Homes, Copy(t) PROVE WipeInv'
<1> USE DEF At, Goto, Files, Nothing, trouble
<1>1. LoginTyped'
  BY DEF Copy, WipeInv, LoginTyped, Points, Watching, AheadInv, Copying
<1>2. OneHolder'
  BY DEF Copy, WipeInv, LoginTyped, OneHolder, AheadInv, Copying
<1>3. ASSUME NEW u \in Homes PROVE (ReadInv(u) /\ KnownInv(u) /\ AheadInv(u))'
  BY <1>3 DEF Copy, WipeInv, LoginTyped, OneHolder, ReadInv, KnownInv, AheadInv,
      Watched, Copying, Starting,
      Watching, RunIsAhead, UserIsAhead
<1> QED
  BY <1>1, <1>2, <1>3 DEF WipeInv

LEMMA CopyFailsKeeps ==
  ASSUME WipeInv, NEW t \in Homes, CopyFails(t) PROVE WipeInv'
<1> USE DEF At, Goto, Files, Nothing, trouble
<1>1. LoginTyped'
  BY LoginAssumption DEF CopyFails, WipeInv, LoginTyped, Points, Watching
<1>2. OneHolder'
  BY DEF CopyFails, WipeInv, LoginTyped, OneHolder
<1>3. ASSUME NEW u \in Homes PROVE (ReadInv(u) /\ KnownInv(u) /\ AheadInv(u))'
  BY <1>3 DEF CopyFails, WipeInv, LoginTyped, OneHolder, ReadInv, KnownInv, AheadInv,
      Watched, Copying, Starting,
      Watching, RunIsAhead
<1> QED
  BY <1>1, <1>2, <1>3 DEF WipeInv

LEMMA UserRefreshKeeps ==
  ASSUME WipeInv, UserRefreshes PROVE WipeInv'
<1> USE DEF At, Goto, Files, Nothing, trouble
<1>1. LoginTyped'
  BY LoginAssumption DEF UserRefreshes, WipeInv, LoginTyped, Points, Watching
<1>2. OneHolder'
  BY DEF UserRefreshes, WipeInv, LoginTyped, OneHolder
<1>3. ASSUME NEW u \in Homes PROVE (ReadInv(u) /\ KnownInv(u) /\ AheadInv(u))'
  BY <1>3 DEF UserRefreshes, WipeInv, LoginTyped, OneHolder, ReadInv, KnownInv, AheadInv,
      Watched, Copying, Starting,
      Watching, RunIsAhead, InStep, Settled
<1> QED
  BY <1>1, <1>2, <1>3 DEF WipeInv

LEMMA UserRefreshFailsKeeps ==
  ASSUME WipeInv, UserRefreshFails PROVE WipeInv'
<1> USE DEF At, Goto, Files, Nothing, trouble
<1>1. LoginTyped'
  BY LoginAssumption DEF UserRefreshFails, WipeInv, LoginTyped, Points, Watching
<1>2. OneHolder'
  BY DEF UserRefreshFails, WipeInv, LoginTyped, OneHolder
<1>3. ASSUME NEW u \in Homes PROVE (ReadInv(u) /\ KnownInv(u) /\ AheadInv(u))'
  BY <1>3 DEF UserRefreshFails, WipeInv, LoginTyped, OneHolder, ReadInv, KnownInv, AheadInv,
      Watched, Copying, Starting,
      Watching, RunIsAhead
<1> QED
  BY <1>1, <1>2, <1>3 DEF WipeInv

LEMMA RunRefreshKeeps ==
  ASSUME WipeInv, NEW t \in Homes, RunRefreshes(t)
  PROVE WipeInv'
<1> USE DEF At, Goto, Files, Nothing, trouble
<1>1. LoginTyped'
  BY LoginAssumption DEF RunRefreshes, WipeInv, LoginTyped, Points, Watching, InStep, Settled
<1>2. OneHolder'
  BY DEF RunRefreshes, WipeInv, LoginTyped, OneHolder, InStep, Settled
<1>3. ASSUME NEW u \in Homes PROVE (ReadInv(u) /\ KnownInv(u) /\ AheadInv(u))'
  BY <1>3 DEF RunRefreshes, WipeInv, LoginTyped, OneHolder, ReadInv, KnownInv, AheadInv,
      Watched, Copying, Starting,
      Watching, RunIsAhead, InStep, Settled
<1> QED
  BY <1>1, <1>2, <1>3 DEF WipeInv

LEMMA FailedRefreshKeeps ==
  ASSUME WipeInv, NEW t \in Homes, RunRefreshFails(t) PROVE WipeInv'
<1> USE DEF At, Goto, Files, Nothing, trouble
<1>1. LoginTyped'
  BY DEF RunRefreshFails, WipeInv, LoginTyped, Points, Watching
<1>2. OneHolder'
  BY DEF RunRefreshFails, WipeInv, LoginTyped, OneHolder
<1>3. ASSUME NEW u \in Homes PROVE (ReadInv(u) /\ KnownInv(u) /\ AheadInv(u))'
  BY <1>3 DEF RunRefreshFails, WipeInv, LoginTyped, OneHolder, ReadInv, KnownInv, AheadInv,
      Watched, Copying, Starting,
      Watching, RunIsAhead
<1> QED
  BY <1>1, <1>2, <1>3 DEF WipeInv

LEMMA LoginStep ==
  ASSUME WipeInv, [LoginNext]_loginVars PROVE WipeInv'
<1>1. CASE UNCHANGED loginVars
  BY <1>1 DEF WipeInv, LoginTyped, OneHolder, ReadInv, KnownInv, AheadInv, RunIsAhead, loginVars
<1>2. CASE UserRefreshes \/ UserRefreshFails
  BY <1>2, UserRefreshKeeps, UserRefreshFailsKeeps
<1>3. ASSUME NEW t \in Homes,
             \/ Begin(t) \/ Watch(t) \/ RunEnds(t) \/ Crash(t)
             \/ RunRefreshes(t) \/ RunRefreshFails(t)
      PROVE WipeInv'
  BY <1>3, BeginKeeps, DecideKeeps, StartCopyKeeps, StartCopyFailsKeeps, PollKeeps, CopyKeeps, CopyFailsKeeps,
     StampKeeps, FinalReadKeeps, RunEndsKeeps, CrashKeeps, RunRefreshKeeps, FailedRefreshKeeps DEF Watch
<1> QED
  BY <1>1, <1>2, <1>3 DEF LoginNext

LEMMA LoginInductive == LoginSpec => []WipeInv
BY LoginStarts, LoginStep, PTL DEF LoginSpec

\* Files, tokens and what each task knows of them are well typed in every reachable state.
THEOREM LoginTypeCorrect == LoginSpec => []LoginTypeOK
<1>1. WipeInv => LoginTypeOK
  <2> SUFFICES ASSUME WipeInv PROVE LoginTypeOK
    OBVIOUS
  <2>1. 0 .. live \subseteq Tokens /\ live \in Tokens /\ source \in Tokens
    BY LoginAssumption DEF WipeInv, LoginTyped, Tokens
  <2> QED
    BY <2>1 DEF WipeInv, LoginTyped, LoginTypeOK, Pair
<1> QED
  BY <1>1, LoginInductive, PTL

\* Whatever fails, is killed and is copied in whatever order, no copy empties the user's
\* file: one that Claude wiped is not taken for a newer one.
THEOREM WipedCopiesStayPrivate == LoginSpec => WipedStaysPrivate
<1>1. ASSUME WipeInv, [LoginNext]_loginVars
      PROVE  [source # 0 /\ source' = 0 => UserRefreshFails]_loginVars
  <2>1. CASE UNCHANGED loginVars
    BY <2>1
  <2>2. ASSUME UserRefreshes PROVE source' # 0
    BY <1>1, <2>2 DEF UserRefreshes, WipeInv, LoginTyped
  <2>3. ASSUME NEW t \in Homes, Copy(t) PROVE source' = source \/ source' # 0
    BY <1>1, <2>3 DEF Copy, WipeInv, LoginTyped, AheadInv, Copying
  <2>4. ASSUME NEW t \in Homes,
               \/ Begin(t) \/ Watch(t) \/ RunEnds(t) \/ Crash(t)
               \/ RunRefreshes(t) \/ RunRefreshFails(t)
        PROVE  source' = source \/ source' # 0
    BY <2>3, <2>4 DEF Watch, Begin, Decide, StartCopy, StartCopyFails, Poll, CopyFails, Stamp, FinalRead,
       RunEnds, Crash, RunRefreshes, RunRefreshFails
  <2> QED
    BY <1>1, <2>1, <2>2, <2>4 DEF LoginNext
<1> QED
  BY <1>1, LoginInductive, PTL DEF LoginSpec, WipedStaysPrivate

-----------------------------------------------------------------------------
\* The private copy that has the accepted token until a sync gives it to the user: one a
\* run holds that AOP will find ahead or, once the user's file is empty, any.
InHand(t) ==
  /\ private[t] = live
  /\ IF source = 0
     THEN /\ pc[t] # "start_copy"
          /\ pc[t] = "start" => got[t].source = 0
          /\ pc[t] \in Copying => got[t].source \in {0, shared[t]}
     ELSE /\ pc[t] \in Watched /\ shared[t] = source
          /\ pc[t] = "copy" => got[t].source = source
          /\ pc[t] = "final_copy" => RunIsAhead(t)

\* What a sync read of the user's file, when both sides are known to hold the same.
ReadInStep(t) ==
  pc[t] = "copy" /\ private[t] = live /\ shared[t] = live /\ source = live => got[t].source = live

KeptInv ==
  /\ \A t \in Homes : ReadInStep(t)
  /\ stranded \/ source = live \/ \E t \in Homes : InHand(t)

LEMMA ReadKept ==
  ASSUME WipeInv, KeptInv, [LoginNext]_loginVars, NEW u \in Homes
  PROVE  ReadInStep(u)'
<1> USE DEF At, Goto, Files, Nothing, trouble
<1>1. CASE UNCHANGED loginVars
  BY <1>1 DEF KeptInv, ReadInStep, loginVars
<1>2. CASE UserRefreshes
  BY <1>2 DEF UserRefreshes, KeptInv, ReadInStep, WipeInv, LoginTyped
<1>3. CASE UserRefreshFails
  BY <1>3 DEF UserRefreshFails, KeptInv, ReadInStep, WipeInv, LoginTyped
<1>4. ASSUME NEW t \in Homes, RunRefreshes(t) PROVE ReadInStep(u)'
  BY <1>4 DEF RunRefreshes, KeptInv, ReadInStep, WipeInv, LoginTyped
<1>5. ASSUME NEW t \in Homes, Copy(t) PROVE ReadInStep(u)'
  BY <1>5 DEF Copy, KeptInv, ReadInStep, WipeInv, LoginTyped, OneHolder, AheadInv, Copying
<1>6. ASSUME NEW t \in Homes, Poll(t) \/ Decide(t) \/ StartCopy(t) \/ RunRefreshFails(t) PROVE ReadInStep(u)'
  BY <1>6 DEF Poll, Decide, StartCopy, RunRefreshFails, KeptInv, ReadInStep, WipeInv, LoginTyped
<1>7. ASSUME NEW t \in Homes, Begin(t) \/ StartCopyFails(t) \/ CopyFails(t) \/ Stamp(t) \/ FinalRead(t)
                              \/ RunEnds(t) \/ Crash(t)
      PROVE  ReadInStep(u)'
  BY <1>7 DEF Begin, StartCopyFails, CopyFails, Stamp, FinalRead, RunEnds, Crash, KeptInv, ReadInStep, InStep,
     WipeInv, LoginTyped
<1> QED
  BY <1>1, <1>2, <1>3, <1>4, <1>5, <1>6, <1>7 DEF LoginNext, Watch

\* A token in hand stays so until it is the user's, and no other run has it meanwhile.
LEMMA HandKept ==
  ASSUME WipeInv, [LoginNext]_loginVars, source # live, ~stranded', NEW h \in Homes, InHand(h)
  PROVE  source' = live' \/ \E t \in Homes : InHand(t)'
<1> USE DEF At, Goto, Files, Nothing, trouble, InHand
<1>1. \A u \in Homes : u # h => private[u] # live
  BY DEF WipeInv, OneHolder
<1>2. CASE UNCHANGED loginVars
  BY <1>2 DEF loginVars, RunIsAhead
<1>3. CASE UserRefreshes
  BY <1>3 DEF UserRefreshes
<1>4. CASE UserRefreshFails
  BY <1>4 DEF UserRefreshFails, RunIsAhead, WipeInv, LoginTyped, Watched, Watching, Copying
<1>5. ASSUME NEW t \in Homes, t # h,
             \/ Begin(t) \/ Watch(t) \/ RunEnds(t) \/ Crash(t)
             \/ RunRefreshes(t) \/ RunRefreshFails(t)
      PROVE  InHand(h)'
  <2>1. /\ private'[h] = private[h] /\ pc'[h] = pc[h] /\ got'[h] = got[h] /\ shared'[h] = shared[h]
    BY <1>5 DEF Begin, Watch, Decide, StartCopy, StartCopyFails, Poll, Copy, CopyFails, Stamp, FinalRead,
       RunEnds, Crash, RunRefreshes, RunRefreshFails, WipeInv, LoginTyped
  <2>2. live' = live
    BY <1>1, <1>5 DEF Begin, Watch, Decide, StartCopy, StartCopyFails, Poll, Copy, CopyFails, Stamp, FinalRead,
       RunEnds, Crash, RunRefreshes, RunRefreshFails
  <2>3. source' = source
    BY <1>1, <1>5 DEF Begin, Watch, Decide, StartCopy, StartCopyFails, Poll, Copy, CopyFails, Stamp, FinalRead,
       RunEnds, Crash, RunRefreshes, RunRefreshFails, WipeInv, AheadInv, Copying
  <2> QED
    BY <2>1, <2>2, <2>3 DEF RunIsAhead
<1>6. ASSUME Begin(h) \/ Poll(h) \/ Stamp(h) \/ RunEnds(h) PROVE InHand(h)'
  BY <1>6 DEF Begin, Poll, Stamp, RunEnds, WipeInv, LoginTyped, Watched, Watching, Copying
<1>7. ASSUME Decide(h) \/ StartCopy(h) \/ StartCopyFails(h) PROVE InHand(h)'
  BY <1>7 DEF Decide, StartCopy, StartCopyFails, WipeInv, LoginTyped, Watched, Watching, Copying
<1>8. ASSUME FinalRead(h) PROVE InHand(h)'
  BY <1>8 DEF FinalRead, RunIsAhead, WipeInv, LoginTyped, Watched, Watching, Copying
<1>9. ASSUME Copy(h) PROVE source' = live' \/ InHand(h)'
  BY <1>9 DEF Copy, RunIsAhead, UserIsAhead, WipeInv, LoginTyped, AheadInv, Watched, Watching, Copying
<1>10. ASSUME CopyFails(h) PROVE InHand(h)'
  BY <1>10 DEF CopyFails, OnlyPrivate, WipeInv, LoginTyped, Watched, Watching, Copying
<1>11. ASSUME Crash(h) PROVE FALSE
  BY <1>11 DEF Crash, OnlyPrivate
<1>12. ASSUME RunRefreshFails(h) PROVE FALSE
  BY <1>12 DEF RunRefreshFails
<1>13. ASSUME RunRefreshes(h) PROVE InHand(h)'
  <2>1. pc[h] = "poll"
    BY <1>13 DEF RunRefreshes, Settled, InStep
  <2> QED
    BY <1>13, <2>1 DEF RunRefreshes, WipeInv, LoginTyped, Watched, Watching, Copying
<1>14. ASSUME NEW t \in Homes,
             \/ Begin(t) \/ Watch(t) \/ RunEnds(t) \/ Crash(t)
             \/ RunRefreshes(t) \/ RunRefreshFails(t)
       PROVE  source' = live' \/ \E u \in Homes : InHand(u)'
  <2>1. CASE t # h
    BY <1>5, <1>14, <2>1
  <2>2. CASE t = h
    <3> HIDE DEF InHand
    <3> QED
      BY <1>6, <1>7, <1>8, <1>9, <1>10, <1>11, <1>12, <1>13, <1>14, <2>2 DEF Watch
  <2> QED
    BY <2>1, <2>2
<1> HIDE DEF InHand
<1> QED
  BY <1>2, <1>3, <1>4, <1>14 DEF LoginNext

\* While the user's file has the accepted token, only a run's refresh gets ahead of it.
LEMMA UserKept ==
  ASSUME WipeInv, KeptInv, [LoginNext]_loginVars, source = live, ~stranded'
  PROVE  source' = live' \/ \E t \in Homes : InHand(t)'
<1> USE DEF At, Goto, Files, Nothing, trouble
<1>1. CASE UNCHANGED loginVars
  BY <1>1 DEF loginVars
<1>2. CASE UserRefreshes \/ UserRefreshFails
  BY <1>2 DEF UserRefreshes, UserRefreshFails
<1>3. ASSUME NEW t \in Homes, RunRefreshes(t) PROVE InHand(t)'
  <2>1. shared[t] = live /\ pc[t] \in Watching /\ private[t] = live
    BY <1>3 DEF RunRefreshes, Unnoted
  <2>2. pc[t] = "copy" => got[t].source = live
    BY <2>1 DEF KeptInv, ReadInStep
  <2>3. /\ live' = live + 1 /\ source' = source /\ shared' = shared /\ pc' = pc /\ got' = got
        /\ private'[t] = live'
    BY <1>3 DEF RunRefreshes, WipeInv, LoginTyped
  <2> QED
    BY <2>1, <2>2, <2>3 DEF InHand, WipeInv, LoginTyped, Watched, Watching, Copying
<1>4. ASSUME NEW t \in Homes, Begin(t) \/ Watch(t) \/ RunEnds(t) \/ Crash(t) \/ RunRefreshFails(t)
      PROVE  source' = live'
  BY <1>4 DEF Begin, Watch, Decide, StartCopy, StartCopyFails, Poll, Copy, CopyFails, Stamp, FinalRead,
     RunEnds, Crash, RunRefreshFails, WipeInv, AheadInv, Copying
<1> QED
  BY <1>1, <1>2, <1>3, <1>4 DEF LoginNext

LEMMA KeptInductive == LoginSpec => []KeptInv
<1>1. LoginInit => KeptInv
  BY DEF LoginInit, KeptInv, ReadInStep
<1>2. ASSUME WipeInv, KeptInv, [LoginNext]_loginVars PROVE KeptInv'
  <2>1. stranded => stranded'
    BY <1>2 DEF LoginNext, loginVars, trouble, UserRefreshes, UserRefreshFails, Begin, Watch, Decide, StartCopy,
       StartCopyFails, Poll, Copy, CopyFails, Stamp, FinalRead, RunEnds, Crash, RunRefreshes, RunRefreshFails
  <2>2. stranded' \/ source' = live' \/ \E t \in Homes : InHand(t)'
    BY <1>2, <2>1, HandKept, UserKept DEF KeptInv
  <2> QED
    BY <1>2, <2>2, ReadKept DEF KeptInv
<1> QED
  BY <1>1, <1>2, LoginInductive, PTL DEF LoginSpec

\* Some file holds the token the server accepts, however runs refresh, fail, end, are killed
\* and are synchronised side by side, and whatever copies fail, unless a run was over with a
\* refresh of its own, or made one of a token AOP had not noted.
THEOREM SignInIsKept == LoginSpec => []SomeoneIsSignedIn
<1>1. KeptInv => SomeoneIsSignedIn
  BY DEF KeptInv, InHand, SomeoneIsSignedIn
<1> QED
  BY <1>1, KeptInductive, PTL

\* Once the runs are over that file is the user's, unless the user's own session emptied it.
THEOREM UserStaysSignedIn == LoginSpec => []UserIsSignedIn
<1>1. KeptInv => UserIsSignedIn
  BY DEF KeptInv, InHand, Watched, Watching, At, UserIsSignedIn
<1> QED
  BY <1>1, KeptInductive, PTL

-----------------------------------------------------------------------------
(* HermesCredentials: the single-use tokens of Hermes and their copies,    *)
(* whatever directories, kills, cleanups and sign-ins there are.           *)

LEMMA Setting == /\ Dir \in [Tasks -> Dirs] /\ MaxTime \in Nat /\ Free \notin Tasks /\ User \notin Dirs
                 /\ \A t \in Tasks : Dir[t] \in Dirs
BY HermesCredentialsAssumption DEF Free, User

\* Of any of its times there is a latest one.
LEMMA TheLatest ==
  ASSUME NEW T, T \subseteq Times, T # {} PROVE \E x \in T : \A y \in T : y <= x
<1> DEFINE R == OpToRel(<, Nat)
           D == {MaxTime - x : x \in T}
<1>1. \A x \in T : x \in Nat /\ MaxTime - x \in Nat
  BY Setting DEF Times
<1>2. D \subseteq Nat /\ D # {}
  BY <1>1
<1>3. PICK d \in D : \A y \in D : ~ (<<y, d>> \in R)
  <2> HIDE DEF D, R
  <2> QED
    BY <1>2, NatLessThanWellFounded, WFMin DEF R
<1>4. \A y \in D : ~ (y < d)
  BY <1>2, <1>3 DEF OpToRel
<1>5. PICK x \in T : d = MaxTime - x
  OBVIOUS
<1>6. ASSUME NEW y \in T PROVE y <= x
  <2>1. MaxTime - y \in D
    OBVIOUS
  <2>2. ~ (MaxTime - y < d)
    BY <1>4, <2>1
  <2> QED
    BY <1>1, <1>5, <1>6, <2>2, Setting
<1> QED
  BY <1>6

\* What a merge of stores has of each provider is the latest token in any of them.
LEMMA Merged ==
  ASSUME NEW S, S \subseteq Stores, S # {}, NEW m, m = Merge(S)
  PROVE /\ m \in Stores /\ m.has
        /\ \A p \in Providers : \E s \in S : m.token[p] = s.token[p] /\ \A o \in S : o.token[p] <= s.token[p]
<1>1. ASSUME NEW p \in Providers
      PROVE \E s \in S : \A o \in S : AtLeast(Freshness(s, p), Freshness(o, p))
  <2>1. \A s \in S : s.token[p] \in Times /\ s.updated \in Times
    BY DEF Stores
  <2>2. PICK top \in S : \A o \in S : o.token[p] <= top.token[p]
    <3> DEFINE T == {s.token[p] : s \in S}
    <3>1. T \subseteq Times /\ T # {}
      BY <2>1
    <3>2. PICK x \in T : \A y \in T : y <= x
      <4> HIDE DEF T
      <4> QED BY <3>1, TheLatest
    <3>3. \A o \in S : o.token[p] \in T
      OBVIOUS
    <3> QED
      BY <3>2, <3>3
  <2>3. PICK s \in S : /\ s.token[p] = top.token[p]
                       /\ \A o \in S : o.token[p] = top.token[p] => o.updated <= s.updated
    <3> DEFINE Ties == {s \in S : s.token[p] = top.token[p]}
               T == {s.updated : s \in Ties}
    <3>1. T \subseteq Times /\ T # {}
      BY <2>1
    <3>2. PICK x \in T : \A y \in T : y <= x
      <4> HIDE DEF T
      <4> QED BY <3>1, TheLatest
    <3>3. PICK s \in Ties : s.updated = x
      OBVIOUS
    <3>4. \A o \in S : o.token[p] = top.token[p] => o.updated \in T
      OBVIOUS
    <3> QED
      BY <3>2, <3>3, <3>4
  <2>4. \A o \in S : o.token[p] < s.token[p] \/ (o.token[p] = s.token[p] /\ o.updated <= s.updated)
    BY <2>1, <2>2, <2>3 DEF Times
  <2>5. \A o \in S : AtLeast(Freshness(s, p), Freshness(o, p))
    BY <2>1, <2>4 DEF AtLeast, Freshness, Times
  <2> QED
    BY <2>5
<1> DEFINE Best(p) == CHOOSE s \in S : \A o \in S : AtLeast(Freshness(s, p), Freshness(o, p))
           Newest == CHOOSE s \in S : \A o \in S : s.updated >= o.updated
<1>2. \A p \in Providers :
        Best(p) \in S /\ \A o \in S : AtLeast(Freshness(Best(p), p), Freshness(o, p))
  BY <1>1
<1>3. Newest \in S
  <2> DEFINE T == {s.updated : s \in S}
  <2>1. T \subseteq Times /\ T # {}
    BY DEF Stores
  <2>2. PICK x \in T : \A y \in T : y <= x
    <3> HIDE DEF T
    <3> QED BY <2>1, TheLatest
  <2>3. PICK s \in S : s.updated = x
    OBVIOUS
  <2>4. \A o \in S : o.updated \in T
    OBVIOUS
  <2>5. \A o \in S : s.updated >= o.updated
    BY <2>1, <2>2, <2>3, <2>4 DEF Times
  <2> QED
    BY <2>5
<1>4. m = [has |-> TRUE, token |-> [p \in Providers |-> Best(p).token[p]], updated |-> Newest.updated]
  BY DEF Merge
<1> HIDE DEF Best, Newest
<1>5. m \in Stores /\ m.has /\ \A p \in Providers : m.token[p] = Best(p).token[p]
  BY <1>2, <1>3, <1>4 DEF Stores
<1>6. ASSUME NEW p \in Providers PROVE \A o \in S : o.token[p] <= Best(p).token[p]
  <2>1. \A o \in S : o.token[p] \in Nat
    BY DEF Stores, Times
  <2> QED
    BY <1>2, <2>1 DEF AtLeast, Freshness
<1> QED
  BY <1>2, <1>5, <1>6

\* No store has a token later than the one its provider accepts.
AgeInv ==
  /\ \A p \in Providers : accepted[p] <= time
  /\ \A p \in Providers : user.token[p] <= accepted[p]
  /\ \A d \in Dirs, p \in Providers : common[d].token[p] <= accepted[p]
  /\ \A t \in Tasks, p \in Providers : home[t].token[p] <= accepted[p]
  /\ \A d \in Dirs : gathered[d] <= time

HoldsLock == \A t \in InTurn : lock[Dir[t]] = t

AnyInv == HermesTypeOK /\ user.has /\ AgeInv /\ HoldsLock

\* A refresh by whoever holds a store, of a token that is good or of one that is not.
LEMMA Rewritten ==
  ASSUME HermesTypeOK, AgeInv, NEW s \in Stores, NEW p \in Providers,
         NEW who \in Dirs \cup {User}, Use(who, s, p),
         \A q \in Providers : s.token[q] <= accepted[q]
  PROVE  /\ time' \in Times /\ time <= time' /\ accepted' \in [Providers -> Times]
         /\ \A q \in Providers : accepted[q] <= accepted'[q] /\ accepted'[q] <= time'
         /\ Refreshed(s, p) \in Stores /\ (s.has => Refreshed(s, p).has)
         /\ \A q \in Providers : Refreshed(s, p).token[q] <= accepted'[q]
         /\ by' \in [Providers -> Dirs \cup {User}] /\ lost' \in SUBSET Providers
<1>0. by' \in [Providers -> Dirs \cup {User}] /\ lost' \in SUBSET Providers
  BY DEF Use, HermesTypeOK
<1>1. /\ time' = time + 1 /\ time \in Nat /\ time + 1 \in Times
  BY Setting DEF Use, HermesTypeOK, Times
<1>2. /\ s \in [has : BOOLEAN, token : [Providers -> Times], updated : Times]
      /\ accepted \in [Providers -> Times] /\ s.token \in [Providers -> Times]
      /\ \A q \in Providers : s.token[q] \in Nat /\ accepted[q] \in Nat /\ accepted[q] <= time
  BY DEF HermesTypeOK, AgeInv, Stores, Times
<1>3. CASE s.token[p] = accepted[p]
  <2>1. accepted' = [accepted EXCEPT ![p] = time + 1]
    BY <1>3 DEF Use
  <2>2. Refreshed(s, p) = [s EXCEPT !.token[p] = time + 1, !.updated = time + 1]
    BY <1>3 DEF Refreshed
  <2>3. /\ Refreshed(s, p) \in Stores /\ (s.has => Refreshed(s, p).has)
        /\ Refreshed(s, p).token = [s.token EXCEPT ![p] = time + 1]
    <3> DEFINE held == [s.token EXCEPT ![p] = time + 1]
    <3>1. held \in [Providers -> Times]
      BY <1>1, <1>2
    <3>2. Refreshed(s, p) = [s EXCEPT !.token = held, !.updated = time + 1]
      BY <2>2
    <3> HIDE DEF held
    <3>3. /\ Refreshed(s, p).token = held /\ Refreshed(s, p).has = s.has
          /\ Refreshed(s, p) \in [has : BOOLEAN, token : [Providers -> Times], updated : Times]
      BY <1>1, <1>2, <3>1, <3>2
    <3> QED
      BY <3>3 DEF Stores, held
  <2> QED
    BY <1>0, <1>1, <1>2, <2>1, <2>3 DEF Times
<1>4. CASE s.token[p] # accepted[p]
  <2>1. accepted' = accepted
    BY <1>2, <1>4 DEF Use
  <2>2. Refreshed(s, p) = [s EXCEPT !.token[p] = s.token[p], !.updated = time + 1]
    BY <1>4 DEF Refreshed
  <2>3. /\ Refreshed(s, p) \in Stores /\ (s.has => Refreshed(s, p).has)
        /\ Refreshed(s, p).token = s.token
    BY <1>1, <1>2, <2>2 DEF Stores
  <2> QED
    BY <1>0, <1>1, <1>2, <2>1, <2>3
<1> QED
  BY <1>3, <1>4

LEMMA AnyStarts == ASSUME HermesInit PROVE AnyInv
<1>1. NoStore \in Stores /\ SignedIn \in Stores /\ SignedIn.has
      /\ \A p \in Providers : NoStore.token[p] = 0 /\ SignedIn.token[p] = 0
  <2> DEFINE zero == [p \in Providers |-> 0]
  <2>1. zero \in [Providers -> Times] /\ (\A p \in Providers : zero[p] = 0) /\ 0 \in Times
    BY Setting DEF Times
  <2>2. NoStore = [has |-> FALSE, token |-> zero, updated |-> 0]
    BY DEF NoStore
  <2> HIDE DEF zero
  <2>3. SignedIn.has /\ SignedIn.token = zero
        /\ SignedIn \in [has : {TRUE}, token : {zero}, updated : {0}]
    BY <2>2 DEF SignedIn
  <2> QED
    BY <2>1, <2>2, <2>3 DEF Stores
<1>2. HermesTypeOK
  BY <1>1, Setting DEF HermesInit, HermesTypeOK, Times, Places
<1> QED
  BY <1>1, <1>2 DEF AnyInv, HermesInit, AgeInv, HoldsLock, InTurn

\* The steps of a turn that change where it is, and no token.
LEMMA AnyTurn ==
  ASSUME AnyInv, NEW t \in Tasks, BeginTurn(t) \/ Lock(t) \/ Hand(t) \/ End(t) \/ PutBack(t) \/ KillTurn(t)
  PROVE  AnyInv'
<1> USE DEF Goes
<1>1. Dir[t] \in Dirs /\ t \in Tasks \cup {Free} /\ \A u \in Tasks : Dir[u] \in Dirs /\ u # Free
  BY Setting
<1>2. HermesTypeOK' /\ user'.has
  BY <1>1 DEF AnyInv, HermesTypeOK, Places, BeginTurn, Lock, Hand, End, PutBack, KillTurn, OnlyIn, whereabouts
<1>3. AgeInv'
  BY <1>1 DEF AnyInv, HermesTypeOK, AgeInv, BeginTurn, Lock, Hand, End, PutBack, KillTurn, whereabouts
<1>4. HoldsLock'
  <2>1. CASE BeginTurn(t)
    BY <2>1 DEF BeginTurn, AnyInv, HermesTypeOK, HoldsLock, InTurn
  <2>2. CASE Lock(t)
    BY <1>1, <2>2 DEF Lock, AnyInv, HermesTypeOK, HoldsLock, InTurn
  <2>3. CASE Hand(t)
    BY <2>3 DEF Hand, AnyInv, HermesTypeOK, HoldsLock, InTurn
  <2>4. CASE End(t)
    BY <2>4 DEF End, AnyInv, HermesTypeOK, HoldsLock, InTurn
  <2>5. CASE PutBack(t)
    BY <1>1, <2>5 DEF PutBack, AnyInv, HermesTypeOK, HoldsLock, InTurn
  <2>6. CASE KillTurn(t)
    BY <1>1, <2>6 DEF KillTurn, AnyInv, HermesTypeOK, HoldsLock, InTurn
  <2> QED
    BY <2>1, <2>2, <2>3, <2>4, <2>5, <2>6
<1> QED
  BY <1>2, <1>3, <1>4 DEF AnyInv

LEMMA AnyGather == ASSUME AnyInv, NEW t \in Tasks, Gather(t) PROVE AnyInv'
<1> USE DEF Goes
<1>1. PICK m : m = Merge(Candidates(Dir[t]))
  OBVIOUS
<1>2. Candidates(Dir[t]) \subseteq Stores /\ Candidates(Dir[t]) # {}
      /\ \A s \in Candidates(Dir[t]), p \in Providers : s.token[p] <= accepted[p]
  BY Setting DEF AnyInv, HermesTypeOK, AgeInv, Candidates
<1>3. m \in Stores /\ \A p \in Providers : m.token[p] <= accepted[p]
  BY <1>1, <1>2, Merged
<1>4. common' = [common EXCEPT ![Dir[t]] = m] /\ at' = [at EXCEPT ![t] = "shared"] /\ at[t] = "locked"
      /\ gathered' = [gathered EXCEPT ![Dir[t]] = time]
      /\ UNCHANGED <<time, accepted, user, home, lock, by, lost>>
  BY <1>1 DEF Gather
<1>5. HermesTypeOK' /\ user'.has
  BY <1>3, <1>4, Setting DEF AnyInv, HermesTypeOK, Places
<1>6. AgeInv'
  BY <1>3, <1>4, Setting DEF AnyInv, HermesTypeOK, AgeInv, Times
<1>7. HoldsLock'
  BY <1>4, Setting DEF AnyInv, HermesTypeOK, HoldsLock, InTurn
<1> QED
  BY <1>5, <1>6, <1>7 DEF AnyInv

LEMMA AnyRefresh == ASSUME AnyInv, NEW t \in Tasks, NEW p \in Providers, Refresh(t, p) PROVE AnyInv'
<1> DEFINE h == Refreshed(home[t], p)
<1>1. home[t] \in Stores /\ \A q \in Providers : home[t].token[q] <= accepted[q]
  BY DEF AnyInv, HermesTypeOK, AgeInv
<1>2. /\ time' \in Times /\ time <= time' /\ accepted' \in [Providers -> Times] /\ h \in Stores
      /\ by' \in [Providers -> Dirs \cup {User}] /\ lost' \in SUBSET Providers
      /\ \A q \in Providers : /\ accepted[q] <= accepted'[q] /\ accepted'[q] <= time'
                              /\ h.token[q] <= accepted'[q]
  BY <1>1, Rewritten, Setting DEF AnyInv, Refresh
<1>3. home' = [home EXCEPT ![t] = h] /\ UNCHANGED <<user, common, at, lock, gathered>>
  BY DEF Refresh
<1> HIDE DEF h
<1>4. HermesTypeOK' /\ user'.has /\ HoldsLock'
  BY <1>2, <1>3 DEF AnyInv, HermesTypeOK, HoldsLock, InTurn
<1>5. AgeInv'
  BY <1>2, <1>3 DEF AnyInv, HermesTypeOK, AgeInv, Stores, Times
<1> QED
  BY <1>4, <1>5 DEF AnyInv

LEMMA AnyUser == ASSUME AnyInv, NEW p \in Providers, UserRefresh(p) \/ SignIn(p) PROVE AnyInv'
<1>1. /\ time' \in Times /\ time <= time' /\ accepted' \in [Providers -> Times] /\ user' \in Stores /\ user'.has
      /\ by' \in [Providers -> Dirs \cup {User}] /\ lost' \in SUBSET Providers
      /\ \A q \in Providers : /\ accepted[q] <= accepted'[q] /\ accepted'[q] <= time'
                              /\ user'.token[q] <= accepted'[q]
  <2>1. user \in Stores /\ user.has /\ \A q \in Providers : user.token[q] <= accepted[q]
    BY DEF AnyInv, HermesTypeOK, AgeInv
  <2>2. CASE UserRefresh(p)
    BY <2>1, <2>2, Rewritten DEF AnyInv, UserRefresh
  <2>3. CASE SignIn(p)
    <3>1. time' = time + 1 /\ time \in Nat /\ time + 1 \in Times
      BY <2>3, Setting DEF SignIn, AnyInv, HermesTypeOK, Times
    <3>2. /\ user \in [has : BOOLEAN, token : [Providers -> Times], updated : Times]
          /\ accepted \in [Providers -> Times] /\ user.token \in [Providers -> Times]
          /\ \A q \in Providers : user.token[q] \in Nat /\ accepted[q] \in Nat /\ accepted[q] <= time
      BY <2>1 DEF AnyInv, HermesTypeOK, AgeInv, Stores, Times
    <3>3. /\ accepted' = [accepted EXCEPT ![p] = time + 1]
          /\ user' = [user EXCEPT !.token[p] = time + 1, !.updated = time + 1]
      BY <2>3 DEF SignIn
    <3>4. user' \in Stores /\ user'.has /\ user'.token = [user.token EXCEPT ![p] = time + 1]
      BY <2>1, <3>1, <3>2, <3>3 DEF Stores
    <3>5. by' \in [Providers -> Dirs \cup {User}] /\ lost' \in SUBSET Providers
      BY <2>3 DEF SignIn, AnyInv, HermesTypeOK
    <3>6. time <= time'
      BY <3>1
    <3>7. \A q \in Providers : /\ accepted[q] <= accepted'[q] /\ accepted'[q] <= time'
                                /\ user'.token[q] <= accepted'[q]
      BY <2>1, <3>1, <3>2, <3>3, <3>4
    <3>8. accepted' \in [Providers -> Times]
      BY <3>1, <3>2, <3>3
    <3> QED
      BY <3>1, <3>4, <3>5, <3>6, <3>7, <3>8
  <2> QED
    BY <2>2, <2>3
<1>2. UNCHANGED <<common, home, at, lock, gathered>>
  BY DEF UserRefresh, SignIn
<1>3. HermesTypeOK' /\ HoldsLock'
  BY <1>1, <1>2 DEF AnyInv, HermesTypeOK, HoldsLock, InTurn
<1>4. AgeInv'
  BY <1>1, <1>2 DEF AnyInv, HermesTypeOK, AgeInv, Stores, Times
<1> QED
  BY <1>1, <1>3, <1>4 DEF AnyInv

LEMMA AnyCleanup == ASSUME AnyInv, NEW t \in Tasks, Cleanup(t) PROVE AnyInv'
<1>1. NoStore \in Stores /\ \A p \in Providers : NoStore.token[p] = 0
  BY Setting DEF NoStore, Stores, Times
<1>2. \A p \in Providers : accepted[p] \in Nat
  BY DEF AnyInv, HermesTypeOK, Times
<1> QED
  BY <1>1, <1>2 DEF Cleanup, OnlyIn, AnyInv, HermesTypeOK, AgeInv, HoldsLock, InTurn

LEMMA AnyInductive == HermesSpec => []AnyInv
<1>1. AnyInv /\ [HermesNext]_hermesVars => AnyInv'
  <2> SUFFICES ASSUME AnyInv, [HermesNext]_hermesVars PROVE AnyInv'
    OBVIOUS
  <2>1. CASE UNCHANGED hermesVars
    BY <2>1 DEF AnyInv, HermesTypeOK, AgeInv, HoldsLock, InTurn, hermesVars
  <2>2. ASSUME NEW t \in Tasks, TurnStep(t) \/ KillTurn(t) \/ Cleanup(t) PROVE AnyInv'
    BY <2>2, AnyTurn, AnyGather, AnyRefresh, AnyCleanup DEF TurnStep
  <2>3. ASSUME NEW p \in Providers, UserRefresh(p) \/ SignIn(p) PROVE AnyInv'
    BY <2>3, AnyUser
  <2> QED
    BY <2>1, <2>2, <2>3 DEF HermesNext
<1> QED
  BY <1>1, AnyStarts, PTL DEF HermesSpec

\* Every reachable state of HermesCredentials is well typed.
THEOREM HermesTypeCorrect == HermesSpec => []HermesTypeOK
<1>1. AnyInv => HermesTypeOK
  BY DEF AnyInv
<1> QED
  BY <1>1, AnyInductive, PTL

\* At most one turn of Hermes is under way in each state directory, between gathering and
\* putting back (runner.py:6840-6899), wherever turns are killed.
OneTurnEach == \A t, u \in InTurn : Dir[t] = Dir[u] => t = u
THEOREM TurnsExclude == HermesSpec => []OneTurnEach
<1>1. AnyInv => OneTurnEach
  BY DEF AnyInv, HoldsLock, OneTurnEach
<1> QED
  BY <1>1, AnyInductive, PTL

\* No store ever has a token that is later than the accepted one, so that the latest the
\* merge finds of a provider is the accepted one if any of them is.
THEOREM LatestIsAccepted == HermesSpec => []AgeInv
<1>1. AnyInv => AgeInv
  BY DEF AnyInv
<1> QED
  BY <1>1, AnyInductive, PTL

-----------------------------------------------------------------------------
(* Where the accepted tokens are.                                          *)

\* A store that a turn in d is handed, or leaves, has the tokens that are such a turn's to
\* have, but for those the user obtained after the turn gathered its own.
Serves(s, d) ==
  s.has /\ \A p \in Providers :
    Within(d, p) /\ (by[p] = User => accepted[p] <= gathered[d]) => s.token[p] = accepted[p]

HandedInv ==
  \A t \in Tasks :
    /\ at[t] = "shared" => Serves(common[Dir[t]], Dir[t])
    /\ at[t] \in {"running", "stopped"} => Serves(home[t], Dir[t])

\* What the user obtained the user's store has.
UsersInv == \A p \in Providers : by[p] = User => user.token[p] = accepted[p]

\* The accepted token is in a store that a turn in d finds, or puts back.
InReach(t) == home[t].has /\ (t \in Unseen => at[t] \in {"running", "stopped"})
Reached(d, p) ==
  \/ user.token[p] = accepted[p]
  \/ common[d].has /\ common[d].token[p] = accepted[p]
  \/ \E t \in Tasks : Dir[t] = d /\ InReach(t) /\ home[t].token[p] = accepted[p]
FoundInv == \A d \in Dirs, p \in Providers : Within(d, p) => Reached(d, p)

AuthInv == HandedInv /\ UsersInv /\ FoundInv

LEMMA AuthStarts == ASSUME HermesInit PROVE AuthInv
BY Setting DEF HermesInit, AuthInv, HandedInv, UsersInv, FoundInv, Reached, SignedIn, NoStore

\* Steps that change no token.
LEMMA StillKeeps ==
  ASSUME AnyInv, AuthInv, NEW t \in Tasks, BeginTurn(t) \/ Lock(t) \/ End(t) PROVE AuthInv'
<1> USE DEF Goes, whereabouts
<1>1. UNCHANGED <<time, accepted, user, common, by, gathered, lost>>
  BY DEF BeginTurn, Lock, End
<1>2. \A u \in Tasks : /\ at'[u] = "shared" => at[u] = "shared"
                       /\ at'[u] \in {"running", "stopped"} <=> at[u] \in {"running", "stopped"}
  BY DEF BeginTurn, Lock, End, AnyInv, HermesTypeOK
<1>3. \A u \in Tasks : home[u].has => home'[u] = home[u]
  BY DEF BeginTurn, Lock, End, AnyInv, HermesTypeOK
<1>4. HandedInv'
  BY <1>1, <1>2, <1>3 DEF AuthInv, HandedInv, Serves, Within
<1>5. UsersInv'
  BY <1>1 DEF AuthInv, UsersInv
<1>6. ASSUME NEW d \in Dirs, NEW p \in Providers, Within(d, p)' PROVE Reached(d, p)'
  BY <1>1, <1>2, <1>3, <1>6 DEF AuthInv, FoundInv, Reached, InReach, Within
<1> QED
  BY <1>4, <1>5, <1>6 DEF AuthInv, FoundInv

LEMMA GatherKeeps == ASSUME AnyInv, AuthInv, NEW t \in Tasks, Gather(t) PROVE AuthInv'
<1> USE DEF Goes
<1> DEFINE d == Dir[t]
<1>1. PICK m : m = Merge(Candidates(d))
  OBVIOUS
<1>2. Candidates(d) \subseteq Stores /\ Candidates(d) # {}
      /\ \A s \in Candidates(d), p \in Providers : s.token[p] <= accepted[p]
  BY Setting DEF AnyInv, HermesTypeOK, AgeInv, Candidates
<1>3. /\ m.has
      /\ \A p \in Providers : \E s \in Candidates(d) :
           m.token[p] = s.token[p] /\ \A o \in Candidates(d) : o.token[p] <= s.token[p]
  BY <1>1, <1>2, Merged
<1>4. \A u \in Tasks : Dir[u] = d /\ u # t => u \notin InTurn
  BY DEF Gather, AnyInv, HoldsLock, InTurn
<1>5. ASSUME NEW p \in Providers, Within(d, p) PROVE m.token[p] = accepted[p]
  <2>1. Reached(d, p)
    BY <1>5, Setting DEF AuthInv, FoundInv
  <2>2. \E o \in Candidates(d) : o.token[p] = accepted[p]
    <3>1. CASE user.token[p] = accepted[p]
      BY <3>1 DEF Candidates, AnyInv
    <3>2. CASE common[d].has /\ common[d].token[p] = accepted[p]
      BY <3>2 DEF Candidates
    <3>3. ASSUME NEW u \in Tasks, Dir[u] = d, InReach(u), home[u].token[p] = accepted[p]
          PROVE  \E o \in Candidates(d) : o.token[p] = accepted[p]
      <4>1. u \notin Unseen /\ home[u].has
        BY <1>4, <3>3 DEF InReach, InTurn, Gather
      <4> QED
        BY <3>3, <4>1 DEF Candidates
    <3> QED
      BY <2>1, <3>1, <3>2, <3>3 DEF Reached
  <2>3. PICK o \in Candidates(d) : o.token[p] = accepted[p]
    BY <2>2
  <2>4. PICK s \in Candidates(d) : m.token[p] = s.token[p] /\ \A c \in Candidates(d) : c.token[p] <= s.token[p]
    BY <1>3
  <2>5. s.token[p] \in Nat /\ accepted[p] \in Nat
    BY <1>2 DEF Stores, Times, AnyInv, HermesTypeOK
  <2> QED
    BY <1>2, <2>3, <2>4, <2>5
<1>6. /\ common' = [common EXCEPT ![d] = m] /\ at' = [at EXCEPT ![t] = "shared"] /\ at[t] = "locked"
      /\ gathered' = [gathered EXCEPT ![d] = time]
      /\ UNCHANGED <<time, accepted, user, home, lock, by, lost>>
  BY <1>1 DEF Gather
<1>7. /\ d \in Dirs /\ common'[d] = m /\ at'[t] = "shared"
      /\ \A e \in Dirs : e # d => common'[e] = common[e] /\ gathered'[e] = gathered[e]
      /\ \A u \in Tasks : u # t => at'[u] = at[u]
  BY <1>6, Setting DEF AnyInv, HermesTypeOK
<1> HIDE DEF d
<1>8. \A e \in Dirs, p \in Providers : Within(e, p)' = Within(e, p)
  BY <1>6 DEF Within
<1>9. HandedInv'
  <2> SUFFICES ASSUME NEW u \in Tasks
               PROVE  /\ at'[u] = "shared" => Serves(common[Dir[u]], Dir[u])'
                      /\ at'[u] \in {"running", "stopped"} => Serves(home[u], Dir[u])'
    BY DEF HandedInv
  <2>1. CASE u = t
    BY <1>3, <1>5, <1>6, <1>7, <1>8, <2>1 DEF Serves, d
  <2>2. CASE u # t /\ Dir[u] = d
    BY <1>4, <1>7, <2>2 DEF InTurn
  <2>3. CASE u # t /\ Dir[u] # d
    BY <1>6, <1>7, <1>8, <2>3, Setting DEF AuthInv, HandedInv, Serves
  <2> QED
    BY <2>1, <2>2, <2>3
<1>10. UsersInv'
  BY <1>6 DEF AuthInv, UsersInv
<1>11. ASSUME NEW e \in Dirs, NEW p \in Providers, Within(e, p)' PROVE Reached(e, p)'
  <2>1. Within(e, p)
    BY <1>8, <1>11
  <2>2. CASE e = d
    BY <1>3, <1>5, <1>6, <1>7, <2>1, <2>2 DEF Reached
  <2>3. CASE e # d
    <3>1. \A u \in Tasks : Dir[u] = e => u # t
      BY <2>3 DEF d
    <3> QED
      BY <1>6, <1>7, <2>1, <2>3, <3>1 DEF AuthInv, FoundInv, Reached, InReach
  <2> QED
    BY <2>2, <2>3
<1> QED
  BY <1>9, <1>10, <1>11 DEF AuthInv, FoundInv

\* A turn takes the common store, and leaves its own there.
LEMMA HandKeeps == ASSUME AnyInv, AuthInv, NEW t \in Tasks, Hand(t) PROVE AuthInv'
<1> USE DEF Goes, whereabouts
<1>1. /\ at[t] = "shared" /\ at'[t] = "running" /\ home'[t] = common[Dir[t]]
      /\ UNCHANGED <<time, accepted, user, common, by, gathered, lost>>
      /\ \A u \in Tasks : u # t => at'[u] = at[u] /\ home'[u] = home[u]
  BY DEF Hand, AnyInv, HermesTypeOK
<1>2. Serves(common[Dir[t]], Dir[t])
  BY <1>1 DEF AuthInv, HandedInv
<1>3. HandedInv'
  <2> SUFFICES ASSUME NEW u \in Tasks
               PROVE  /\ at'[u] = "shared" => Serves(common[Dir[u]], Dir[u])'
                      /\ at'[u] \in {"running", "stopped"} => Serves(home[u], Dir[u])'
    BY DEF HandedInv
  <2>1. CASE u = t
    BY <1>1, <1>2, <2>1 DEF Serves, Within
  <2>2. CASE u # t
    BY <1>1, <2>2 DEF AuthInv, HandedInv, Serves, Within
  <2> QED
    BY <2>1, <2>2
<1>4. UsersInv'
  BY <1>1 DEF AuthInv, UsersInv
<1>5. ASSUME NEW d \in Dirs, NEW p \in Providers, Within(d, p)' PROVE Reached(d, p)'
  <2>1. Within(d, p) /\ Reached(d, p)
    BY <1>1, <1>5 DEF Within, AuthInv, FoundInv
  <2>2. CASE \E u \in Tasks : u # t /\ Dir[u] = d /\ InReach(u) /\ home[u].token[p] = accepted[p]
    BY <1>1, <2>2 DEF Reached, InReach
  <2>3. CASE d = Dir[t] /\ (by[p] = User => accepted[p] <= gathered[d])
    <3>1. common[d].has /\ common[d].token[p] = accepted[p]
      BY <1>2, <2>1, <2>3 DEF Serves
    <3> QED
      BY <1>1, <3>1 DEF Reached
  <2>4. CASE by[p] = User
    BY <1>1, <2>4 DEF AuthInv, UsersInv, Reached
  <2> QED
    BY <1>1, <2>1, <2>2, <2>3, <2>4 DEF Reached
<1> QED
  BY <1>3, <1>4, <1>5 DEF AuthInv, FoundInv

LEMMA PutBackKeeps == ASSUME AnyInv, AuthInv, NEW t \in Tasks, PutBack(t) PROVE AuthInv'
<1> USE DEF Goes, whereabouts
<1>1. /\ at[t] = "stopped" /\ at'[t] = "idle" /\ common'[Dir[t]] = home[t]
      /\ UNCHANGED <<time, accepted, user, home, by, gathered, lost>>
      /\ \A u \in Tasks : u # t => at'[u] = at[u]
      /\ \A d \in Dirs : d # Dir[t] => common'[d] = common[d]
  BY Setting DEF PutBack, AnyInv, HermesTypeOK
<1>2. Serves(home[t], Dir[t])
  BY <1>1 DEF AuthInv, HandedInv
<1>3. \A u \in Tasks : Dir[u] = Dir[t] /\ u # t => at[u] # "shared"
  BY <1>1 DEF AnyInv, HoldsLock, InTurn
<1>4. HandedInv'
  <2> SUFFICES ASSUME NEW u \in Tasks
               PROVE  /\ at'[u] = "shared" => Serves(common[Dir[u]], Dir[u])'
                      /\ at'[u] \in {"running", "stopped"} => Serves(home[u], Dir[u])'
    BY DEF HandedInv
  <2>1. CASE u = t
    BY <1>1, <2>1
  <2>2. CASE u # t
    BY <1>1, <1>3, <2>2, Setting DEF AuthInv, HandedInv, Serves, Within
  <2> QED
    BY <2>1, <2>2
<1>5. UsersInv'
  BY <1>1 DEF AuthInv, UsersInv
<1>6. ASSUME NEW d \in Dirs, NEW p \in Providers, Within(d, p)' PROVE Reached(d, p)'
  <2>1. Within(d, p) /\ Reached(d, p)
    BY <1>1, <1>6 DEF Within, AuthInv, FoundInv
  <2>2. CASE d # Dir[t]
    <3>1. \A u \in Tasks : Dir[u] = d => u # t
      BY <2>2
    <3> QED
      BY <1>1, <2>1, <2>2, <3>1 DEF Reached, InReach
  <2>3. CASE d = Dir[t] /\ (by[p] = User => accepted[p] <= gathered[d])
    <3>1. common'[d].has /\ common'[d].token[p] = accepted[p]
      BY <1>1, <1>2, <2>1, <2>3 DEF Serves
    <3> QED
      BY <1>1, <3>1 DEF Reached
  <2>4. CASE by[p] = User
    BY <1>1, <2>4 DEF AuthInv, UsersInv, Reached
  <2> QED
    BY <2>2, <2>3, <2>4
<1> QED
  BY <1>4, <1>5, <1>6 DEF AuthInv, FoundInv

\* What is not in a task's home alone is elsewhere.
LEMMA NotAlone ==
  ASSUME AnyInv, NEW t \in Tasks, NEW p \in Providers, p \notin OnlyIn(t), home[t].has,
         home[t].token[p] = accepted[p]
  PROVE  \/ user.token[p] = accepted[p]
         \/ common[Dir[t]].has /\ common[Dir[t]].token[p] = accepted[p]
         \/ \E u \in Tasks : u # t /\ Dir[u] = Dir[t] /\ InReach(u) /\ home[u].token[p] = accepted[p]
<1>1. PICK s \in Elsewhere(t) : s.token[p] = accepted[p]
  BY DEF OnlyIn
<1> QED
  BY <1>1 DEF Elsewhere, InReach

\* What a kill or a cleanup takes away.
LEMMA LoseKeeps == ASSUME AnyInv, AuthInv, NEW t \in Tasks, KillTurn(t) \/ Cleanup(t) PROVE AuthInv'
<1> USE DEF Goes
<1>1. /\ UNCHANGED <<time, accepted, user, common, by, gathered>> /\ at'[t] = "idle" /\ lost \subseteq lost'
      /\ \A u \in Tasks : u # t => at'[u] = at[u] /\ home'[u] = home[u]
  BY DEF KillTurn, Cleanup, AnyInv, HermesTypeOK
<1>2. \A d \in Dirs, p \in Providers : Within(d, p)' => Within(d, p)
  BY <1>1 DEF Within
<1>3. HandedInv'
  <2> SUFFICES ASSUME NEW u \in Tasks
               PROVE  /\ at'[u] = "shared" => Serves(common[Dir[u]], Dir[u])'
                      /\ at'[u] \in {"running", "stopped"} => Serves(home[u], Dir[u])'
    BY DEF HandedInv
  <2>1. CASE u = t
    BY <1>1, <2>1
  <2>2. CASE u # t
    BY <1>1, <1>2, <2>2, Setting DEF AuthInv, HandedInv, Serves
  <2> QED
    BY <2>1, <2>2
<1>4. UsersInv'
  BY <1>1 DEF AuthInv, UsersInv
<1>5. ASSUME NEW d \in Dirs, NEW p \in Providers, Within(d, p)' PROVE Reached(d, p)'
  <2>1. Within(d, p) /\ Reached(d, p)
    BY <1>2, <1>5 DEF AuthInv, FoundInv
  <2>2. CASE \E u \in Tasks : u # t /\ Dir[u] = d /\ InReach(u) /\ home[u].token[p] = accepted[p]
    BY <1>1, <2>2 DEF Reached, InReach
  <2>3. CASE Dir[t] = d /\ InReach(t) /\ home[t].token[p] = accepted[p]
    <3>1. p \notin lost'
      BY <1>5 DEF Within
    <3>2. CASE p \in OnlyIn(t)
      <4>1. KillTurn(t) /\ t \notin Unseen /\ home' = home
        BY <3>1, <3>2 DEF KillTurn, Cleanup
      <4> QED
        BY <1>1, <2>3, <4>1 DEF Reached, InReach
    <3>3. CASE p \notin OnlyIn(t)
      <4>1. \/ user.token[p] = accepted[p]
            \/ common[d].has /\ common[d].token[p] = accepted[p]
            \/ \E u \in Tasks : u # t /\ Dir[u] = d /\ InReach(u) /\ home[u].token[p] = accepted[p]
        BY <2>3, <3>3, NotAlone DEF InReach
      <4> QED
        BY <1>1, <2>2, <4>1 DEF Reached
    <3> QED
      BY <3>2, <3>3
  <2> QED
    BY <1>1, <2>1, <2>2, <2>3 DEF Reached
<1> QED
  BY <1>3, <1>4, <1>5 DEF AuthInv, FoundInv

\* A refresh by a turn or by the user, or a new sign-in, of a provider's token.
LEMMA ObtainKeeps ==
  ASSUME AnyInv, AnyInv', AuthInv, NEW p \in Providers, NEW who \in Dirs \cup {User},
         UNCHANGED <<common, at, gathered>>,
         \* another provider's token is as it was
         \A q \in Providers : q # p => /\ accepted'[q] = accepted[q] /\ by'[q] = by[q]
                                       /\ (q \in lost' <=> q \in lost) /\ user'.token[q] = user.token[q],
         \A t \in Tasks : /\ home'[t].has <=> home[t].has
                          /\ \A q \in Providers : q # p => home'[t].token[q] = home[t].token[q],
         \* and this one is later than any, or as it was, and with who obtained it
         \/ /\ accepted'[p] = accepted[p] /\ by'[p] = by[p] /\ (p \in lost' <=> p \in lost)
            /\ user'.token[p] = user.token[p] /\ \A t \in Tasks : home'[t].token[p] = home[t].token[p]
         \/ /\ accepted'[p] > time /\ by'[p] = who
            /\ who = User => user'.token[p] = accepted'[p]
            /\ who # User => \E t \in Tasks : /\ at[t] = "running" /\ Dir[t] = who
                                              /\ home'[t].token[p] = accepted'[p]
  PROVE  AuthInv'
<1> DEFINE Same == /\ accepted'[p] = accepted[p] /\ by'[p] = by[p] /\ (p \in lost' <=> p \in lost)
                   /\ user'.token[p] = user.token[p] /\ \A t \in Tasks : home'[t].token[p] = home[t].token[p]
           New == /\ accepted'[p] > time /\ by'[p] = who
                  /\ who = User => user'.token[p] = accepted'[p]
                  /\ who # User => \E t \in Tasks : /\ at[t] = "running" /\ Dir[t] = who
                                                    /\ home'[t].token[p] = accepted'[p]
<1>0. Same \/ New
  OBVIOUS
<1>1. ASSUME NEW d \in Dirs, NEW q \in Providers, q # p \/ Same
      PROVE  /\ Within(d, q)' <=> Within(d, q)
             /\ accepted'[q] = accepted[q] /\ by'[q] = by[q] /\ user'.token[q] = user.token[q]
             /\ \A t \in Tasks : home'[t].token[q] = home[t].token[q]
  BY <1>1 DEF Within
<1>2. accepted'[p] > time => \A d \in Dirs : ~(accepted'[p] <= gathered[d])
  <2> SUFFICES ASSUME accepted'[p] > time, NEW d \in Dirs PROVE ~(accepted'[p] <= gathered[d])
    OBVIOUS
  <2>1. gathered[d] \in Nat /\ time \in Nat /\ accepted'[p] \in Nat /\ gathered[d] <= time
    BY DEF AnyInv, HermesTypeOK, AgeInv, Times
  <2> QED
    BY <2>1
<1>3. \A t, u \in Tasks : at[t] = "running" /\ at[u] \in {"shared", "running", "stopped"} /\ Dir[t] = Dir[u] => t = u
  BY DEF AnyInv, HoldsLock, InTurn
<1>4. HandedInv'
  <2> SUFFICES ASSUME NEW u \in Tasks, at[u] \in {"shared", "running", "stopped"}, NEW s, NEW z,
                      s = (IF at[u] = "shared" THEN common[Dir[u]] ELSE home[u]),
                      z = (IF at[u] = "shared" THEN common[Dir[u]] ELSE home'[u]),
                      NEW q \in Providers, Within(Dir[u], q)',
                      by'[q] = User => accepted'[q] <= gathered[Dir[u]]
               PROVE  z.has /\ z.token[q] = accepted'[q]
    BY DEF AuthInv, HandedInv, Serves
  <2>1. Serves(s, Dir[u]) /\ (z.has <=> s.has) /\ Dir[u] \in Dirs
    BY Setting DEF AuthInv, HandedInv
  <2>2. CASE q # p \/ Same
    <3> HIDE DEF Same
    <3>1. accepted'[q] = accepted[q] /\ by'[q] = by[q] /\ Within(Dir[u], q) /\ z.token[q] = s.token[q]
      BY <1>1, <2>1, <2>2
    <3> QED
      BY <2>1, <3>1 DEF Serves
  <2>3. CASE q = p /\ New
    <3>1. who = Dir[u]
      BY <1>2, <2>1, <2>3 DEF Within
    <3>2. PICK t \in Tasks : at[t] = "running" /\ Dir[t] = who /\ home'[t].token[p] = accepted'[p]
      BY <2>1, <2>3, <3>1, Setting
    <3>3. t = u
      BY <1>3, <3>1, <3>2
    <3> QED
      BY <2>1, <2>3, <3>2, <3>3 DEF Serves
  <2> HIDE DEF Same, New
  <2> QED
    BY <1>0, <2>2, <2>3
<1>5. UsersInv'
  BY <1>1 DEF AuthInv, UsersInv
<1>6. ASSUME NEW d \in Dirs, NEW q \in Providers, Within(d, q)' PROVE Reached(d, q)'
  <2>1. CASE q # p \/ Same
    <3>1. Reached(d, q)
      BY <1>1, <1>6, <2>1 DEF AuthInv, FoundInv
    <3>2. accepted'[q] = accepted[q] /\ user'.token[q] = user.token[q]
          /\ \A t \in Tasks : home'[t].token[q] = home[t].token[q]
      BY <1>1, <2>1
    <3> QED
      BY <3>1, <3>2 DEF Reached, InReach
  <2>2. CASE q = p /\ New /\ who = User
    BY <2>2 DEF Reached
  <2>3. CASE q = p /\ New /\ who # User
    <3>1. PICK t \in Tasks : at[t] = "running" /\ Dir[t] = who /\ home'[t].token[p] = accepted'[p]
      BY <2>3
    <3>2. d = who /\ home'[t].has
      BY <1>6, <2>3, <3>1 DEF Within, AuthInv, HandedInv, Serves
    <3> QED
      BY <2>3, <3>1, <3>2 DEF Reached, InReach
  <2> HIDE DEF Same, New
  <2> QED
    BY <1>0, <2>1, <2>2, <2>3
<1> QED
  BY <1>4, <1>5, <1>6 DEF AuthInv, FoundInv

LEMMA UsedKeeps ==
  ASSUME AnyInv, AnyInv', AuthInv, NEW p \in Providers,
         (\E t \in Tasks : Refresh(t, p)) \/ UserRefresh(p) \/ SignIn(p)
  PROVE  AuthInv'
<1>1. /\ time \in Nat /\ time + 1 > time /\ accepted \in [Providers -> Times] /\ by \in [Providers -> Dirs \cup {User}]
      /\ user \in [has : BOOLEAN, token : [Providers -> Times], updated : Times]
      /\ home \in [Tasks -> [has : BOOLEAN, token : [Providers -> Times], updated : Times]]
  BY DEF AnyInv, HermesTypeOK, Stores, Times
<1>2. ASSUME NEW s \in [has : BOOLEAN, token : [Providers -> Times], updated : Times]
      PROVE  /\ Refreshed(s, p).has = s.has
             /\ \A q \in Providers : q # p => Refreshed(s, p).token[q] = s.token[q]
             /\ Refreshed(s, p).token[p] = IF s.token[p] = accepted[p] THEN time + 1 ELSE s.token[p]
  BY DEF Refreshed
<1>3. ASSUME NEW t \in Tasks, Refresh(t, p) PROVE AuthInv'
  <2>1. /\ home' = [home EXCEPT ![t] = Refreshed(home[t], p)] /\ at[t] = "running" /\ Use(Dir[t], home[t], p)
        /\ UNCHANGED <<user, common, at, gathered>> /\ Dir[t] \in Dirs /\ Dir[t] # User
    BY <1>3, Setting DEF Refresh
  <2>2. /\ \A u \in Tasks : /\ home'[u].has <=> home[u].has
                            /\ \A q \in Providers : q # p => home'[u].token[q] = home[u].token[q]
        /\ home'[t].token[p] = IF home[t].token[p] = accepted[p] THEN time + 1 ELSE home[t].token[p]
        /\ \A u \in Tasks : u # t => home'[u].token[p] = home[u].token[p]
    BY <1>1, <1>2, <2>1
  <2>3. \A q \in Providers : q # p => /\ accepted'[q] = accepted[q] /\ by'[q] = by[q]
                                      /\ (q \in lost' <=> q \in lost)
    BY <1>1, <2>1 DEF Use
  <2>4. CASE home[t].token[p] = accepted[p]
    <3>1. accepted'[p] = time + 1 /\ by'[p] = Dir[t]
      BY <1>1, <2>1, <2>4 DEF Use
    <3>2. accepted'[p] > time /\ home'[t].token[p] = accepted'[p]
      BY <1>1, <2>2, <2>4, <3>1
    <3> QED
      BY <2>1, <2>2, <2>3, <3>1, <3>2, ObtainKeeps, SMTT(30)
  <2>5. CASE home[t].token[p] # accepted[p]
    <3>1. UNCHANGED <<accepted, by, lost>> /\ \A u \in Tasks : home'[u].token[p] = home[u].token[p]
      BY <2>1, <2>2, <2>5 DEF Use
    <3> QED
      BY <2>1, <2>2, <2>3, <3>1, ObtainKeeps
  <2> QED
    BY <2>4, <2>5
<1>4. ASSUME UserRefresh(p) \/ SignIn(p) PROVE AuthInv'
  <2>1. UNCHANGED <<common, home, at, gathered>>
    BY <1>4 DEF UserRefresh, SignIn
  <2>2. \A q \in Providers : q # p => /\ accepted'[q] = accepted[q] /\ by'[q] = by[q]
                                      /\ (q \in lost' <=> q \in lost) /\ user'.token[q] = user.token[q]
    <3>1. CASE UserRefresh(p)
      BY <1>1, <1>2, <3>1 DEF UserRefresh, Use
    <3>2. CASE SignIn(p)
      BY <1>1, <3>2 DEF SignIn
    <3> QED
      BY <1>4, <3>1, <3>2
  <2>3. CASE SignIn(p) \/ (UserRefresh(p) /\ user.token[p] = accepted[p])
    <3>1. accepted'[p] = time + 1 /\ by'[p] = User /\ user'.token[p] = time + 1
      <4>1. CASE SignIn(p)
        BY <1>1, <4>1 DEF SignIn
      <4>2. CASE UserRefresh(p) /\ user.token[p] = accepted[p]
        BY <1>1, <1>2, <4>2 DEF UserRefresh, Use
      <4> QED
        BY <2>3, <4>1, <4>2
    <3>2. accepted'[p] > time /\ user'.token[p] = accepted'[p] /\ User \in Dirs \cup {User}
      BY <1>1, <3>1
    <3> QED
      BY <2>1, <2>2, <3>1, <3>2, ObtainKeeps
  <2>4. CASE UserRefresh(p) /\ user.token[p] # accepted[p]
    <3>1. UNCHANGED <<accepted, by, lost>> /\ user'.token[p] = user.token[p]
      BY <1>1, <1>2, <2>4 DEF UserRefresh, Use
    <3> QED
      BY <2>1, <2>2, <3>1, ObtainKeeps
  <2> QED
    BY <1>4, <2>3, <2>4
<1> QED
  BY <1>3, <1>4

LEMMA AuthInductive == HermesSpec => []AuthInv
<1>1. AnyInv /\ AnyInv' /\ AuthInv /\ [HermesNext]_hermesVars => AuthInv'
  <2> SUFFICES ASSUME AnyInv, AnyInv', AuthInv, [HermesNext]_hermesVars PROVE AuthInv'
    OBVIOUS
  <2>1. CASE UNCHANGED hermesVars
    BY <2>1 DEF AuthInv, HandedInv, Serves, Within, UsersInv, FoundInv, Reached, InReach, hermesVars
  <2>2. ASSUME NEW t \in Tasks, TurnStep(t) \/ KillTurn(t) \/ Cleanup(t) PROVE AuthInv'
    BY <2>2, StillKeeps, GatherKeeps, HandKeeps, UsedKeeps, PutBackKeeps, LoseKeeps DEF TurnStep
  <2>3. ASSUME NEW p \in Providers, UserRefresh(p) \/ SignIn(p) PROVE AuthInv'
    BY <2>3, UsedKeeps
  <2> QED
    BY <2>1, <2>2, <2>3 DEF HermesNext
<1> QED
  BY <1>1, AuthStarts, AnyInductive, PTL DEF HermesSpec

\* While Hermes runs in a task, every token that is a turn's of its state directory to have
\* is the accepted one, unless the user obtained a newer one after it had gathered them.
THEOREM HandedTokensAreLive == HermesSpec => []TokensAreLive
<1>1. AuthInv => TokensAreLive
  BY DEF AuthInv, HandedInv, Serves, TokensAreLive
<1> QED
  BY <1>1, AuthInductive, PTL

\* Wherever a turn is killed and whatever is cleaned up, the accepted token is in a store that
\* the next turn looks at, unless that lost it.
THEOREM LiveTokensAreFound == HermesSpec => []LiveTokenIsFound
<1>1. AnyInv /\ AuthInv => LiveTokenIsFound
  <2> SUFFICES ASSUME AnyInv, AuthInv, NEW d \in Dirs, NEW p \in Providers, Within(d, p)
               PROVE \E s \in Candidates(d)
                        \cup {home[t] : t \in {u \in Tasks : Dir[u] = d /\ at[u] \in {"running", "stopped"}}} :
                       s.token[p] = accepted[p]
    BY DEF LiveTokenIsFound
  <2>1. Reached(d, p)
    BY DEF AuthInv, FoundInv
  <2>2. CASE user.token[p] = accepted[p]
    BY <2>2 DEF AnyInv, Candidates
  <2>3. CASE common[d].has /\ common[d].token[p] = accepted[p]
    BY <2>3 DEF Candidates
  <2>4. ASSUME NEW t \in Tasks, Dir[t] = d, InReach(t), home[t].token[p] = accepted[p]
        PROVE  \E s \in Candidates(d)
                  \cup {home[u] : u \in {v \in Tasks : Dir[v] = d /\ at[v] \in {"running", "stopped"}}} :
                 s.token[p] = accepted[p]
    BY <2>4 DEF InReach, Candidates
  <2> QED
    BY <2>1, <2>2, <2>3, <2>4 DEF Reached
<1> QED
  BY <1>1, AnyInductive, AuthInductive, PTL

=============================================================================
