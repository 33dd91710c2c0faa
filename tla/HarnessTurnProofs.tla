-------------------------- MODULE HarnessTurnProofs --------------------------
(***************************************************************************)
(* What TLAPS proves of HarnessTurn, for any set of harnesses, any number  *)
(* of lines and any number of waits for a usage limit.                     *)
(***************************************************************************)
EXTENDS HarnessTurn, SequenceTheorems, TLAPS

Sessions == {"asked", "other"}
Parses == [session: {None} \cup Sessions, final: {None, "", "piece", "answer"},
           piece: BOOLEAN, err: BOOLEAN, terminal: BOOLEAN]

Typed ==
  /\ run \in Requests
  /\ child \in [state: {"absent", "running", "gone"}, code: {0, 1, 127}, lines: Nat,
                session: Sessions, said: Terminal \cup {None}, errors: BOOLEAN,
                told: BOOLEAN, ends: Nat, limit: BOOLEAN]
  /\ pipe \in Seq(Lines)
  /\ parsed \in Parses
  /\ capture \in [timedOut: BOOLEAN, stopped: BOOLEAN]
  /\ store \in Stores

\* The child is there from its launch to its stop, and a stop for silence is Cursor's own.
StopInv ==
  /\ pc # "launch" => child.state # "absent"
  /\ pc \in {"join", "limit", "asleep", "done"} => child.state = "gone"
  /\ capture.stopped => run.harness = "cursor" /\ child.ends > EndedBefore
  /\ pc \in {"limit", "asleep"} => run.harness = "devin"
  /\ pc \in {"limit", "asleep", "done"} => pipe = <<>>

Silent == \A i \in DOMAIN pipe : pipe[i] \notin Terminal
LastIn(i) == pipe[i] \in Terminal /\ \A j \in DOMAIN pipe : j > i => pipe[j] \notin Terminal

\* What has been parsed, and what the pipe still holds, is what the child has said.
SaidInv ==
  /\ child.said \in {None} \cup LinesOf(run.harness)
  /\ \A i \in DOMAIN pipe : pipe[i] \in LinesOf(run.harness)
  /\ parsed.session \in {None, child.session}
  /\ child.said = None => Silent /\ ~parsed.terminal /\ (run.harness = "hermes" => ~parsed.piece)
  /\ run.harness \notin EndsMoreThanOnce =>
       /\ \A i \in DOMAIN pipe : pipe[i] \in Terminal => pipe[i] = child.said /\ LastIn(i)
       /\ parsed.terminal => Silent
  /\ \A i \in DOMAIN pipe : LastIn(i) => pipe[i] = child.said
  /\ Silent /\ parsed.terminal /\ child.said = "fail" => parsed.err
  /\ reader.dead => run.harness \in {"claude", "cursor"}
  /\ run.harness = "hermes" => ~parsed.terminal /\ (parsed.piece => child.said = "done")
  /\ run.harness = "devin" => parsed = Unparsed

ResultInv ==
  /\ AnswerIsNew
  /\ result.status = "succeeded" => pc = "done" /\ SuccessIsReal

IInv == Typed /\ StopInv /\ SaidInv /\ ResultInv

-----------------------------------------------------------------------------
(* The parsers *)

LEMMA ParseFacts ==
  ASSUME run \in Requests, NEW p \in Parses, NEW l \in LinesOf(run.harness), NEW s \in Sessions
  PROVE  /\ Parse(p, l, s) \in Parses
         /\ Parse(p, l, s).session \in {p.session, s}
         /\ l \notin Terminal =>
              /\ Parse(p, l, s).terminal = p.terminal
              /\ p.err => Parse(p, l, s).err
         /\ l = "fail" /\ Parse(p, l, s).terminal /\ run.harness \notin {"hermes", "devin"} =>
              Parse(p, l, s).err
         /\ run.harness = "hermes" =>
              /\ Parse(p, l, s).terminal = p.terminal
              /\ Parse(p, l, s).piece = (p.piece \/ l = "done")
         /\ run.harness = "devin" => Parse(p, l, s) = p
<1> USE DEF Parses, Sessions, None, Terminal, Requests
<1>1. CASE run.harness = "claude"
  BY <1>1 DEF Parse, ClaudeParse, LinesOf
<1>2. CASE run.harness = "grok"
  BY ZenonT(40), <1>2 DEF Parse, GrokParse, LinesOf
<1>3. CASE run.harness = "cursor"
  BY <1>3 DEF Parse, CursorParse, LinesOf
<1>4. CASE run.harness = "muse"
  BY <1>4 DEF Parse, MuseParse, LinesOf
<1>5. CASE run.harness = "opencode"
  BY ZenonT(40), <1>5 DEF Parse, OpenCodeParse, LinesOf
<1>6. CASE run.harness = "agy"
  BY <1>6 DEF Parse, AgyParse, LinesOf
<1>7. CASE run.harness = "dsh"
  BY <1>7 DEF Parse, DshParse, LinesOf
<1>8. CASE run.harness = "hermes"
  BY <1>8 DEF Parse, HermesParse, LinesOf
<1>9. CASE run.harness = "devin"
  BY <1>9 DEF Parse
<1> QED
  BY <1>1, <1>2, <1>3, <1>4, <1>5, <1>6, <1>7, <1>8, <1>9, TurnAssumption DEF AllHarnesses

-----------------------------------------------------------------------------
(* What the actions keep *)

LEMMA InitInv == Init => IInv
<1> SUFFICES ASSUME Init PROVE IInv
  OBVIOUS
<1>1. PICK session \in Sessions : child = IdleChild(session, EarlierEnds)
  BY DEF Init, Sessions
<1>2. pipe = <<>> /\ DOMAIN pipe = {} /\ pipe \in Seq(Lines)
  BY EmptySeq DEF Init
<1>3. Typed
  BY <1>1, <1>2, TurnAssumption
     DEF Init, Typed, IdleChild, EarlierEnds, Stores, Unparsed, Parses, Sessions, Terminal, None
<1>4. StopInv
  BY <1>1 DEF Init, StopInv, IdleChild
<1>5. SaidInv
  BY <1>1, <1>2
     DEF Init, SaidInv, IdleChild, Silent, LastIn, Unparsed, Terminal, None, EndsMoreThanOnce
<1>6. ResultInv
  BY DEF Init, ResultInv, AnswerIsNew, NoResult, None
<1> QED
  BY <1>3, <1>4, <1>5, <1>6 DEF IInv

\* Writing.
LEMMA WriteSilent ==
  ASSUME IInv, NEW l \in LinesOf(run.harness), Write(l)
  PROVE  Silent' <=> Silent /\ l \notin Terminal
<1> DEFINE n == Len(pipe)
<1>0. /\ pipe' \in Seq(Lines) /\ DOMAIN pipe = 1 .. n /\ DOMAIN pipe' = 1 .. n + 1
      /\ n \in Nat /\ pipe'[n + 1] = l /\ \A i \in 1 .. n : pipe'[i] = pipe[i]
  <2>1. l \in Lines /\ pipe \in Seq(Lines)
    BY TurnAssumption DEF LinesOf, Lines, Terminal, IInv, Typed, Requests
  <2> QED
    BY <2>1, AppendProperties, LenProperties DEF Write
<1>1. Silent' => Silent /\ l \notin Terminal
  <2> SUFFICES ASSUME Silent' PROVE Silent /\ l \notin Terminal
    OBVIOUS
  <2>1. \A i \in 1 .. n + 1 : pipe'[i] \notin Terminal
    BY <1>0 DEF Silent
  <2>2. n + 1 \in 1 .. n + 1 /\ 1 .. n \subseteq 1 .. n + 1
    BY <1>0
  <2> QED
    BY <1>0, <2>1, <2>2 DEF Silent
<1>2. Silent /\ l \notin Terminal => Silent'
  <2> SUFFICES ASSUME Silent, l \notin Terminal, NEW i \in 1 .. n + 1
               PROVE  pipe'[i] \notin Terminal
    BY <1>0 DEF Silent
  <2>1. i \in 1 .. n \/ i = n + 1
    BY <1>0
  <2> QED
    BY <1>0, <2>1 DEF Silent
<1> QED
  BY <1>1, <1>2

LEMMA WriteInv ==
  ASSUME IInv, NEW l \in LinesOf(run.harness), Write(l)
  PROVE  IInv'
<1>1. l \in Lines /\ pipe \in Seq(Lines) /\ run.harness \in AllHarnesses
  BY TurnAssumption DEF LinesOf, Lines, Terminal, IInv, Typed, Requests
<1> DEFINE n == Len(pipe)
<1>2. /\ pipe' \in Seq(Lines) /\ DOMAIN pipe = 1 .. n /\ DOMAIN pipe' = 1 .. n + 1
      /\ n \in Nat /\ pipe'[n + 1] = l /\ \A i \in 1 .. n : pipe'[i] = pipe[i]
  BY <1>1, AppendProperties, LenProperties DEF Write
<1>3. /\ UNCHANGED <<run, parsed, pc, capture, store, result, reader>>
      /\ child.state = "running" /\ child'.state = child.state /\ child'.ends = child.ends
      /\ child'.session = child.session /\ child'.code = child.code
      /\ child'.said = IF l \in Terminal THEN l ELSE child.said
      /\ child.said = None \/ run.harness \in EndsMoreThanOnce
  BY DEF Write, Running, IInv, Typed
<1>4. Typed'
  <2> DEFINE Children ==
               [state: {"absent", "running", "gone"}, code: {0, 1, 127}, lines: Nat,
                session: Sessions, said: Terminal \cup {None}, errors: BOOLEAN,
                told: BOOLEAN, ends: Nat, limit: BOOLEAN]
  <2>1. child \in Children /\ child.lines + 1 \in Nat /\ (child.errors \/ l = "error") \in BOOLEAN
    BY DEF IInv, Typed
  <2>2. (IF l \in Terminal THEN l ELSE child.said) \in Terminal \cup {None}
    BY <2>1
  <2>3. child' \in Children
    BY ZenonT(40), <2>1, <2>2 DEF Write
  <2> QED
    BY <1>2, <1>3, <2>3 DEF IInv, Typed
<1>5. StopInv'
  BY <1>3 DEF IInv, StopInv, EndedBefore
<1>6. pc # "done" /\ ResultInv'
  BY <1>3 DEF IInv, StopInv, ResultInv, AnswerIsNew
<1>7. SaidInv'
  <2> USE <1>2, <1>3 DEF IInv
  <2>1. /\ child'.said \in {None} \cup LinesOf(run'.harness)
        /\ \A i \in DOMAIN pipe' : pipe'[i] \in LinesOf(run'.harness)
        /\ parsed'.session \in {None, child'.session}
    BY DEF SaidInv
  <2>2. Silent' <=> Silent /\ l \notin Terminal
    BY WriteSilent
  <2>3. \A i \in 1 .. n : LastIn(i)' <=> LastIn(i) /\ l \notin Terminal
    <3> SUFFICES ASSUME NEW i \in 1 .. n PROVE LastIn(i)' <=> LastIn(i) /\ l \notin Terminal
      OBVIOUS
    <3>1. n + 1 \in 1 .. n + 1 /\ n + 1 > i /\ 1 .. n \subseteq 1 .. n + 1
      OBVIOUS
    <3>2. LastIn(i)' => LastIn(i) /\ l \notin Terminal
      BY <3>1 DEF LastIn
    <3>3. ASSUME LastIn(i), l \notin Terminal, NEW j \in 1 .. n + 1, j > i
          PROVE  pipe'[j] \notin Terminal
      <4>1. j \in 1 .. n \/ j = n + 1
        OBVIOUS
      <4> QED
        BY <3>3, <4>1 DEF LastIn
    <3> QED
      BY <3>2, <3>3 DEF LastIn
  <2>4. \A i \in 1 .. n + 1 : i \notin 1 .. n => i = n + 1 /\ (LastIn(i)' <=> l \in Terminal)
    <3> SUFFICES ASSUME NEW i \in 1 .. n + 1, i = n + 1 PROVE LastIn(i)' <=> l \in Terminal
      OBVIOUS
    <3>1. pipe'[i] = l /\ \A j \in 1 .. n + 1 : ~(j > i)
      OBVIOUS
    <3> QED
      BY <3>1 DEF LastIn
  <2>5. child'.said = None =>
          Silent' /\ ~parsed'.terminal /\ (run'.harness = "hermes" => ~parsed'.piece)
    BY <2>2 DEF SaidInv, Terminal, None
  <2>6. run'.harness \notin EndsMoreThanOnce =>
          /\ \A i \in DOMAIN pipe' : pipe'[i] \in Terminal => pipe'[i] = child'.said /\ LastIn(i)'
          /\ parsed'.terminal => Silent'
    <3> SUFFICES ASSUME run.harness \notin EndsMoreThanOnce
                 PROVE  /\ \A i \in 1 .. n + 1 :
                             pipe'[i] \in Terminal => pipe'[i] = child'.said /\ LastIn(i)'
                        /\ parsed.terminal => Silent'
      OBVIOUS
    <3>1. Silent /\ ~parsed.terminal
      BY DEF SaidInv
    <3>2. ASSUME NEW i \in 1 .. n + 1, pipe'[i] \in Terminal
          PROVE  pipe'[i] = child'.said /\ LastIn(i)'
      <4>1. i \notin 1 .. n
        BY <3>1, <3>2 DEF Silent
      <4> QED
        BY <2>4, <3>2, <4>1
    <3> QED
      BY <3>1, <3>2
  <2>7. \A i \in DOMAIN pipe' : LastIn(i)' => pipe'[i] = child'.said
    <3> SUFFICES ASSUME NEW i \in 1 .. n + 1, LastIn(i)' PROVE pipe'[i] = child'.said
      OBVIOUS
    <3>1. CASE i \in 1 .. n
      BY <2>3, <3>1 DEF SaidInv
    <3>2. CASE i \notin 1 .. n
      BY <2>4, <3>2
    <3> QED
      BY <3>1, <3>2
  <2>8. Silent' /\ parsed'.terminal /\ child'.said = "fail" => parsed'.err
    BY <2>2 DEF SaidInv
  <2>9. /\ reader'.dead => run'.harness \in {"claude", "cursor"}
        /\ run'.harness = "hermes" => ~parsed'.terminal /\ (parsed'.piece => child'.said = "done")
        /\ run'.harness = "devin" => parsed' = Unparsed
    BY DEF SaidInv, EndsMoreThanOnce, None
  <2> QED
    BY <2>1, <2>5, <2>6, <2>7, <2>8, <2>9 DEF SaidInv
<1> QED
  BY <1>4, <1>5, <1>6, <1>7 DEF IInv

\* Reading.
LEMMA ReadSilent ==
  ASSUME IInv, ReadLine
  PROVE  /\ Silent <=> Silent' /\ Head(pipe) \notin Terminal
         /\ Head(pipe) \in Terminal /\ Silent' => child.said = Head(pipe)
<1> DEFINE l == Head(pipe)
           n == Len(pipe)
<1>0. /\ n \in Nat /\ n > 0 /\ pipe' \in Seq(Lines) /\ Len(pipe') = n - 1
      /\ DOMAIN pipe = 1 .. n /\ DOMAIN pipe' = 1 .. n - 1
      /\ l = pipe[1] /\ \A i \in 1 .. n - 1 : pipe'[i] = pipe[i + 1]
  BY HeadTailProperties, LenProperties, EmptySeq DEF ReadLine, IInv, Typed
<1> USE <1>0 DEF IInv
<1>1. Silent <=> Silent' /\ l \notin Terminal
  <2>1. ASSUME Silent PROVE Silent' /\ l \notin Terminal
    BY <2>1 DEF Silent
  <2>2. ASSUME Silent', l \notin Terminal, NEW i \in 1 .. n PROVE pipe[i] \notin Terminal
    <3>1. CASE i = 1
      BY <2>2, <3>1
    <3>2. CASE i # 1
      <4>1. i - 1 \in 1 .. n - 1 /\ pipe'[i - 1] = pipe[i]
        BY <3>2
      <4> QED
        BY <2>2, <4>1 DEF Silent
    <3> QED
      BY <3>1, <3>2
  <2> QED
    BY <2>1, <2>2 DEF Silent
<1>4. l \in Terminal /\ Silent' => child.said = l
  <2> SUFFICES ASSUME l \in Terminal, Silent' PROVE LastIn(1)
    BY DEF SaidInv
  <2>1. ASSUME NEW j \in 1 .. n, j > 1 PROVE pipe[j] \notin Terminal
    <3>1. j - 1 \in 1 .. n - 1 /\ pipe'[j - 1] = pipe[j]
      BY <2>1
    <3> QED
      BY <3>1 DEF Silent
  <2> QED
    BY <2>1 DEF LastIn
<1> QED
  BY <1>1, <1>4

LEMMA ReadInv ==
  ASSUME IInv, ReadLine
  PROVE  IInv'
<1> DEFINE l == Head(pipe)
           n == Len(pipe)
<1>1. /\ pipe \in Seq(Lines) /\ pipe # <<>> /\ pipe' = Tail(pipe)
      /\ UNCHANGED <<run, child, late, pc, capture, noticed, waits, store, result>>
      /\ reader'.dead = Fatal(l)
      /\ parsed' = IF Fatal(l) THEN parsed ELSE Parse(parsed, l, child.session)
  BY DEF ReadLine, IInv, Typed
<1>2. /\ n \in Nat /\ n > 0 /\ pipe' \in Seq(Lines) /\ Len(pipe') = n - 1
      /\ DOMAIN pipe = 1 .. n /\ DOMAIN pipe' = 1 .. n - 1
      /\ l = pipe[1] /\ \A i \in 1 .. n - 1 : pipe'[i] = pipe[i + 1]
  BY <1>1, HeadTailProperties, LenProperties, EmptySeq
<1>3. l \in LinesOf(run.harness) /\ run \in Requests /\ parsed \in Parses
      /\ child.session \in Sessions
  BY <1>2 DEF IInv, Typed, SaidInv
<1>4. /\ parsed' \in Parses
      /\ parsed'.session \in {parsed.session, child.session}
      /\ l \notin Terminal => parsed'.terminal = parsed.terminal /\ (parsed.err => parsed'.err)
      /\ l = "fail" /\ parsed'.terminal /\ run.harness \notin {"hermes", "devin"} => parsed'.err
      /\ run.harness = "hermes" =>
           parsed'.terminal = parsed.terminal /\ parsed'.piece = (parsed.piece \/ l = "done")
      /\ run.harness = "devin" => parsed' = parsed
  <2>1. CASE Fatal(l)
    BY <1>1, <1>3, <2>1 DEF Fatal
  <2>2. CASE ~Fatal(l)
    BY SMTT(30), <1>1, <1>3, <2>2, ParseFacts
  <2> QED
    BY <2>1, <2>2
<1>5. Typed'
  BY <1>1, <1>2, <1>4 DEF IInv, Typed
<1>6. StopInv'
  BY <1>1 DEF IInv, StopInv, EndedBefore
<1>7. ResultInv'
  BY <1>1 DEF IInv, ResultInv, SuccessIsReal, AnswerIsNew
<1>8. SaidInv'
  <2> USE <1>2 DEF IInv
  <2>1. Silent <=> Silent' /\ l \notin Terminal
    BY ReadSilent
  <2>2. \A i \in 1 .. n - 1 : LastIn(i)' => LastIn(i + 1)
    <3> SUFFICES ASSUME NEW i \in 1 .. n - 1, LastIn(i)', NEW j \in 1 .. n, j > i + 1
                 PROVE  pipe[j] \notin Terminal
      BY DEF LastIn
    <3>1. j - 1 \in 1 .. n - 1 /\ j - 1 > i /\ pipe'[j - 1] = pipe[j]
      OBVIOUS
    <3> QED
      BY <3>1 DEF LastIn
  <2>3. \A i \in 1 .. n - 1 : LastIn(i + 1) => LastIn(i)'
    <3> SUFFICES ASSUME NEW i \in 1 .. n - 1, LastIn(i + 1), NEW j \in 1 .. n - 1, j > i
                 PROVE  pipe'[j] \notin Terminal
      BY DEF LastIn
    <3>1. j + 1 \in 1 .. n /\ j + 1 > i + 1 /\ pipe'[j] = pipe[j + 1]
      OBVIOUS
    <3> QED
      BY <3>1 DEF LastIn
  <2>4. l \in Terminal /\ Silent' => child.said = l
    BY ReadSilent
  <2>5. /\ child'.said \in {None} \cup LinesOf(run'.harness)
        /\ \A i \in DOMAIN pipe' : pipe'[i] \in LinesOf(run'.harness)
        /\ parsed'.session \in {None, child'.session}
    BY <1>1, <1>4 DEF SaidInv
  <2>6. child'.said = None =>
          Silent' /\ ~parsed'.terminal /\ (run'.harness = "hermes" => ~parsed'.piece)
    BY <1>1, <1>4, <2>1 DEF SaidInv, Terminal
  <2>7. run'.harness \notin EndsMoreThanOnce =>
          /\ \A i \in DOMAIN pipe' : pipe'[i] \in Terminal => pipe'[i] = child'.said /\ LastIn(i)'
          /\ parsed'.terminal => Silent'
    <3> SUFFICES ASSUME run.harness \notin EndsMoreThanOnce
                 PROVE  /\ \A i \in 1 .. n - 1 :
                             pipe'[i] \in Terminal => pipe'[i] = child.said /\ LastIn(i)'
                        /\ parsed'.terminal => Silent'
      BY <1>1
    <3>1. \A i \in 1 .. n : pipe[i] \in Terminal => pipe[i] = child.said /\ LastIn(i)
      BY DEF SaidInv
    <3>2. ASSUME NEW i \in 1 .. n - 1, pipe'[i] \in Terminal
          PROVE  pipe'[i] = child.said /\ LastIn(i)'
      <4>1. i + 1 \in 1 .. n /\ pipe[i + 1] \in Terminal /\ pipe'[i] = pipe[i + 1]
        BY <3>2
      <4> QED
        BY <3>1, <4>1, <2>3
    <3>3. CASE l \in Terminal
      <4>1. LastIn(1)
        BY <3>1, <3>3
      <4>2. Silent'
        BY <4>1 DEF Silent, LastIn
      <4> QED
        BY <3>2, <4>2
    <3>4. CASE l \notin Terminal
      BY <1>4, <2>1, <3>2, <3>4 DEF SaidInv
    <3> QED
      BY <3>3, <3>4
  <2>8. \A i \in DOMAIN pipe' : LastIn(i)' => pipe'[i] = child'.said
    <3> SUFFICES ASSUME NEW i \in 1 .. n - 1, LastIn(i)' PROVE pipe'[i] = child.said
      BY <1>1
    <3>1. i + 1 \in 1 .. n /\ LastIn(i + 1) /\ pipe'[i] = pipe[i + 1]
      BY <2>2
    <3> QED
      BY <3>1 DEF SaidInv
  <2>9. Silent' /\ parsed'.terminal /\ child'.said = "fail" => parsed'.err
    <3>1. CASE l \in Terminal
      BY <1>1, <1>4, <2>4, <3>1 DEF SaidInv, Unparsed
    <3>2. CASE l \notin Terminal
      BY <1>1, <1>4, <2>1, <3>2 DEF SaidInv
    <3> QED
      BY <3>1, <3>2
  <2>10. /\ reader'.dead => run'.harness \in {"claude", "cursor"}
         /\ run'.harness = "hermes" => ~parsed'.terminal /\ (parsed'.piece => child'.said = "done")
         /\ run'.harness = "devin" => parsed' = Unparsed
    <3>1. run.harness = "hermes" /\ l = "done" => child.said = "done"
      BY DEF SaidInv, Terminal, EndsMoreThanOnce
    <3> QED
      BY <1>1, <1>4, <3>1 DEF Fatal, SaidInv
  <2> QED
    BY <2>5, <2>6, <2>7, <2>8, <2>9, <2>10 DEF SaidInv
<1> QED
  BY <1>5, <1>6, <1>7, <1>8 DEF IInv

-----------------------------------------------------------------------------
(* The verdict *)

\* An old answer is one of a session that was not read before the turn, or is another one.
LEMMA OldAnswer ==
  ASSUME IInv, NEW after, Seen(after).final = "old"
  PROVE  run.resume /\ (~store.before \/ (run.harness = "hermes" /\ child.session = "other"))
<1>1. /\ parsed \in Parses /\ parsed.final # "old" /\ run.harness \in AllHarnesses
      /\ parsed.session \in {None, child.session} /\ child.ends \in Nat
  BY TurnAssumption DEF IInv, Typed, SaidInv, Requests, Parses, None
<1>2. CASE run.harness = "hermes"
  <2>1. Seen(after).final = HermesFinal(after)
    BY <1>1, <1>2 DEF Seen, Parses
  <2>2. run.resume /\ (store.before => Strange)
    BY <2>1 DEF HermesFinal, None
  <2> QED
    BY <1>1, <1>2, <2>2 DEF Strange, None
<1>3. CASE run.harness = "cursor"
  <2>1. Seen(after).final = CursorFinal
    BY <1>1, <1>3 DEF Seen, Parses
  <2>2. capture.stopped /\ ~(child.ends > EarlierEnds)
    BY <1>1, <2>1 DEF CursorFinal, None
  <2>3. child.ends > EndedBefore
    BY <2>2 DEF IInv, StopInv
  <2> QED
    BY <1>1, <2>2, <2>3 DEF EarlierEnds, EndedBefore
<1>4. CASE run.harness = "devin"
  <2>1. Seen(after) = DevinParse
    BY <1>4 DEF Seen
  <2>2. DevinParse.final # "old"
    BY DEF DevinParse, Unparsed, None
  <2> QED
    BY <2>1, <2>2
<1>5. CASE run.harness \notin {"hermes", "cursor", "devin"}
  <2>1. Seen(after).final \in {parsed.final, "piece"}
    BY <1>1, <1>5 DEF Seen, Parses
  <2> QED
    BY <1>1, <2>1
<1> QED
  BY <1>2, <1>3, <1>4, <1>5

\* Nothing of the turn's end is left unread when its output is taken to be.
LEMMA ReadToTheEnd ==
  ASSUME IInv, Drained, parsed.terminal
  PROVE  Silent
<1>1. CASE pipe = <<>>
  BY <1>1 DEF Silent
<1>2. CASE reader.dead
  BY <1>2 DEF IInv, SaidInv, EndsMoreThanOnce
<1> QED
  BY <1>1, <1>2 DEF Drained

\* An adapter that reads the end of the turn in the stream.
LEMMA StreamedVerdict ==
  ASSUME IInv, Drained, parsed.terminal,
         parsed.err => run.harness = "opencode"
  PROVE  child.said \in {"done", "empty"}
<1>1. Silent
  BY ReadToTheEnd
<1>2. /\ child.said \in Terminal
      /\ child.said = "fail" => parsed.err
      /\ child.said \in {None} \cup LinesOf(run.harness)
  BY <1>1 DEF IInv, Typed, SaidInv
<1>3. run.harness = "opencode" => child.said # "fail"
  BY <1>2 DEF LinesOf, None
<1> QED
  BY <1>2, <1>3 DEF Terminal

LEMMA Verdict ==
  ASSUME IInv, NEW after, pc = "join", Drained, StatusOf(Seen(after)) = "succeeded"
  PROVE  /\ child.code = 0 /\ ~capture.timedOut /\ ~capture.stopped
         /\ run.resume /\ run.harness # "hermes" => child.session = "asked"
         /\ Seen(after).final # "old" => child.said \in {"done", "empty"}
<1>1. /\ child.code = 0 /\ ~capture.timedOut /\ Seen(after).session # None /\ ~Mismatch(Seen(after))
      /\ Seen(after).final # None /\ ~Rejects(Seen(after)) /\ ~ProviderError(Seen(after))
  BY DEF StatusOf, Failed
<1>2. run.resume /\ run.harness # "hermes" => Seen(after).session = "asked"
  BY <1>1 DEF Mismatch
<1>3. /\ parsed \in Parses /\ run.harness \in AllHarnesses
      /\ parsed.session \in {None, child.session}
      /\ capture.stopped => run.harness = "cursor"
      /\ child.said \in Terminal \cup {None}
  BY TurnAssumption DEF IInv, Typed, StopInv, SaidInv, Requests
<1>4. CASE run.harness \in {"claude", "muse"}
  <2>1. Seen(after) = parsed
    BY <1>4 DEF Seen
  <2>2. parsed.terminal /\ ~parsed.err
    BY <1>1, <1>4, <2>1 DEF Rejects, ClaudeRejects, MuseRejects
  <2> QED
    BY <1>1, <1>2, <1>3, <1>4, <2>1, <2>2, StreamedVerdict DEF None
<1>5. CASE run.harness \in {"grok", "cursor", "agy", "dsh"}
  <2>1. /\ Seen(after).terminal = parsed.terminal /\ Seen(after).err = parsed.err
        /\ Seen(after).session = parsed.session
    BY <1>3, <1>5 DEF Seen, Parses
  <2>2. parsed.terminal /\ ~parsed.err /\ ~capture.stopped
    BY <1>1, <1>3, <1>5, <2>1
       DEF Rejects, GrokRejects, CursorRejects, AgyRejects, DshRejects, ProviderError
  <2> QED
    BY <1>1, <1>2, <1>3, <1>5, <2>1, <2>2, StreamedVerdict DEF None
<1>6. CASE run.harness = "opencode"
  <2>1. Seen(after) = parsed
    BY <1>6 DEF Seen
  <2>2. parsed.terminal
    BY <1>1, <1>6, <2>1 DEF Rejects, OpenCodeRejects
  <2> QED
    BY <1>1, <1>2, <1>3, <1>6, <2>1, <2>2, StreamedVerdict DEF None
<1>7. CASE run.harness = "hermes"
  <2>1. Seen(after).final = HermesFinal(after)
    BY <1>3, <1>7 DEF Seen, Parses
  <2>2. Seen(after).final # "old" => parsed.piece
    BY <1>1, <2>1 DEF HermesFinal
  <2> QED
    BY <1>1, <1>3, <1>7, <2>2 DEF IInv, SaidInv
<1>8. CASE run.harness = "devin"
  <2>1. Seen(after) = DevinParse
    BY <1>8 DEF Seen
  <2>2. ~Seen(after).err
    BY <1>1, <1>8 DEF Rejects, DevinRejects
  <2>3. child.said = "done" /\ Seen(after).session = child.session
    BY <1>1, <2>1, <2>2 DEF DevinParse, Unparsed
  <2> QED
    BY <1>1, <1>2, <1>3, <1>8, <2>3
<1> QED
  BY <1>3, <1>4, <1>5, <1>6, <1>7, <1>8 DEF AllHarnesses

-----------------------------------------------------------------------------
(* The other actions *)

LEMMA AsideInv ==
  ASSUME IInv, UNCHANGED <<run, parsed, capture, store, result, reader, pipe>>,
         UNCHANGED <<child, pc>> \/ pc # "done",
         child'.said = child.said, child'.session = child.session, child'.ends >= child.ends,
         Typed', pc' # "launch" => child'.state # "absent",
         pc' \in {"join", "limit", "asleep", "done"} => child'.state = "gone",
         pc' \in {"limit", "asleep", "done"} => pc' = pc
  PROVE  IInv'
<1>1. child.ends \in Nat /\ child'.ends \in Nat /\ EndedBefore \in Nat /\ EndedBefore' = EndedBefore
  BY DEF IInv, Typed, EndedBefore
<1>2. StopInv'
  BY <1>1 DEF IInv, StopInv
<1>3. SaidInv'
  BY DEF IInv, SaidInv, Silent, LastIn
<1>4. ResultInv'
  BY DEF IInv, ResultInv, SuccessIsReal, AnswerIsNew
<1> QED
  BY <1>2, <1>3, <1>4 DEF IInv

LEMMA InvNext == IInv /\ [Next]_vars => IInv'
<1> SUFFICES ASSUME IInv, [Next]_vars PROVE IInv'
  OBVIOUS
<1> DEFINE Children ==
             [state: {"absent", "running", "gone"}, code: {0, 1, 127}, lines: Nat,
              session: Sessions, said: Terminal \cup {None}, errors: BOOLEAN,
              told: BOOLEAN, ends: Nat, limit: BOOLEAN]
<1>0. /\ child \in Children /\ child.ends \in Nat /\ child.ends + 1 \in Nat
      /\ Typed /\ StopInv /\ SaidInv /\ ResultInv
  BY DEF IInv, Typed
<1>1. ASSUME NEW l \in LinesOf(run.harness), Write(l) PROVE IInv'
  BY <1>1, WriteInv
<1>2. CASE TurnEnded
  <2>1. child' \in Children /\ child' = [child EXCEPT !.ends = child.ends + 1]
    BY <1>0, <1>2 DEF TurnEnded
  <2>2. Typed'
    BY <1>0, <1>2, <2>1 DEF TurnEnded, Typed
  <2> QED
    BY <1>0, <1>2, <2>1, <2>2, AsideInv DEF TurnEnded, Running, StopInv
<1>3. ASSUME NEW status \in {0, 1}, NEW limit \in BOOLEAN, Exit(status, limit) PROVE IInv'
  <2>1. child' \in Children /\ child'.ends = child.ends /\ child'.said = child.said
        /\ child'.session = child.session /\ child'.state = "gone"
    BY <1>0, <1>3 DEF Exit
  <2>2. Typed'
    BY <1>0, <1>3, <2>1 DEF Exit, Typed
  <2> QED
    BY <1>0, <1>3, <2>1, <2>2, AsideInv DEF Exit, Running, StopInv
<1>4. CASE Tick \/ Waited
  <2>1. UNCHANGED child /\ Typed'
    BY <1>0, <1>4 DEF Tick, Waited, Typed
  <2> QED
    BY <1>0, <1>4, <2>1, AsideInv DEF Tick, Waited, StopInv
<1>5. CASE Launch
  <2>1. child' \in Children /\ child'.ends = child.ends /\ child'.said = child.said
        /\ child'.session = child.session
        /\ \/ child'.state = "running" /\ pc' = "wait"
           \/ child'.state = "gone" /\ pc' = "join"
    <3>1. CASE child' = [child EXCEPT !.state = "running"] /\ pc' = "wait"
      BY <1>0, <3>1
    <3>2. CASE child' = [child EXCEPT !.state = "gone", !.code = 127] /\ pc' = "join"
      <4>1. child' = [state |-> "gone", code |-> 127, lines |-> child.lines,
                      session |-> child.session, said |-> child.said, errors |-> child.errors,
                      told |-> child.told, ends |-> child.ends, limit |-> child.limit]
        BY <1>0, <3>2
      <4> QED
        BY <1>0, <3>2, <4>1
    <3> QED
      BY <1>5, <3>1, <3>2 DEF Launch
  <2>2. Typed'
    BY <1>0, <1>5, <2>1 DEF Launch, Typed
  <2> QED
    BY <1>0, <1>5, <2>1, <2>2, AsideInv DEF Launch
<1>6. CASE ReadLine
  BY <1>6, ReadInv
<1>7. CASE Deadline \/ StopCheck
  <2>1. /\ UNCHANGED <<run, child, pipe, reader, parsed, store, result>>
        /\ pc = "wait" /\ pc' \in {"wait", "stop"}
        /\ capture' \in [timedOut: BOOLEAN, stopped: BOOLEAN]
        /\ capture'.stopped => capture.stopped \/ (run.harness = "cursor" /\ child.ends > EndedBefore)
    BY ZenonT(40), <1>0, <1>7 DEF Deadline, StopCheck, TurnEndSeen, Typed
  <2>2. Typed'
    BY <1>0, <2>1 DEF Typed
  <2>3. StopInv'
    BY <1>0, <2>1 DEF StopInv, EndedBefore
  <2>4. SaidInv'
    BY <1>0, <2>1 DEF SaidInv, Silent, LastIn
  <2>5. ResultInv'
    BY <1>0, <2>1 DEF ResultInv, AnswerIsNew
  <2> QED
    BY <2>2, <2>3, <2>4, <2>5 DEF IInv
<1>8. CASE Stop
  <2>1. child' \in Children /\ child'.ends = child.ends /\ child'.said = child.said
        /\ child'.session = child.session /\ child'.state = child.state
    BY ZenonT(40), <1>0, <1>8 DEF Stop, Running
  <2>2. Typed'
    BY <1>0, <1>8, <2>1 DEF Stop, Typed
  <2> QED
    BY <1>0, <1>8, <2>1, <2>2, AsideInv DEF Stop, StopInv
<1>9. CASE Kill
  <2>1. child' \in Children /\ child'.ends = child.ends /\ child'.said = child.said
        /\ child'.session = child.session /\ child'.state = "gone"
    BY <1>0, <1>9 DEF Kill, Running, StopInv
  <2>2. Typed'
    BY <1>0, <1>9, <2>1 DEF Kill, Typed
  <2> QED
    BY <1>0, <1>9, <2>1, <2>2, AsideInv DEF Kill
<1>10. CASE Joined
  <2>1. /\ pc = "join" /\ Drained /\ pipe' = <<>> /\ pipe' \in Seq(Lines) /\ DOMAIN pipe' = {}
        /\ UNCHANGED <<run, child, reader, parsed, capture>>
        /\ pc' \in {"limit", "done"} /\ child.state = "gone"
    BY <1>0, <1>10, EmptySeq DEF Joined, StopInv
  <2>2. /\ store' \in Stores /\ store'.before = store.before
        /\ \/ UNCHANGED result
           \/ \E after : /\ pc' = "done" /\ result'.status = StatusOf(Seen(after))
                         /\ result'.final = Seen(after).final
    <3>1. CASE UNCHANGED <<store, result>>
      BY <1>0, <3>1 DEF Typed
    <3>2. ASSUME NEW after \in Exports \cup {None}, store' = [store EXCEPT !.after = after],
                 result' = [status |-> StatusOf(Seen(after)), timedOut |-> capture.timedOut,
                            final |-> Seen(after).final,
                            session |-> IF Mismatch(Seen(after)) THEN None ELSE Seen(after).session],
                 pc' = "done"
          PROVE  /\ store' \in Stores /\ store'.before = store.before
                 /\ pc' = "done" /\ result'.status = StatusOf(Seen(after))
                 /\ result'.final = Seen(after).final
      <4>1. store' \in Stores /\ store'.before = store.before
        BY <1>0, <3>2 DEF Typed, Stores
      <4> QED
        BY <3>2, <4>1
    <3> QED
      BY <1>10, <3>1, <3>2 DEF Joined
  <2>6. Typed'
    BY <1>0, <2>1, <2>2 DEF Typed
  <2>3. StopInv'
    BY <1>0, <1>10, <2>1, <2>2 DEF Joined, StopInv, WaitsForLimit, EndedBefore
  <2>4. SaidInv'
    <3>1. Silent' /\ \A i \in DOMAIN pipe' : FALSE
      BY <2>1 DEF Silent
    <3>2. parsed.terminal => Silent
      BY <2>1, ReadToTheEnd
    <3> QED
      BY <1>0, <2>1, <3>1, <3>2 DEF SaidInv
  <2>5. ResultInv'
    <3>1. CASE UNCHANGED result
      BY <1>0, <2>1, <2>2, <3>1 DEF ResultInv, AnswerIsNew
    <3>2. ASSUME NEW after, pc' = "done", result'.status = StatusOf(Seen(after)),
                 result'.final = Seen(after).final
          PROVE  ResultInv'
      <4>1. AnswerIsNew'
        BY <2>1, <2>2, <3>2, OldAnswer DEF AnswerIsNew
      <4>2. result'.status = "succeeded" => SuccessIsReal'
        BY <2>1, <3>2, Verdict DEF SuccessIsReal
      <4> QED
        BY <3>2, <4>1, <4>2 DEF ResultInv
    <3> QED
      BY <2>2, <3>1, <3>2
  <2> QED
    BY <2>3, <2>4, <2>5, <2>6 DEF IInv
<1>11. CASE LimitWait
  <2>1. /\ pc = "limit" /\ pc' \in {"asleep", "done"}
        /\ UNCHANGED <<run, child, pipe, reader, parsed, capture, store>>
        /\ UNCHANGED result \/ (result'.status = "failed" /\ result'.final = None)
    BY <1>11 DEF LimitWait
  <2>2. Typed' /\ StopInv'
    BY <1>0, <2>1 DEF Typed, StopInv, EndedBefore
  <2>3. SaidInv'
    BY <1>0, <2>1 DEF SaidInv, Silent, LastIn
  <2>4. ResultInv'
    BY <1>0, <2>1 DEF ResultInv, AnswerIsNew, None
  <2> QED
    BY <2>2, <2>3, <2>4 DEF IInv
<1>12. CASE Retry
  <2>1. /\ pc = "asleep" /\ pc' = "wait"
        /\ UNCHANGED <<run, pipe, parsed, capture, store, result>>
        /\ child' \in Children /\ child'.state = "running" /\ child'.said = None
        /\ child'.session = child.session /\ child'.ends = child.ends
        /\ reader'.dead = FALSE
    BY ZenonT(40), <1>0, <1>12 DEF Retry, IdleChild, Children
  <2>2. /\ run.harness = "devin" /\ pipe = <<>> /\ DOMAIN pipe = {} /\ ~parsed.terminal
    BY <1>0, <2>1 DEF StopInv, SaidInv, Unparsed
  <2>3. Typed' /\ StopInv'
    BY <1>0, <2>1, <2>2 DEF Typed, StopInv, EndedBefore
  <2>4. SaidInv'
    BY <1>0, <2>1, <2>2 DEF SaidInv, Silent, LastIn
  <2>5. ResultInv'
    BY <1>0, <2>1 DEF ResultInv, AnswerIsNew
  <2> QED
    BY <2>3, <2>4, <2>5 DEF IInv
<1>13. CASE UNCHANGED vars
  <2>1. UNCHANGED <<run, child, pipe, reader, parsed, pc, capture, store, result>> /\ Typed'
    BY <1>0, <1>13 DEF vars, Typed
  <2> QED
    BY <1>0, <2>1, AsideInv DEF StopInv
<1> QED
  BY <1>1, <1>2, <1>3, <1>4, <1>5, <1>6, <1>7, <1>8, <1>9, <1>10, <1>11, <1>12, <1>13
     DEF Next, HarnessStep, Aop, Over

-----------------------------------------------------------------------------
(* An answer that was given is reported *)

\* What is known of a turn that has said, as the last thing, that it went well, when all of it
\* has been read; and of a harness that stopped at a usage limit.
ToldInv ==
  /\ child.limit => child.code # 0
  /\ pc \in {"limit", "asleep"} => child.limit
  /\ \A i \in DOMAIN pipe : pipe[i] = "error" => child.errors
  /\ run.harness # "muse" /\ parsed.err => child.errors \/ child.said = "fail"
  /\ ~reader.dead /\ child.said = "done" /\ Silent =>
       /\ run.harness = "hermes" => parsed.piece
       /\ run.harness \notin {"hermes", "devin"} =>
            /\ parsed.terminal /\ parsed.final \in {"piece", "answer"}
            /\ parsed.session = child.session
            /\ child.errors \/ ~parsed.err

\* A line that ends the turn well leaves its answer; one that does not end it leaves what an
\* earlier one did, but for an error it tells.
LEMMA ParseAnswer ==
  ASSUME run \in Requests, NEW p \in Parses, NEW l \in LinesOf(run.harness), NEW s \in Sessions,
         NEW q, q = Parse(p, l, s), p.session \in {None, s},
         run.harness \notin {"hermes", "devin"}
  PROVE  /\ l = "done" => /\ q.terminal /\ q.final \in {"piece", "answer"}
                          /\ q.session = s
                          /\ run.harness = "muse" => ~q.err
         /\ l \notin Terminal =>
              /\ p.final \in {"piece", "answer"} => q.final \in {"piece", "answer"}
              /\ p.session = s => q.session = s
              /\ l # "error" /\ q.err => p.err
         /\ run.harness # "muse" /\ q.err => p.err \/ l \in {"fail", "error"}
         /\ run.harness = "muse" => l # "error"
<1> USE DEF Parses, Sessions, None, Terminal, Requests
<1>1. CASE run.harness = "claude"
  BY <1>1 DEF Parse, ClaudeParse, LinesOf
<1>2. CASE run.harness = "grok"
  BY <1>2 DEF Parse, GrokParse, LinesOf
<1>3. CASE run.harness = "cursor"
  BY <1>3 DEF Parse, CursorParse, LinesOf
<1>4. CASE run.harness = "muse"
  BY <1>4 DEF Parse, MuseParse, LinesOf
<1>5. CASE run.harness = "opencode"
  BY <1>5 DEF Parse, OpenCodeParse, LinesOf
<1>6. CASE run.harness = "agy"
  BY <1>6 DEF Parse, AgyParse, LinesOf
<1>7. CASE run.harness = "dsh"
  BY <1>7 DEF Parse, DshParse, LinesOf
<1> QED
  BY <1>1, <1>2, <1>3, <1>4, <1>5, <1>6, <1>7, TurnAssumption DEF AllHarnesses

LEMMA ToldRead ==
  ASSUME IInv, ToldInv, ReadLine
  PROVE  ToldInv'
<1> DEFINE l == Head(pipe)
<1>1. /\ UNCHANGED <<run, child, pc>> /\ run.harness \in Harnesses
      /\ run \in Requests /\ parsed \in Parses /\ child.session \in Sessions
      /\ parsed.session \in {None, child.session}
  BY DEF ReadLine, IInv, Typed, SaidInv, Requests
<1>2. /\ pipe # <<>> /\ pipe \in Seq(Lines) /\ pipe' = Tail(pipe)
  BY DEF ReadLine, IInv, Typed
<1>3. /\ DOMAIN pipe = 1 .. Len(pipe) /\ DOMAIN pipe' = 1 .. Len(pipe) - 1 /\ Len(pipe) \in Nat
      /\ 1 \in DOMAIN pipe /\ l = pipe[1] /\ \A i \in DOMAIN pipe' : pipe'[i] = pipe[i + 1]
  BY <1>2, HeadTailProperties, LenProperties, EmptySeq
<1>4. l \in LinesOf(run.harness) /\ (l = "error" => child.errors)
  BY <1>3 DEF IInv, SaidInv, ToldInv
<1>5. /\ ~reader.dead
      /\ reader'.dead => parsed' = parsed
      /\ ~reader'.dead => parsed' = Parse(parsed, l, child.session)
  BY DEF ReadLine
<1>7. \A i \in DOMAIN pipe' : pipe'[i] = "error" => child.errors
  <2> SUFFICES ASSUME NEW i \in DOMAIN pipe' PROVE pipe'[i] = "error" => child.errors
    OBVIOUS
  <2>1. i + 1 \in DOMAIN pipe
    BY <1>3
  <2> QED
    BY <1>3, <2>1 DEF ToldInv
<1>8. /\ Silent <=> Silent' /\ l \notin Terminal
      /\ l \in Terminal /\ Silent' => child.said = l
  BY ReadSilent
\* A line that ends the thread is not parsed, and nothing is read after it.
<1>12. CASE reader'.dead
  BY <1>1, <1>5, <1>7, <1>12 DEF ToldInv
<1> SUFFICES ASSUME ~reader'.dead PROVE ToldInv'
  BY <1>12
<1>6. parsed' = Parse(parsed, l, child.session)
  BY <1>5
<1>9. CASE run.harness = "devin"
  <2>1. parsed' = parsed
    BY <1>1, <1>4, <1>6, <1>9, ParseFacts
  <2> QED
    BY <1>1, <1>5, <1>7, <1>9, <2>1 DEF ToldInv
<1>10. CASE run.harness = "hermes"
  <2>1. parsed'.piece = (parsed.piece \/ l = "done") /\ parsed'.err = parsed.err
    BY <1>1, <1>4, <1>6, <1>10, ParseFacts DEF Parse, HermesParse, Parses
  <2> QED
    BY <1>1, <1>5, <1>7, <1>8, <1>10, <2>1 DEF ToldInv, Terminal
<1>11. CASE run.harness \notin {"devin", "hermes"}
  <2>1. /\ l = "done" => /\ parsed'.terminal /\ parsed'.final \in {"piece", "answer"}
                         /\ parsed'.session = child.session
                         /\ run.harness = "muse" => ~parsed'.err
        /\ l \notin Terminal =>
             /\ parsed'.terminal = parsed.terminal
             /\ parsed.final \in {"piece", "answer"} => parsed'.final \in {"piece", "answer"}
             /\ parsed.session = child.session => parsed'.session = child.session
             /\ l # "error" /\ parsed'.err => parsed.err
        /\ run.harness # "muse" /\ parsed'.err => parsed.err \/ l \in {"fail", "error"}
        /\ run.harness = "muse" => l # "error"
    <3> HIDE DEF l
    <3>1. PICK q : q = Parse(parsed, l, child.session)
      OBVIOUS
    <3>2. /\ l = "done" => /\ q.terminal /\ q.final \in {"piece", "answer"} /\ q.session = child.session
                           /\ run.harness = "muse" => ~q.err
          /\ l \notin Terminal =>
               /\ parsed.final \in {"piece", "answer"} => q.final \in {"piece", "answer"}
               /\ parsed.session = child.session => q.session = child.session
               /\ l # "error" /\ q.err => parsed.err
          /\ run.harness # "muse" /\ q.err => parsed.err \/ l \in {"fail", "error"}
          /\ run.harness = "muse" => l # "error"
      BY <1>1, <1>4, <1>11, <3>1, ParseAnswer
    <3>3. l \notin Terminal => q.terminal = parsed.terminal
      BY <1>1, <1>4, <3>1, ParseFacts
    <3> QED
      BY <1>6, <3>1, <3>2, <3>3
  <2>2. run.harness # "muse" /\ l = "fail" => child.said = "fail"
    BY <1>3, <1>4 DEF IInv, SaidInv, EndsMoreThanOnce, LinesOf, Terminal
  <2>3. run.harness # "muse" /\ parsed'.err => child.errors \/ child.said = "fail"
    BY <1>4, <2>1, <2>2 DEF ToldInv
  <2>4. ASSUME child.said = "done", Silent'
        PROVE  /\ parsed'.terminal /\ parsed'.final \in {"piece", "answer"}
               /\ parsed'.session = child.session
               /\ child.errors \/ ~parsed'.err
    <3>1. CASE l \in Terminal
      BY <1>8, <2>1, <2>3, <2>4, <3>1
    <3>2. CASE l \notin Terminal
      BY <1>4, <1>5, <1>8, <1>11, <2>1, <2>4, <3>2 DEF ToldInv
    <3> QED
      BY <3>1, <3>2
  <2> QED
    BY <1>1, <1>7, <1>11, <2>3, <2>4 DEF ToldInv
<1> QED
  BY <1>9, <1>10, <1>11

LEMMA ToldWrite ==
  ASSUME IInv, ToldInv, NEW l \in LinesOf(run.harness), Write(l)
  PROVE  ToldInv'
<1>1. l \in Lines /\ pipe \in Seq(Lines)
  BY TurnAssumption DEF LinesOf, Lines, Terminal, IInv, Typed, Requests
<1>2. \A i \in DOMAIN pipe' : (i \in DOMAIN pipe /\ pipe'[i] = pipe[i]) \/ pipe'[i] = l
  BY <1>1, AppendProperties, LenProperties DEF Write
<1>3. /\ UNCHANGED <<run, parsed, pc, reader>>
      /\ child'.session = child.session /\ child'.code = child.code /\ child'.limit = child.limit
      /\ child'.said = IF l \in Terminal THEN l ELSE child.said
      /\ child'.errors = (child.errors \/ l = "error")
      /\ child.said = None \/ run.harness \in EndsMoreThanOnce
  BY DEF Write, IInv, Typed
<1>4. \A i \in DOMAIN pipe' : pipe'[i] = "error" => child'.errors
  BY <1>2, <1>3 DEF ToldInv
<1>5. run.harness # "muse" /\ parsed.err => child'.errors \/ child'.said = "fail"
  <2>1. child.said = "fail" => run.harness = "muse"
    BY <1>3 DEF EndsMoreThanOnce, None, IInv, SaidInv, LinesOf, Terminal
  <2> QED
    BY <1>3, <2>1 DEF ToldInv
<1>6. Silent' <=> Silent /\ l \notin Terminal
  BY WriteSilent
<1> QED
  BY <1>3, <1>4, <1>5, <1>6 DEF ToldInv

\* Nothing is heard or read meanwhile.
LEMMA ToldAside ==
  ASSUME ToldInv, UNCHANGED <<run, reader, parsed, pipe>>,
         child'.said = child.said, child'.session = child.session, child'.errors = child.errors,
         child'.limit => child'.code # 0, pc' \in {"limit", "asleep"} => child'.limit
  PROVE  ToldInv'
BY DEF ToldInv, Silent

LEMMA AnswerVerdict ==
  ASSUME IInv, ToldInv, Drained, ~reader.dead, child.code = 0, child.said = "done",
         ~child.errors, ~capture.timedOut, ~capture.stopped,
         ~run.resume \/ child.session = "asked", NEW after,
         run.harness = "hermes" => parsed.session # None /\ after \in {"ids", "other_text"}
  PROVE  StatusOf(Seen(after)) = "succeeded"
<1>1. /\ parsed \in Parses /\ run.harness \in AllHarnesses /\ child.session # None
      /\ parsed.session \in {None, child.session}
  BY TurnAssumption DEF IInv, Typed, SaidInv, Requests, Sessions, None
<1>2. Silent
  <2>1. pipe = <<>>
    BY DEF Drained, ToldInv
  <2> QED
    BY <2>1 DEF Silent
<1>3. SUFFICES /\ Seen(after).session # None /\ ~Mismatch(Seen(after)) /\ Seen(after).final \in {"piece", "answer"}
               /\ ~Rejects(Seen(after)) /\ ~ProviderError(Seen(after))
  <2>1. Seen(after).final \in {"piece", "answer"} => Seen(after).final # None /\ Seen(after).final # ""
    BY DEF None
  <2> QED
    BY <2>1 DEF StatusOf, Failed, Unanswered
<1>4. CASE run.harness = "devin"
  <2>1. Seen(after) = [Unparsed EXCEPT !.session = child.session, !.terminal = TRUE, !.final = "answer"]
    BY <1>4 DEF Seen, DevinParse, None
  <2>2. Seen(after).session = child.session /\ Seen(after).final = "answer" /\ Seen(after).err = FALSE
    BY <2>1 DEF Unparsed
  <2> QED
    BY <1>1, <1>4, <2>2 DEF Mismatch, Rejects, DevinRejects, ProviderError, None
<1>5. CASE run.harness = "hermes"
  <2>1. parsed.piece
    BY <1>2, <1>5 DEF ToldInv
  <2>2. Seen(after).session = parsed.session /\ Seen(after).final = "answer"
    BY <1>1, <1>5, <2>1 DEF Seen, HermesFinal, Parses, None
  <2> QED
    BY <1>5, <2>2 DEF Mismatch, Rejects, HermesRejects, ProviderError, None
<1>6. CASE run.harness \notin {"devin", "hermes"}
  <2>1. /\ parsed.terminal /\ parsed.final \in {"piece", "answer"} /\ ~parsed.err
        /\ parsed.session = child.session
    BY <1>2, <1>6 DEF ToldInv
  <2>2. /\ Seen(after).session = child.session /\ Seen(after).final \in {"piece", "answer"}
        /\ Seen(after).err = parsed.err /\ Seen(after).terminal = parsed.terminal
    <3>1. parsed.final # None
      BY <2>1 DEF None
    <3>2. CASE run.harness = "cursor"
      <4>1. Seen(after) = [parsed EXCEPT !.final = parsed.final]
        BY <3>1, <3>2 DEF Seen, CursorFinal
      <4> QED
        BY <1>1, <2>1, <4>1 DEF Parses
    <3>3. CASE run.harness = "grok" /\ parsed.piece
      <4>1. Seen(after) = [parsed EXCEPT !.final = "piece"]
        BY <3>3 DEF Seen
      <4> QED
        BY <1>1, <2>1, <4>1 DEF Parses
    <3>4. CASE run.harness # "cursor" /\ ~(run.harness = "grok" /\ parsed.piece)
      <4>1. Seen(after) = parsed
        BY <1>6, <3>4 DEF Seen
      <4> QED
        BY <2>1, <4>1
    <3> QED
      BY <3>2, <3>3, <3>4
  <2>3. ~Seen(after).err /\ Seen(after).terminal /\ Seen(after).final # None
    BY <2>1, <2>2 DEF None
  <2>4. ~Rejects(Seen(after))
    BY <1>1, <1>6, <2>3 DEF Rejects, ClaudeRejects, GrokRejects, CursorRejects, MuseRejects,
       OpenCodeRejects, AgyRejects, DshRejects
  <2>5. ~Mismatch(Seen(after)) /\ ~ProviderError(Seen(after))
    BY <2>2, <2>3 DEF Mismatch, ProviderError
  <2> QED
    BY <1>1, <2>2, <2>4, <2>5
<1> QED
  BY <1>4, <1>5, <1>6

\* The steps at which the run is not over, nor gets to be.
LEMMA GoesOn ==
  ASSUME AnswerIsReported, pc # "done" \/ UNCHANGED vars, pc' # "done" \/ UNCHANGED vars
  PROVE  AnswerIsReported'
BY DEF AnswerIsReported, vars

LEMMA ToldNext ==
  ASSUME IInv, ToldInv, AnswerIsReported, [Next]_vars
  PROVE  ToldInv' /\ AnswerIsReported'
<1>1. /\ Typed /\ StopInv /\ SaidInv
      /\ child.limit => child.code # 0
      /\ pc \in {"limit", "asleep"} => child.limit
      /\ pc \in {"done", "limit", "asleep", "join"} => child.state # "running"
  BY DEF IInv, ToldInv, StopInv, Typed
<1>2. ASSUME NEW l \in LinesOf(run.harness), Write(l) PROVE ToldInv' /\ AnswerIsReported'
  <2>1. pc # "done" /\ pc' = pc
    BY <1>1, <1>2 DEF Write, Running
  <2> QED
    BY <1>2, <2>1, ToldWrite, GoesOn
<1>3. CASE ReadLine
  <2>1. pc # "done" /\ pc' = pc
    BY <1>1, <1>3 DEF ReadLine, StopInv
  <2> QED
    BY <1>3, <2>1, ToldRead, GoesOn
<1>4. ASSUME UNCHANGED <<run, reader, parsed, pipe>>, pc # "done" /\ pc' # "done",
             child'.said = child.said, child'.session = child.session,
             child'.errors = child.errors,
             child'.limit => child'.code # 0, pc' \in {"limit", "asleep"} => child'.limit
      PROVE  ToldInv' /\ AnswerIsReported'
  BY <1>4, ToldAside, GoesOn
<1>5. CASE TurnEnded \/ Stop
  <2>1. /\ child'.said = child.said /\ child'.session = child.session
        /\ child'.errors = child.errors /\ child'.limit = child.limit /\ child'.code = child.code
    BY <1>1, <1>5 DEF TurnEnded, Stop, Typed
  <2> QED
    BY <1>1, <1>4, <1>5, <2>1 DEF TurnEnded, Stop, Running
<1>6. ASSUME NEW status \in {0, 1}, NEW limit \in BOOLEAN, Exit(status, limit)
      PROVE  ToldInv' /\ AnswerIsReported'
  <2>1. /\ child'.said = child.said /\ child'.session = child.session
        /\ child'.errors = child.errors /\ child'.limit = limit /\ child'.code = status
    BY <1>1, <1>6 DEF Exit, Typed
  <2> QED
    BY <1>1, <1>4, <1>6, <2>1 DEF Exit, Running
<1>7. CASE Tick \/ Waited \/ Deadline \/ StopCheck
  BY <1>1, <1>4, <1>7 DEF Tick, Waited, Deadline, StopCheck
<1>8. CASE Launch \/ Kill
  <2>1. \/ UNCHANGED child
        \/ child' = [child EXCEPT !.state = "running"]
        \/ \E code \in {1, 127} : child' = [child EXCEPT !.state = "gone", !.code = code]
    BY <1>8 DEF Launch, Kill
  <2>2. /\ child'.said = child.said /\ child'.session = child.session
        /\ child'.errors = child.errors /\ child'.limit = child.limit
        /\ child'.code = child.code \/ child'.code # 0
    <3>1. CASE child' = [child EXCEPT !.state = "running"]
      BY <1>1, <3>1 DEF Typed
    <3>2. ASSUME NEW code \in {1, 127}, child' = [child EXCEPT !.state = "gone", !.code = code]
          PROVE  /\ child'.said = child.said /\ child'.session = child.session
                 /\ child'.errors = child.errors /\ child'.limit = child.limit
                 /\ child'.code # 0
      BY <1>1, <3>2 DEF Typed
    <3> QED
      BY <2>1, <3>1, <3>2
  <2> QED
    BY <1>1, <1>4, <1>8, <2>2 DEF Launch, Kill
<1>9. CASE Joined
  <2>1. /\ Drained /\ pipe' = <<>> /\ DOMAIN pipe' = {}
        /\ UNCHANGED <<run, child, reader, parsed, capture>>
        /\ pc' = "limit" => child.limit
    BY <1>9, EmptySeq DEF Joined, WaitsForLimit
  <2>2. ToldInv'
    <3>1. ~reader.dead => Silent
      BY <2>1 DEF Drained, Silent
    <3>2. pc' \in {"limit", "done"}
      BY <1>9 DEF Joined
    <3> QED
      BY <2>1, <3>1, <3>2 DEF ToldInv
  <2>3. AnswerIsReported'
    <3>1. CASE pc' # "done"
      BY <3>1 DEF AnswerIsReported
    <3>2. CASE pc' = "done"
      <4>1. PICK after : store' = [store EXCEPT !.after = after] /\ result'.status = StatusOf(Seen(after))
        BY <1>9, <3>2 DEF Joined
      <4>2. store'.after = after
        BY <1>1, <4>1 DEF Typed, Stores
      <4> QED
        BY <2>1, <4>1, <4>2, AnswerVerdict DEF AnswerIsReported
    <3> QED
      BY <3>1, <3>2
  <2> QED
    BY <2>2, <2>3
<1>10. CASE LimitWait
  <2>1. /\ UNCHANGED <<run, child, reader, parsed, pipe>> /\ child.limit /\ child.code # 0
    BY <1>1, <1>10 DEF LimitWait
  <2> QED
    BY <2>1, ToldAside DEF AnswerIsReported
<1>11. CASE Retry
  <2>1. /\ pc' = "wait" /\ pc # "done" /\ UNCHANGED <<run, parsed, pipe>> /\ reader'.dead = FALSE
        /\ child'.limit = FALSE /\ child'.said = None /\ pipe = <<>> /\ ~parsed.err
    BY <1>1, <1>11 DEF Retry, IdleChild, StopInv, SaidInv, Unparsed
  <2>2. DOMAIN pipe' = {}
    BY <2>1
  <2> QED
    BY <2>1, <2>2, GoesOn DEF ToldInv, None
<1>12. CASE UNCHANGED vars
  BY <1>1, <1>12, ToldAside, GoesOn DEF vars
<1> QED
  BY <1>2, <1>3, <1>5, <1>6, <1>7, <1>8, <1>9, <1>10, <1>11, <1>12 DEF Next, HarnessStep, Aop, Over

-----------------------------------------------------------------------------
(* Theorems *)

\* When a run is over, and before each retry of it, its harness is gone: _capture_process
\* returns only after what it could not stop has been killed.
THEOREM HarnessIsGone == Spec => []NothingLeftRunning
<1>1. IInv => NothingLeftRunning
  BY DEF IInv, StopInv, NothingLeftRunning
<1> QED
  BY <1>1, InitInv, InvNext, PTL DEF Spec

\* Only a Cursor whose transcript holds this turn's end is stopped for its silence, whatever
\* it wrote of earlier turns and of later ones, unless the transcript of a resumed chat was
\* not found when the turn started (_CursorTurnEnd).
THEOREM WorkIsLeftAlone == Spec => []SilenceIsNotTheEnd
<1>1. IInv => SilenceIsNotTheEnd
  <2>1. ASSUME child.ends \in Nat, child.ends > EndedBefore
        PROVE  child.ends > EarlierEnds \/ (run.resume /\ ~store.before)
    BY <2>1 DEF EarlierEnds, EndedBefore
  <2> QED
    BY <2>1 DEF IInv, Typed, StopInv, SilenceIsNotTheEnd
<1> QED
  BY <1>1, InitInv, InvNext, PTL DEF Spec

\* No run reports an answer its session held before it, whatever the export after the turn
\* tells of ids and texts, but where the session was not read before the turn or Hermes
\* went on in another one (_hermes_export_answer, _CursorTurnEnd).
THEOREM AnswersAreNew == Spec => []AnswerIsNew
<1>1. IInv => AnswerIsNew
  BY DEF IInv, ResultInv
<1> QED
  BY <1>1, InitInv, InvNext, PTL DEF Spec

\* Whatever the harness writes, in whatever order the output is read, the deadline passes and
\* the harness ends, success is reported of a turn that succeeded only.
THEOREM SuccessesAreReal == Spec => []SuccessIsReal
<1>1. IInv => SuccessIsReal
  BY DEF IInv, Typed, ResultInv, SuccessIsReal
<1> QED
  BY <1>1, InitInv, InvNext, PTL DEF Spec

\* A harness that ended well and in time and was read to its end is reported as succeeded, for
\* any output, order of events and retries: Hermes, if its session's export after the turn
\* succeeds and tells the answer from the one before.
THEOREM AnswersAreReported == Spec => []AnswerIsReported
<1>1. Init => ToldInv /\ AnswerIsReported
  <2> SUFFICES ASSUME Init PROVE ToldInv /\ AnswerIsReported
    OBVIOUS
  <2>1. /\ pipe = <<>> /\ DOMAIN pipe = {} /\ parsed = Unparsed /\ pc = "launch"
        /\ reader.dead = FALSE
    BY DEF Init
  <2>2. child.limit = FALSE /\ child.said = None
    BY DEF Init, IdleChild
  <2> QED
    BY <2>1, <2>2 DEF ToldInv, AnswerIsReported, Unparsed, None
<1>2. IInv /\ ToldInv /\ AnswerIsReported /\ [Next]_vars => ToldInv' /\ AnswerIsReported'
  BY ToldNext
<1> QED
  BY <1>1, <1>2, InitInv, InvNext, PTL DEF Spec

-----------------------------------------------------------------------------
(* Types, with what IInv leaves out of them *)

\* What has been taken and what waits in the pipe was written in this attempt.
Limited ==
  /\ child.lines <= MaxLines /\ child.ends \in EarlierEnds..EarlierEnds + 2
  /\ reader \in [dead: BOOLEAN, answered: BOOLEAN, taken: Nat]
  /\ reader.taken + Len(pipe) <= child.lines
  /\ late \in BOOLEAN
  /\ pc \in {"launch", "wait", "stop", "killing", "join", "limit", "asleep", "done"}
  /\ noticed \in 0..NotYet /\ waits \in 0..MaxWaits
  /\ result.status \in {None, "succeeded", "response_available_with_provider_error", "failed"}

LEMMA LimitedNext ==
  ASSUME IInv, Limited, [Next]_vars
  PROVE  Limited'
<1>1. /\ MaxLines \in Nat /\ MaxWaits \in Nat /\ pipe \in Seq(Lines) /\ Len(pipe) \in Nat
      /\ child \in [state: {"absent", "running", "gone"}, code: {0, 1, 127}, lines: Nat,
                    session: Sessions, said: Terminal \cup {None}, errors: BOOLEAN,
                    told: BOOLEAN, ends: Nat, limit: BOOLEAN]
      /\ child.lines \in Nat /\ reader.taken \in Nat /\ run \in Requests
      /\ EarlierEnds' = EarlierEnds /\ EarlierEnds \in {0, 1}
  <2>1. run' = run
    BY DEF Next, HarnessStep, Aop, Over, Write, TurnEnded, Exit, Tick, Launch, ReadLine, Waited,
           Deadline, StopCheck, Stop, Kill, Joined, LimitWait, Retry, vars
  <2> QED
    BY <2>1, TurnAssumption DEF IInv, Typed, Limited, EarlierEnds
<1>2. ASSUME NEW l \in LinesOf(run.harness), Write(l) PROVE Limited'
  <2> DEFINE said == IF l \in Terminal THEN l ELSE child.said
             errors == child.errors \/ l = "error"
  <2>1. /\ pipe' = Append(pipe, l) /\ child.lines < MaxLines
        /\ child' = [child EXCEPT !.lines = @ + 1, !.errors = errors, !.said = said]
        /\ UNCHANGED <<reader, late, pc, noticed, waits, result>>
    BY <1>2 DEF Write
  <2>2. Len(pipe') = Len(pipe) + 1
    BY <1>1, <2>1
  <2>3. child'.lines = child.lines + 1 /\ child'.ends = child.ends
    BY <1>1, <2>1
  <2> QED
    BY <1>1, <2>1, <2>2, <2>3 DEF Limited
<1>3. ASSUME TurnEnded \/ (\E status \in {0, 1}, limit \in BOOLEAN : Exit(status, limit))
             \/ Launch \/ Stop \/ Kill
      PROVE  Limited'
  <2>1. UNCHANGED <<pipe, reader, late, noticed, waits, result>>
        /\ pc' \in {pc, "wait", "join", "killing"}
    BY <1>3 DEF TurnEnded, Exit, Launch, Stop, Kill
  <2>2. child'.lines = child.lines /\ child'.ends \in EarlierEnds..EarlierEnds + 2
    <3>1. CASE TurnEnded
      BY <1>1, <3>1 DEF TurnEnded
    <3>2. CASE \E status \in {0, 1}, limit \in BOOLEAN : Exit(status, limit)
      <4>1. PICK status \in {0, 1}, limit \in BOOLEAN : Exit(status, limit)
        BY <3>2
      <4>2. child'.lines = child.lines /\ child'.ends = child.ends
        BY <1>1, <4>1 DEF Exit
      <4> QED
        BY <4>2 DEF Limited
    <3>3. CASE Launch \/ Stop \/ Kill
      <4>1. child'.lines = child.lines /\ child'.ends = child.ends
        BY ZenonT(40), <1>1, <3>3 DEF Launch, Stop, Kill
      <4> QED
        BY <4>1 DEF Limited
    <3> QED
      BY <1>3, <3>1, <3>2, <3>3
  <2> QED
    BY <1>1, <2>1, <2>2 DEF Limited
<1>4. ASSUME ReadLine PROVE Limited'
  <2>1. /\ pipe # <<>> /\ pipe' = Tail(pipe)
        /\ UNCHANGED <<child, late, pc, noticed, waits, result>>
    BY <1>4 DEF ReadLine
  <2>2. Len(pipe') + 1 = Len(pipe) /\ Len(pipe') \in Nat
    BY <1>1, <2>1
  <2>3. /\ reader' \in [dead: BOOLEAN, answered: BOOLEAN, taken: Nat]
        /\ reader'.taken \in {reader.taken, reader.taken + 1}
    BY <1>1, <1>4 DEF ReadLine, Fatal, Limited
  <2> QED
    BY <1>1, <2>1, <2>2, <2>3 DEF Limited
<1>5. ASSUME StopCheck PROVE Limited'
  <2>1. /\ UNCHANGED <<child, pipe, reader, late, waits, result>> /\ pc' \in {pc, "stop"}
        /\ noticed' \in {noticed, reader.taken}
    BY <1>5 DEF StopCheck
  <2>2. reader.taken \in 0..NotYet
    BY <1>1 DEF Limited, NotYet
  <2> QED
    BY <1>1, <2>1, <2>2 DEF Limited
<1>6. ASSUME Joined PROVE Limited'
  <2>1. /\ pipe' = <<>> /\ pc' \in {"limit", "done"}
        /\ UNCHANGED <<child, reader, late, noticed, waits>>
    BY <1>6 DEF Joined
  <2>2. result'.status \in {result.status, "failed", "response_available_with_provider_error", "succeeded"}
    BY <1>6 DEF Joined, StatusOf
  <2>3. Len(pipe') = 0
    BY <2>1
  <2> QED
    BY <1>1, <2>1, <2>2, <2>3 DEF Limited
<1>7. ASSUME LimitWait PROVE Limited'
  <2>1. /\ UNCHANGED <<child, pipe, reader, late, noticed>> /\ pc' \in {"asleep", "done"}
        /\ waits' \in {waits} \/ (waits < MaxWaits /\ waits' = waits + 1)
        /\ result'.status \in {result.status, "failed"}
    BY <1>7 DEF LimitWait
  <2> QED
    BY <1>1, <2>1 DEF Limited
<1>8. ASSUME Retry PROVE Limited'
  <2>1. /\ child'.lines = 0 /\ child'.ends = child.ends /\ pc' = "wait"
        /\ reader' = [dead |-> FALSE, answered |-> FALSE, taken |-> 0]
        /\ UNCHANGED <<pipe, late, noticed, waits, result>> /\ pipe = <<>>
    BY <1>8 DEF Retry, IdleChild, IInv, StopInv
  <2>2. Len(pipe') = 0 /\ reader'.taken = 0
    BY <2>1
  <2> QED
    BY <1>1, <2>1, <2>2 DEF Limited
<1>9. ASSUME Tick \/ Waited \/ Deadline \/ UNCHANGED vars PROVE Limited'
  <2>1. /\ UNCHANGED <<child, pipe, reader, noticed, waits, result>> /\ late' \in {late, TRUE}
        /\ pc' \in {pc, "join", "stop"}
    BY <1>9 DEF Tick, Waited, Deadline, vars
  <2> QED
    BY ZenonT(40), <1>1, <2>1 DEF Limited
<1> QED
  BY <1>2, <1>3, <1>4, <1>5, <1>6, <1>7, <1>8, <1>9 DEF Next, HarnessStep, Aop, Over

\* No attempt of a run has read more than its harness wrote, and whatever the harness
\* does its record keeps to the statuses and the bounds the adapters know
\* (_capture_process, the reader thread, the limit waits of Devin).
THEOREM TypeCorrect == Spec => []TypeOK
<1>1. Init => Limited
  <2> SUFFICES ASSUME Init PROVE Limited
    OBVIOUS
  <2>1. PICK session \in Sessions : child = IdleChild(session, EarlierEnds)
    BY DEF Init, Sessions
  <2>2. Len(pipe) = 0
    BY DEF Init
  <2>3. /\ child.lines = 0 /\ child.ends = EarlierEnds /\ EarlierEnds \in {0, 1}
        /\ reader = [dead |-> FALSE, answered |-> FALSE, taken |-> 0]
        /\ result.status = None
    BY <2>1 DEF Init, IdleChild, NoResult, EarlierEnds
  <2>4. MaxLines \in Nat /\ MaxWaits \in Nat
    BY TurnAssumption
  <2>5. noticed \in 0..NotYet /\ waits \in 0..MaxWaits
    BY <2>4 DEF Init, NotYet
  <2>6. late \in BOOLEAN /\ pc = "launch"
    BY DEF Init
  <2>7. reader \in [dead: BOOLEAN, answered: BOOLEAN, taken: Nat] /\ reader.taken = 0
    BY <2>3
  <2> QED
    BY <2>2, <2>3, <2>4, <2>5, <2>6, <2>7 DEF Limited
<1>2. IInv /\ Limited => TypeOK
  <2> SUFFICES ASSUME IInv, Limited PROVE TypeOK
    OBVIOUS
  <2>1. /\ MaxLines \in Nat /\ Len(pipe) \in Nat /\ child.lines \in Nat /\ child.ends \in 0..3
        /\ reader.taken \in Nat
    BY TurnAssumption DEF IInv, Typed, Limited, EarlierEnds
  <2>2. child.lines \in 0..MaxLines /\ reader.taken \in 0..MaxLines /\ Len(pipe) <= MaxLines
    BY <2>1 DEF Limited
  <2>3. /\ child \in [state: {"absent", "running", "gone"}, code: {0, 1, 127}, lines: 0..MaxLines,
                      session: {"asked", "other"}, said: Terminal \cup {None}, errors: BOOLEAN,
                      told: BOOLEAN, ends: 0..3, limit: BOOLEAN]
        /\ reader \in [dead: BOOLEAN, answered: BOOLEAN, taken: 0..MaxLines]
    BY <2>1, <2>2 DEF IInv, Typed, Limited, Sessions
  <2>4. parsed \in [session: {None, "asked", "other"}, final: {None, "", "piece", "answer", "old"},
                    piece: BOOLEAN, err: BOOLEAN, terminal: BOOLEAN]
    BY DEF IInv, Typed, Parses, Sessions
  <2> QED
    BY <2>2, <2>3, <2>4 DEF IInv, Typed, Limited, TypeOK
<1> QED
  BY InitInv, InvNext, LimitedNext, <1>1, <1>2, PTL DEF Spec
=============================================================================
