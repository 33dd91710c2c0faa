--------------------------- MODULE ZcodeTurnProofs ---------------------------
(***************************************************************************)
(* What TLAPS proves of ZcodeTurn, for any number of events of the server  *)
(* and any reasoning levels.                                               *)
(***************************************************************************)
EXTENDS ZcodeTurn, SequenceTheorems, TLAPS

Servers == [state: {"absent", "running", "gone"}, code: {0, 1}, session: {"asked", "other"},
            level: Selections, waiting: BOOLEAN, turn: {None, "sent", "started"} \cup Ends,
            events: Nat, bad: BOOLEAN]
Logs == [session: {None, "asked", "other"}, conflict: BOOLEAN, active: Turns \cup {None},
         err: BOOLEAN, terminal: Turns \cup {None}, completed: BOOLEAN, snapshot: BOOLEAN]
Places == {"launch", "open", "read", "subscribe", "send", "turn", "verify", "end", "done"}

Kinds == {"refusal", "ok", "snapshot", "started", "asks"} \cup Ends

Typed ==
  /\ run \in Requests /\ server \in Servers
  /\ lines \in Seq(Messages) /\ events \in Seq(Messages) /\ log \in Logs
  /\ pc \in Places /\ effort \in Levels /\ recorded \in Levels
  /\ late \in BOOLEAN /\ timedOut \in BOOLEAN /\ failed \in BOOLEAN

Event(m) == m.kind \in Ends \cup {"started"}
OwnStart(m) == m.kind = "started" /\ m.turn = "own"
OwnEnd(m) == m.kind \in Ends /\ m.turn = "own"
IsReply(m) == m.kind \in {"refusal", "ok", "snapshot"}
Began == server.turn \notin {None, "sent"}

\* The own turn starts once and ends once, and between its start and its end nothing of
\* an earlier turn is repeated.
StreamInv ==
  /\ \A i \in DOMAIN lines : lines[i].session = server.session
  /\ \A i \in DOMAIN lines : OwnEnd(lines[i]) => server.turn = lines[i].kind
  /\ \A i \in DOMAIN lines : OwnStart(lines[i]) => Began
  /\ \A i, j \in DOMAIN lines : i < j /\ OwnEnd(lines[i]) => ~Event(lines[j])
  /\ \A i, j \in DOMAIN lines :
       i < j /\ OwnStart(lines[i]) => lines[j].turn = "own" /\ lines[j].kind # "started"
  /\ Busy /\ Began =>
       \/ /\ log.active = "own"
          /\ \A i \in DOMAIN lines : lines[i].turn = "own" /\ lines[i].kind # "started"
       \/ \E i \in DOMAIN lines : OwnStart(lines[i])

\* One answer for each request, of the kind that was asked for.
ReplyInv ==
  /\ server.waiting => \A i \in DOMAIN lines : ~IsReply(lines[i])
  /\ \A i, j \in DOMAIN lines : IsReply(lines[i]) /\ IsReply(lines[j]) => i = j
  /\ pc = "turn" => ~server.waiting /\ \A i \in DOMAIN lines : ~IsReply(lines[i])
  /\ pc \in {"read", "verify"} => \A i \in DOMAIN lines : lines[i].kind # "ok"
  /\ pc = "verify" => \A i \in DOMAIN lines :
                        lines[i].kind = "snapshot" => lines[i].level = server.level
  /\ \A i \in DOMAIN lines :
       lines[i].kind = "snapshot" => lines[i].level = server.level \/ Began
  /\ pc = "launch" => DOMAIN lines = {} /\ DOMAIN events = {} /\ ~Began

\* The parse knows how the own turn ended, and nothing is left that could change it.
Settled ==
  /\ server.turn \in Ends
  /\ server.turn \in {"failed", "unsuccessful"} => log.err
  /\ server.turn = "blank" => log.terminal = None
  /\ server.turn = "completed" => log.completed /\ log.terminal # None
  /\ \A i \in DOMAIN lines : ~Event(lines[i])

\* So it is once the own turn's end has been read, and when the run ends well.
HistoryInv ==
  /\ \A i \in DOMAIN events : OwnEnd(events[i]) => Settled
  /\ pc = "verify" => Settled
  /\ pc = "end" /\ ~failed /\ ~timedOut => Settled

\* The effort on record is the confirmed one until the last check, and the session's
\* until its turn starts.
EffortInv ==
  /\ pc \in {"subscribe", "send", "turn", "verify"} =>
       /\ recorded = effort /\ server.session = "asked"
       /\ run.effort # None => recorded = run.effort
       /\ ~Began => effort = server.level
  /\ pc = "end" /\ ~failed /\ ~timedOut =>
       /\ server.session = "asked" /\ effort = server.level
       /\ recorded # None => recorded = server.level
       /\ run.effort # None => recorded = run.effort

\* What a success says of the effort.
OnRecord ==
  result.status = "succeeded" =>
    /\ result.effort = server.level
    /\ recorded = server.level \/ (recorded = None /\ run.effort = None)

ResultInv ==
  /\ result.status = "succeeded" => pc = "done"
  /\ SuccessIsReal /\ OnRecord

IInv == Typed /\ StreamInv /\ ReplyInv /\ HistoryInv /\ EffortInv /\ ResultInv

-----------------------------------------------------------------------------
LEMMA InitInv == Init => IInv
<1> SUFFICES ASSUME Init PROVE IInv
  OBVIOUS
<1>1. /\ lines \in Seq(Messages) /\ DOMAIN lines = {} /\ events \in Seq(Messages)
      /\ DOMAIN events = {}
  BY EmptySeq DEF Init
<1>2. server \in Servers /\ server.turn = None /\ ~server.waiting
  BY DEF Init, Servers, None
<1>3. log \in Logs
  BY DEF Init, Logs, Unparsed, None, Turns
<1>4. Typed
  BY <1>1, <1>2, <1>3 DEF Init, Typed, Requests, Levels, Places, None
<1>5. StreamInv /\ ReplyInv /\ HistoryInv /\ EffortInv
  BY <1>1, <1>2 DEF Init, StreamInv, ReplyInv, HistoryInv, EffortInv, Busy, Began
<1>6. ResultInv
  BY DEF Init, ResultInv, SuccessIsReal, OnRecord, NoResult, None
<1> QED
  BY <1>4, <1>5, <1>6 DEF IInv

-----------------------------------------------------------------------------
(* The server's steps *)

LEMMA AppendFacts ==
  ASSUME NEW S, NEW s \in Seq(S), NEW m \in S, NEW t, t = Append(s, m)
  PROVE  /\ t \in Seq(S) /\ Len(s) \in Nat
         /\ \A i \in DOMAIN t : i \in DOMAIN s \/ i = Len(s) + 1
         /\ \A i \in DOMAIN s : i \in DOMAIN t /\ i < Len(s) + 1 /\ i \in Nat /\ t[i] = s[i]
         /\ Len(s) + 1 \in DOMAIN t /\ t[Len(s) + 1] = m
OBVIOUS

\* What a line may say of the own turn, and how the server's turn moves with it.
Moved(m) ==
  \/ /\ ~Event(m) /\ m.turn = "own"
     /\ server'.turn = server.turn \/ (server.turn = None /\ server'.turn = "sent")
  \/ OwnStart(m) /\ ~Began /\ server'.turn = "started"
  \/ OwnEnd(m) /\ server.turn = "started" /\ server'.turn = m.kind
  \/ Event(m) /\ m.turn = "old" /\ ~Began /\ server'.turn = server.turn

LEMMA SaidStep ==
  ASSUME IInv, NEW m \in Messages, lines' = Append(lines, m), Unchanged, Busy, Moved(m),
         server' \in Servers, server'.session = server.session, m.session = server.session,
         server'.level = server.level,
         IF IsReply(m) THEN server.waiting /\ ~server'.waiting ELSE server'.waiting = server.waiting,
         m.kind = "ok" => pc \notin {"read", "verify"},
         m.kind = "snapshot" => m.level = server.level
  PROVE  IInv'
<1> DEFINE n == Len(lines) + 1
<1>1. /\ lines \in Seq(Messages) /\ server \in Servers /\ StreamInv /\ ReplyInv /\ HistoryInv
      /\ pc \notin {"launch", "end", "done"}
  BY DEF IInv, Typed, Busy
<1>2. /\ lines' \in Seq(Messages)
      /\ \A i \in DOMAIN lines' : i \in DOMAIN lines \/ i = n
      /\ \A i \in DOMAIN lines : i \in DOMAIN lines' /\ i < n /\ i \in Nat /\ lines'[i] = lines[i]
      /\ n \in DOMAIN lines' /\ lines'[n] = m /\ n \in Nat
  BY <1>1, AppendFacts
<1> HIDE DEF n
<1>3. /\ UNCHANGED <<run, log, events, pc, effort, recorded, late, timedOut, failed, exit, result>>
      /\ Busy'
  BY DEF Unchanged, Busy
<1>4. /\ \A i \in DOMAIN lines : OwnEnd(lines[i]) => server'.turn = server.turn /\ ~Event(m)
      /\ \A i \in DOMAIN lines : OwnStart(lines[i]) => m.turn = "own" /\ m.kind # "started"
      /\ (server.turn \in Ends => server'.turn = server.turn /\ ~Event(m))
      /\ (Began => Began' /\ m.turn = "own" /\ m.kind # "started")
      /\ (OwnEnd(m) => server'.turn = m.kind) /\ (OwnStart(m) => Began')
      /\ (Began' => Began \/ OwnStart(m))
  BY <1>1 DEF Moved, StreamInv, OwnEnd, OwnStart, Event, Began, Ends, None
<1>5. StreamInv'
  <2>1. \A i \in DOMAIN lines' : lines'[i].session = server'.session
    BY <1>1, <1>2 DEF StreamInv
  <2>2. \A i \in DOMAIN lines' : OwnEnd(lines'[i]) => server'.turn = lines'[i].kind
    BY <1>1, <1>2, <1>4 DEF StreamInv
  <2>3. \A i \in DOMAIN lines' : OwnStart(lines'[i]) => Began'
    BY <1>1, <1>2, <1>4 DEF StreamInv
  <2>4. \A i, j \in DOMAIN lines' : i < j /\ OwnEnd(lines'[i]) => ~Event(lines'[j])
    BY <1>1, <1>2, <1>4 DEF StreamInv
  <2>5. \A i, j \in DOMAIN lines' :
          i < j /\ OwnStart(lines'[i]) => lines'[j].turn = "own" /\ lines'[j].kind # "started"
    BY <1>1, <1>2, <1>4 DEF StreamInv
  <2>6. ASSUME Began'
        PROVE  \/ /\ log'.active = "own"
                  /\ \A i \in DOMAIN lines' : lines'[i].turn = "own" /\ lines'[i].kind # "started"
               \/ \E i \in DOMAIN lines' : OwnStart(lines'[i])
    <3>1. CASE OwnStart(m)
      BY <1>2, <3>1
    <3>2. CASE Began
      BY <1>1, <1>2, <1>3, <1>4, <3>2 DEF StreamInv
    <3> QED
      BY <1>4, <2>6, <3>1, <3>2
  <2> QED
    BY <2>1, <2>2, <2>3, <2>4, <2>5, <2>6 DEF StreamInv, OwnEnd, OwnStart, Event
<1>6. ReplyInv'
  BY <1>1, <1>2, <1>3, <1>4 DEF ReplyInv, IsReply, Servers
<1>7. Settled => Settled'
  BY <1>2, <1>3, <1>4 DEF Settled, Event
<1>8. HistoryInv'
  BY <1>1, <1>3, <1>7 DEF HistoryInv, OwnEnd
<1>9. EffortInv' /\ ResultInv'
  BY <1>1, <1>3, <1>4 DEF IInv, EffortInv, ResultInv, SuccessIsReal, OnRecord
<1>10. Typed'
  BY <1>2, <1>3 DEF IInv, Typed
<1> QED
  BY <1>5, <1>6, <1>8, <1>9, <1>10 DEF IInv

\* What the server says is a line of its session.
LEMMA SaidLine ==
  ASSUME Typed, NEW kind \in Kinds,
         NEW turn \in Turns, Say(kind, turn)
  PROVE  \E m \in Messages :
           /\ lines' = Append(lines, m) /\ m.kind = kind /\ m.turn = turn
           /\ m.session = server.session /\ (kind = "snapshot" => m.level = server.level)
<1> DEFINE level == IF kind = "snapshot" THEN server.level ELSE None
           m == Message(kind, turn, server.session, level)
<1>1. server \in Servers
  BY DEF Typed
<1>2. level \in Selections
  BY <1>1 DEF Servers, Selections, Levels
<1>3. server.session \in {"asked", "other"}
  BY <1>1 DEF Servers
<1>4. m \in Messages /\ m.kind = kind /\ m.turn = turn /\ m.session = server.session /\ m.level = level
  BY <1>2, <1>3 DEF Message, Messages, Kinds
<1>5. lines' = Append(lines, m)
  BY DEF Say
<1> QED
  BY <1>4, <1>5

LEMMA ReplyStep ==
  ASSUME IInv, NEW kind \in {"refusal", "ok", "snapshot"}, Reply(kind)
  PROVE  IInv'
<1>1. /\ Typed /\ server \in Servers /\ "own" \in Turns /\ server.events + 1 \in Nat
      /\ kind \in Kinds
  BY DEF IInv, Typed, Turns, Servers, Kinds
<1>2. PICK m \in Messages :
        /\ lines' = Append(lines, m) /\ m.kind = kind /\ m.turn = "own"
        /\ m.session = server.session /\ (kind = "snapshot" => m.level = server.level)
  BY <1>1, SaidLine DEF Reply
<1>3. /\ Unchanged /\ Busy /\ server.waiting
      /\ kind = "ok" => pc \notin {"read", "verify"}
  BY DEF Reply, Speaks
<1>4. /\ server' \in Servers /\ ~server'.waiting /\ server'.session = server.session
      /\ server'.level = server.level
      /\ server'.turn = server.turn \/ (server.turn = None /\ server'.turn = "sent")
  <2> DEFINE bad == server.bad \/ kind = "refusal"
             turn == IF pc = "send" /\ kind = "ok" /\ server.turn = None THEN "sent" ELSE server.turn
  <2>1. server' = [server EXCEPT !.waiting = FALSE, !.bad = bad, !.turn = turn]
    BY DEF Reply
  <2>2. bad \in BOOLEAN
    BY <1>1 DEF Servers
  <2>3. /\ turn \in {None, "sent", "started"} \cup Ends
        /\ turn = server.turn \/ (server.turn = None /\ turn = "sent")
    BY <1>1 DEF Servers
  <2> HIDE DEF bad, turn
  <2> QED
    BY <1>1, <2>1, <2>2, <2>3 DEF Servers
<1>5. Moved(m) /\ IsReply(m)
  BY <1>2, <1>4 DEF Moved, IsReply, Event, Ends
<1> QED
  BY <1>2, <1>3, <1>4, <1>5, SaidStep

LEMMA StartStep ==
  ASSUME IInv, Start
  PROVE  IInv'
<1>1. /\ Typed /\ server \in Servers /\ "own" \in Turns /\ server.events + 1 \in Nat
      /\ "started" \in Kinds
  BY DEF IInv, Typed, Turns, Servers, Kinds
<1>2. PICK m \in Messages :
        /\ lines' = Append(lines, m) /\ m.kind = "started" /\ m.turn = "own"
        /\ m.session = server.session
  BY <1>1, SaidLine DEF Start
<1>3. Unchanged /\ Busy /\ server.turn \in {None, "sent"}
  BY DEF Start, Speaks
<1>4. /\ server' \in Servers /\ server'.waiting = server.waiting
      /\ server'.session = server.session /\ server'.level = server.level
      /\ server'.turn = "started"
  BY <1>1 DEF Start, Servers
<1>5. Moved(m) /\ ~IsReply(m)
  BY <1>2, <1>3, <1>4 DEF Moved, IsReply, OwnStart, Began
<1> QED
  BY <1>2, <1>3, <1>4, <1>5, SaidStep

LEMMA EndStep ==
  ASSUME IInv, NEW kind \in Ends, End(kind)
  PROVE  IInv'
<1>1. /\ Typed /\ server \in Servers /\ "own" \in Turns /\ server.events + 1 \in Nat
      /\ kind \in Kinds
  BY DEF IInv, Typed, Turns, Servers, Kinds
<1>2. PICK m \in Messages :
        /\ lines' = Append(lines, m) /\ m.kind = kind /\ m.turn = "own"
        /\ m.session = server.session
  BY <1>1, SaidLine DEF End
<1>3. Unchanged /\ Busy /\ server.turn = "started"
  BY DEF End, Speaks
<1>4. /\ server' \in Servers /\ server'.waiting = server.waiting
      /\ server'.session = server.session /\ server'.level = server.level
      /\ server'.turn = kind
  BY <1>1 DEF End, Servers
<1>5. Moved(m) /\ ~IsReply(m) /\ m.kind \notin {"ok", "snapshot"}
  BY <1>2, <1>3, <1>4 DEF Moved, IsReply, OwnEnd, Ends
<1> QED
  BY <1>2, <1>3, <1>4, <1>5, SaidStep

LEMMA RepeatStep ==
  ASSUME IInv, NEW kind \in {"started"} \cup Ends, Repeat(kind)
  PROVE  IInv'
<1>1. /\ Typed /\ server \in Servers /\ "old" \in Turns /\ server.events + 1 \in Nat
      /\ kind \in Kinds
  BY DEF IInv, Typed, Turns, Servers, Kinds
<1>2. PICK m \in Messages :
        /\ lines' = Append(lines, m) /\ m.kind = kind /\ m.turn = "old"
        /\ m.session = server.session
  BY <1>1, SaidLine DEF Repeat
<1>3. Unchanged /\ Busy /\ server.turn \in {None, "sent"}
  BY DEF Repeat, Speaks
<1>4. /\ server' \in Servers /\ server'.waiting = server.waiting
      /\ server'.session = server.session /\ server'.level = server.level
      /\ server'.turn = server.turn
  <2> DEFINE bad == server.bad \/ kind \in {"failed", "unsuccessful"}
  <2>1. server' = [server EXCEPT !.events = @ + 1, !.bad = bad]
    BY DEF Repeat
  <2>2. bad \in BOOLEAN
    BY <1>1 DEF Servers
  <2> HIDE DEF bad
  <2> QED
    BY <1>1, <2>1, <2>2 DEF Servers
<1>5. Moved(m) /\ ~IsReply(m) /\ m.kind \notin {"ok", "snapshot"}
  BY <1>2, <1>3, <1>4 DEF Moved, IsReply, Event, Began, Ends
<1> QED
  BY <1>2, <1>3, <1>4, <1>5, SaidStep

LEMMA AsksStep ==
  ASSUME IInv, Asks
  PROVE  IInv'
<1>1. /\ Typed /\ server \in Servers /\ "own" \in Turns /\ server.events + 1 \in Nat
      /\ "asks" \in Kinds
  BY DEF IInv, Typed, Turns, Servers, Kinds
<1>2. PICK m \in Messages :
        /\ lines' = Append(lines, m) /\ m.kind = "asks" /\ m.turn = "own"
        /\ m.session = server.session
  BY <1>1, SaidLine DEF Asks
<1>3. Unchanged /\ Busy
  BY DEF Asks, Speaks
<1>4. /\ server' \in Servers /\ server'.waiting = server.waiting
      /\ server'.session = server.session /\ server'.level = server.level
      /\ server'.turn = server.turn
  BY <1>1 DEF Asks, Servers
<1>5. Moved(m) /\ ~IsReply(m)
  BY <1>2, <1>4 DEF Moved, IsReply, Event, Ends
<1> QED
  BY <1>2, <1>3, <1>4, <1>5, SaidStep

\* A new selection in the middle of the turn, an exit and the deadline say nothing.
LEMMA SilentStep ==
  ASSUME IInv,
         \/ \E level \in Selections : Reselect(level)
         \/ \E code \in {0, 1} : Exit(code)
         \/ Tick
  PROVE  IInv'
<1>1. server \in Servers /\ late \in BOOLEAN
  BY DEF IInv, Typed
<1>2. /\ UNCHANGED <<run, lines, log, events, pc, effort, recorded, timedOut, failed, exit, result>>
      /\ late' \in BOOLEAN
  BY <1>1 DEF Reselect, Exit, Tick, Unchanged
<1>3. /\ server' \in Servers /\ server'.waiting = server.waiting
      /\ server'.session = server.session /\ server'.turn = server.turn
      /\ server'.level = server.level \/ (server.turn = "started" /\ Busy)
  <2>1. CASE \E level \in Selections : Reselect(level)
    <3>1. PICK level \in Selections : Reselect(level)
      BY <2>1
    <3>2. server' = [server EXCEPT !.level = level, !.bad = TRUE] /\ server.turn = "started" /\ Busy
      BY <3>1 DEF Reselect, Speaks
    <3> QED
      BY <1>1, <3>2 DEF Servers
  <2>2. CASE \E code \in {0, 1} : Exit(code)
    <3>1. PICK code \in {0, 1} : Exit(code)
      BY <2>2
    <3> DEFINE bad == server.bad \/ pc # "end"
    <3>2. server' = [server EXCEPT !.state = "gone", !.code = code, !.bad = bad]
      BY <3>1 DEF Exit
    <3>3. bad \in BOOLEAN
      BY <1>1 DEF Servers
    <3> HIDE DEF bad
    <3> QED
      BY <1>1, <3>2, <3>3 DEF Servers
  <2>3. CASE Tick
    BY <1>1, <2>3 DEF Tick
  <2> QED
    BY <2>1, <2>2, <2>3
<1>4. Typed'
  BY <1>2, <1>3 DEF IInv, Typed
<1>5. StreamInv'
  BY <1>2, <1>3 DEF IInv, StreamInv, Busy, Began, OwnEnd, OwnStart, Event
<1>6. ReplyInv'
  <2>1. pc = "verify" => server'.level = server.level
    BY <1>3 DEF IInv, HistoryInv, Settled, Ends
  <2> QED
    BY <1>2, <1>3, <2>1 DEF IInv, ReplyInv, IsReply, Began, None
<1>7. HistoryInv'
  BY <1>2, <1>3 DEF IInv, HistoryInv, Settled, OwnEnd, Event
<1>8. EffortInv' /\ ResultInv'
  BY <1>2, <1>3 DEF IInv, EffortInv, ResultInv, SuccessIsReal, OnRecord, Busy, Began, None
<1> QED
  BY <1>4, <1>5, <1>6, <1>7, <1>8 DEF IInv

LEMMA ServerStepKeeps ==
  ASSUME IInv, ServerStep
  PROVE  IInv'
BY ReplyStep, StartStep, EndStep, RepeatStep, AsksStep, SilentStep DEF ServerStep

-----------------------------------------------------------------------------
(* The parse *)

\* What a line tells the parse of the own turn.
LEMMA ParsedFacts ==
  ASSUME NEW l \in Logs, NEW m \in Messages
  PROVE  /\ Parsed(l, m) \in Logs
         /\ Parsed(l, m).active = IF m.kind = "started" THEN m.turn ELSE l.active
         /\ ~Event(m) => /\ Parsed(l, m).err = l.err /\ Parsed(l, m).terminal = l.terminal
                         /\ Parsed(l, m).completed = l.completed
         /\ OwnEnd(m) /\ l.active = "own" =>
              /\ m.kind \in {"failed", "unsuccessful"} => Parsed(l, m).err
              /\ m.kind = "blank" => Parsed(l, m).terminal = None
              /\ m.kind = "completed" => Parsed(l, m).completed /\ Parsed(l, m).terminal # None
<1> DEFINE Name(k) == Named(k, m.session)
<1>1. ASSUME NEW k \in Logs
      PROVE  /\ Name(k) \in Logs /\ Name(k).active = k.active /\ Name(k).err = k.err
             /\ Name(k).terminal = k.terminal /\ Name(k).completed = k.completed
  <2> DEFINE conflict == k.conflict \/ k.session \notin {None, m.session}
  <2>1. Name(k) = [k EXCEPT !.session = m.session, !.conflict = conflict]
    BY DEF Named
  <2>2. conflict \in BOOLEAN /\ m.session \in {"asked", "other"}
    BY DEF Logs, Messages
  <2> HIDE DEF conflict, Name
  <2> QED
    BY <2>1, <2>2 DEF Logs
<1>2. m.turn \in Turns
  BY DEF Messages
<1>3. CASE m.kind = "snapshot"
  <2>1. Parsed(l, m) = [Name(l) EXCEPT !.snapshot = TRUE]
    BY <1>3 DEF Parsed, Ends
  <2> HIDE DEF Name
  <2> QED
    BY <1>1, <1>3, <2>1 DEF Logs, Event, OwnEnd, Ends
<1>4. CASE m.kind = "started"
  <2>1. Parsed(l, m) = Name([l EXCEPT !.active = m.turn])
    BY <1>4 DEF Parsed, Ends
  <2>2. [l EXCEPT !.active = m.turn] \in Logs /\ [l EXCEPT !.active = m.turn].active = m.turn
    BY <1>2 DEF Logs
  <2> HIDE DEF Name
  <2> QED
    BY <1>1, <1>4, <2>1, <2>2 DEF Event, OwnEnd, Ends
<1>5. CASE m.kind \in Ends
  <2> DEFINE err == Name(l).err \/ m.kind \in {"failed", "unsuccessful"}
             completed == Name(l).completed \/ m.kind # "failed"
             seen == IF Passed(l, m) THEN l
                     ELSE [Name(l) EXCEPT !.err = err, !.completed = completed]
             terminal == IF m.kind = "blank" THEN None ELSE m.turn
  <2>1. Parsed(l, m) = IF m.kind = "failed" THEN seen ELSE [seen EXCEPT !.terminal = terminal]
    BY <1>5 DEF Parsed, Ends
  <2>2. err \in BOOLEAN /\ completed \in BOOLEAN
    BY <1>1 DEF Logs
  <2>3. /\ terminal \in Turns \cup {None} /\ (m.kind = "blank" => terminal = None)
        /\ m.kind # "blank" => terminal # None
    BY <1>2 DEF Turns, None
  <2>4. (m.kind \in {"failed", "unsuccessful"} => err) /\ (m.kind # "failed" => completed)
    OBVIOUS
  <2>5. OwnEnd(m) /\ l.active = "own" => ~Passed(l, m)
    BY DEF OwnEnd, Passed
  <2> HIDE DEF Name, err, completed, terminal
  <2>6. /\ seen \in Logs /\ seen.active = l.active
        /\ OwnEnd(m) /\ l.active = "own" /\ m.kind \in {"failed", "unsuccessful"} => seen.err
        /\ OwnEnd(m) /\ l.active = "own" /\ m.kind # "failed" => seen.completed
    BY ZenonT(40), <1>1, <2>2, <2>4, <2>5 DEF Logs
  <2> HIDE DEF seen
  <2> QED
    BY <1>5, <2>1, <2>3, <2>6 DEF Logs, Event, Ends
<1>6. CASE m.kind \in {"refusal", "ok", "asks"}
  BY <1>6 DEF Parsed, Event, OwnEnd, Ends
<1> QED
  BY <1>3, <1>4, <1>5, <1>6 DEF Messages

-----------------------------------------------------------------------------
(* AOP's steps *)

\* The ways on from a line: giving up, the four answers that lead to the next request or
\* the wait, the last check, and an event that is kept.
Refused(m) ==
  failed' = TRUE /\ pc' = "end" /\ events' = <<>> /\ UNCHANGED <<server, effort, recorded>>
Asked(from, next) ==
  /\ pc \in from /\ pc' = next /\ server' = [server EXCEPT !.waiting = TRUE]
  /\ UNCHANGED failed
Selected(m) ==
  /\ Asked({"open", "read"}, "subscribe") /\ m.kind = "snapshot" /\ m.session = "asked"
  /\ m.level # "unfit" /\ (run.effort # None => m.level = run.effort)
  /\ effort' = m.level /\ recorded' = m.level /\ UNCHANGED events
Created(m) == Asked({"open"}, "read") /\ UNCHANGED <<effort, recorded, events>>
Subscribed(m) == Asked({"subscribe"}, "send") /\ events' = <<>> /\ UNCHANGED <<effort, recorded>>
Sent(m) == pc = "send" /\ pc' = "turn" /\ UNCHANGED <<server, effort, recorded, events, failed>>
Checked(m) ==
  /\ pc = "verify" /\ pc' = "end" /\ m.kind = "snapshot"
  /\ m.level # "unfit" /\ effort' = m.level /\ (effort # None => m.level = effort)
  /\ UNCHANGED <<server, recorded, events, failed>>
Led(m) == Selected(m) \/ Created(m) \/ Subscribed(m) \/ Sent(m) \/ Checked(m)
Kept(m) ==
  Event(m) /\ events' = Append(events, m) /\ UNCHANGED <<server, pc, effort, recorded, failed>>

LEMMA ReceiveOutcome ==
  ASSUME IInv, Receive
  PROVE  /\ Head(lines) \in Messages /\ Busy /\ lines # <<>> /\ lines \in Seq(Messages)
         /\ log' = Parsed(log, Head(lines)) /\ lines' = IF pc' = "end" THEN <<>> ELSE Tail(lines)
         /\ UNCHANGED <<run, late, timedOut, exit, result>>
         /\ \/ Refused(Head(lines))
            \/ IsReply(Head(lines)) /\ Led(Head(lines))
            \/ Kept(Head(lines))
<1> DEFINE m == Head(lines)
<1>1. /\ lines \in Seq(Messages) /\ lines # <<>> /\ m \in Messages /\ 1 \in DOMAIN lines
      /\ m = lines[1]
  BY DEF IInv, Typed, Receive
<1>2. /\ pc = "turn" => ~IsReply(m)
      /\ pc \in {"read", "verify"} => m.kind # "ok"
      /\ pc # "launch" /\ Busy
  BY <1>1 DEF IInv, ReplyInv, Receive, Busy
<1> HIDE DEF m
<1>3. CASE IsReply(m)
  <2>1. Answered(m)
    BY <1>3 DEF Receive, IsReply, m
  <2>2. ASSUME Fail PROVE Refused(m)
    BY <2>2 DEF Fail, Refused
  <2>3. ASSUME m.kind = "snapshot", pc \in {"open", "read"}, Verified(m), Opened(m)
        PROVE  Selected(m)
    BY <2>3 DEF Opened, Verified, Ask, Selected, Asked
  <2>4. ASSUME pc = "open", Ask("read"), UNCHANGED <<effort, recorded, events, failed>>
        PROVE  Created(m)
    BY <2>4 DEF Ask, Created, Asked
  <2>5. ASSUME pc = "subscribe", Ask("send"), events' = <<>>, UNCHANGED <<effort, recorded, failed>>
        PROVE  Subscribed(m)
    BY <2>5 DEF Ask, Subscribed, Asked
  <2>6. ASSUME pc = "send", GoOn("turn"), UNCHANGED <<effort, recorded, events, failed>>
        PROVE  Sent(m)
    BY <2>6 DEF GoOn, Sent
  <2>7. ASSUME pc = "verify", m.kind # "refusal", Verified(m), GoOn("end"), effort' = m.level,
               UNCHANGED <<recorded, events, failed>>
        PROVE  Checked(m)
    BY <1>2, <1>3, <2>7 DEF Verified, GoOn, Checked, IsReply
  <2>8. Refused(m) \/ Led(m)
    BY <2>1, <2>2, <2>3, <2>4, <2>5, <2>6, <2>7 DEF Answered, Led
  <2> QED
    BY <1>1, <1>2, <1>3, <2>8 DEF Receive, m
<1>4. CASE m.kind = "asks"
  BY <1>1, <1>2, <1>4 DEF Receive, Fail, Refused, m
<1>5. CASE ~IsReply(m) /\ m.kind # "asks"
  <2>1. Event(m)
    BY <1>1, <1>5 DEF Messages, IsReply, Event
  <2> QED
    BY <1>1, <1>2, <1>5, <2>1 DEF Receive, IsReply, Kept, m
<1> QED
  BY <1>3, <1>4, <1>5

\* What is left of the lines when one has been taken.
LEMMA TakenFacts ==
  ASSUME lines \in Seq(Messages), lines # <<>>, lines' = IF pc' = "end" THEN <<>> ELSE Tail(lines)
  PROVE  /\ lines' \in Seq(Messages) /\ 1 \in DOMAIN lines /\ Head(lines) = lines[1]
         /\ pc' = "end" => DOMAIN lines' = {}
         /\ \A i \in DOMAIN lines' :
              i \in Nat \ {0} /\ i + 1 \in DOMAIN lines /\ lines'[i] = lines[i + 1] /\ 1 < i + 1
         /\ pc' # "end" => \A i \in DOMAIN lines : i # 1 => i - 1 \in DOMAIN lines' /\ lines'[i - 1] = lines[i]
<1>1. CASE pc' = "end"
  <2>1. lines' = <<>>
    BY <1>1
  <2> QED
    BY <1>1, <2>1, EmptySeq
<1>2. CASE pc' # "end"
  <2>1. lines' = Tail(lines)
    BY <1>2
  <2> DEFINE s == Tail(lines)
  <2>2. Len(lines) \in Nat \ {0} /\ Len(s) = Len(lines) - 1 /\ s \in Seq(Messages)
    OBVIOUS
  <2>3. Len(lines) \in Nat \ {0} /\ Len(lines') = Len(lines) - 1 /\ lines' \in Seq(Messages)
    BY <2>2, <2>1
  <2>4. \A i \in 1..Len(s) : i + 1 \in 1..Len(lines) /\ s[i] = lines[i + 1]
    BY <2>2
  <2>5. \A i \in 1..Len(lines') : i + 1 \in 1..Len(lines) /\ lines'[i] = lines[i + 1]
    BY <2>1, <2>4
  <2>6. \A n, k \in Nat : k = n - 1 => \A i \in 1..n : i # 1 => i - 1 \in 1..k /\ (i - 1) + 1 = i
    OBVIOUS
  <2>7. \A i \in 1..Len(lines) : i # 1 => i - 1 \in 1..Len(lines') /\ (i - 1) + 1 = i
    BY <2>3, <2>6, LenProperties
  <2> QED
    BY <1>2, <2>1, <2>3, <2>5, <2>7
<1> QED
  BY <1>1, <1>2

LEMMA ReceiveStream ==
  ASSUME IInv, Receive
  PROVE  StreamInv'
<1> DEFINE m == Head(lines)
<1>1. /\ m \in Messages /\ Busy /\ lines # <<>> /\ lines \in Seq(Messages)
      /\ log' = Parsed(log, m) /\ lines' = IF pc' = "end" THEN <<>> ELSE Tail(lines)
  BY ReceiveOutcome
<1>2. server'.turn = server.turn /\ server'.session = server.session
  <2>1. server \in Servers
    BY DEF IInv, Typed
  <2> QED
    BY <2>1, ReceiveOutcome
       DEF Servers, Refused, Led, Selected, Created, Subscribed, Sent, Checked, Kept, Asked
<1>3. /\ lines' \in Seq(Messages) /\ 1 \in DOMAIN lines /\ m = lines[1]
      /\ pc' = "end" => DOMAIN lines' = {}
      /\ \A i \in DOMAIN lines' :
           i \in Nat \ {0} /\ i + 1 \in DOMAIN lines /\ lines'[i] = lines[i + 1] /\ 1 < i + 1
      /\ pc' # "end" => \A i \in DOMAIN lines : i # 1 => i - 1 \in DOMAIN lines' /\ lines'[i - 1] = lines[i]
  BY <1>1, TakenFacts
<1>4. StreamInv /\ log \in Logs
  BY DEF IInv, Typed
<1>5. log'.active = IF m.kind = "started" THEN m.turn ELSE log.active
  BY <1>1, <1>4, ParsedFacts
<1> HIDE DEF m
<1>6. /\ \A i \in DOMAIN lines' : lines'[i].session = server'.session
      /\ \A i \in DOMAIN lines' : OwnEnd(lines'[i]) => server'.turn = lines'[i].kind
      /\ \A i \in DOMAIN lines' : OwnStart(lines'[i]) => Began'
  BY <1>2, <1>3, <1>4 DEF StreamInv, Began
<1>7. ASSUME NEW i \in DOMAIN lines', NEW j \in DOMAIN lines', i < j
      PROVE  /\ OwnEnd(lines'[i]) => ~Event(lines'[j])
             /\ OwnStart(lines'[i]) => lines'[j].turn = "own" /\ lines'[j].kind # "started"
  <2>1. i + 1 \in DOMAIN lines /\ j + 1 \in DOMAIN lines /\ i + 1 < j + 1
    BY <1>3, <1>7
  <2> QED
    BY <1>3, <1>4, <2>1 DEF StreamInv
<1>8. ASSUME Busy', Began'
      PROVE  \/ /\ log'.active = "own"
                /\ \A i \in DOMAIN lines' : lines'[i].turn = "own" /\ lines'[i].kind # "started"
             \/ \E i \in DOMAIN lines' : OwnStart(lines'[i])
  <2>1. Began /\ pc' # "end"
    BY <1>2, <1>8 DEF Began, Busy
  <2>2. CASE OwnStart(m)
    <3>1. \A i \in DOMAIN lines' : lines'[i].turn = "own" /\ lines'[i].kind # "started"
      BY <1>3, <1>4, <2>2 DEF StreamInv
    <3> QED
      BY <1>5, <2>2, <3>1 DEF OwnStart
  <2>3. CASE ~OwnStart(m) /\ \E i \in DOMAIN lines : OwnStart(lines[i])
    <3>1. PICK i \in DOMAIN lines : OwnStart(lines[i])
      BY <2>3
    <3>2. i # 1
      BY <1>3, <2>3, <3>1
    <3>3. i - 1 \in DOMAIN lines' /\ OwnStart(lines'[i - 1])
      BY <1>3, <2>1, <3>1, <3>2
    <3> QED
      BY <3>3
  <2>4. CASE /\ log.active = "own"
             /\ \A i \in DOMAIN lines : lines[i].turn = "own" /\ lines[i].kind # "started"
    BY <1>3, <1>5, <2>4
  <2> QED
    BY <1>1, <1>4, <2>1, <2>2, <2>3, <2>4 DEF StreamInv
<1> QED
  BY <1>6, <1>7, <1>8 DEF StreamInv, OwnEnd, OwnStart, Event

LEMMA ReceiveReply ==
  ASSUME IInv, Receive
  PROVE  ReplyInv'
<1> DEFINE m == Head(lines)
<1>1. /\ Busy /\ lines # <<>> /\ lines \in Seq(Messages)
      /\ lines' = IF pc' = "end" THEN <<>> ELSE Tail(lines)
      /\ \/ Refused(m) \/ Kept(m)
         \/ IsReply(m) /\ Led(m)
  BY ReceiveOutcome
<1>2. /\ 1 \in DOMAIN lines /\ m = lines[1] /\ (pc' = "end" => DOMAIN lines' = {})
      /\ \A i \in DOMAIN lines' :
           i \in Nat \ {0} /\ i + 1 \in DOMAIN lines /\ lines'[i] = lines[i + 1] /\ 1 < i + 1
  BY <1>1, TakenFacts
<1>3. ReplyInv /\ server \in Servers
  BY DEF IInv, Typed
<1> HIDE DEF m
<1>4. /\ server'.level = server.level /\ server'.turn = server.turn
      /\ server'.waiting \in {TRUE, server.waiting}
  BY <1>1, <1>3 DEF Servers, Refused, Led, Selected, Created, Subscribed, Sent, Checked, Kept, Asked
<1>5. IsReply(m) => ~server.waiting /\ \A i \in DOMAIN lines' : ~IsReply(lines'[i])
  <2>1. ASSUME IsReply(m), NEW i \in DOMAIN lines', IsReply(lines'[i])
        PROVE  FALSE
    <3>1. i + 1 \in DOMAIN lines /\ IsReply(lines[i + 1]) /\ i + 1 # 1
      BY <1>2, <2>1
    <3> QED
      BY <1>2, <1>3, <2>1, <3>1 DEF ReplyInv
  <2> QED
    BY <1>2, <1>3, <2>1 DEF ReplyInv
<1>6. \A i, j \in DOMAIN lines' : IsReply(lines'[i]) /\ IsReply(lines'[j]) => i = j
  <2>1. ASSUME NEW i \in DOMAIN lines', NEW j \in DOMAIN lines', IsReply(lines'[i]), IsReply(lines'[j])
        PROVE  i = j
    <3>1. i + 1 \in DOMAIN lines /\ j + 1 \in DOMAIN lines /\ i + 1 = j + 1
      BY <1>2, <1>3, <2>1 DEF ReplyInv
    <3> QED
      BY <1>2, <3>1
  <2> QED
    BY <2>1
<1>7. \A i \in DOMAIN lines' :
        lines'[i].kind = "snapshot" => lines'[i].level = server'.level \/ Began'
  BY <1>2, <1>3, <1>4 DEF ReplyInv, Began
<1>8. CASE pc' = "end"
  BY <1>2, <1>8 DEF ReplyInv
<1>9. CASE IsReply(m) /\ pc' # "end"
  <2>1. pc' \in {"read", "subscribe", "send", "turn"} /\ (pc' = "turn" => server' = server)
    BY <1>1, <1>9
       DEF Refused, Led, Selected, Created, Subscribed, Sent, Checked, Kept, Asked, IsReply, Event, Ends
  <2>2. \A i \in DOMAIN lines' : ~IsReply(lines'[i]) /\ lines'[i].kind \notin {"ok", "snapshot"}
    BY <1>5, <1>9 DEF IsReply
  <2> QED
    BY <1>5, <1>9, <2>1, <2>2 DEF ReplyInv, IsReply
<1>10. CASE Kept(m) /\ pc' # "end"
  <2>1. pc' = pc /\ server' = server /\ pc # "launch"
    BY <1>1, <1>10 DEF Kept, Busy
  <2> QED
    BY <1>2, <1>3, <1>6, <1>7, <2>1 DEF ReplyInv, IsReply
<1> QED
  BY <1>1, <1>8, <1>9, <1>10 DEF Refused

LEMMA ReceiveHistory ==
  ASSUME IInv, Receive
  PROVE  HistoryInv'
<1> DEFINE m == Head(lines)
<1>1. /\ m \in Messages /\ Busy /\ lines # <<>> /\ lines \in Seq(Messages)
      /\ log' = Parsed(log, m) /\ lines' = IF pc' = "end" THEN <<>> ELSE Tail(lines)
      /\ timedOut' = timedOut
      /\ Refused(m) \/ Kept(m) \/ (IsReply(m) /\ Led(m))
  BY ReceiveOutcome
<1>2. /\ 1 \in DOMAIN lines /\ m = lines[1]
      /\ \A i \in DOMAIN lines' : i + 1 \in DOMAIN lines /\ lines'[i] = lines[i + 1] /\ 1 < i + 1
  BY <1>1, TakenFacts
<1>3. /\ StreamInv /\ HistoryInv /\ log \in Logs /\ server \in Servers
      /\ events \in Seq(Messages)
  BY DEF IInv, Typed
<1>4. /\ ~Event(m) => /\ log'.err = log.err /\ log'.terminal = log.terminal
                      /\ log'.completed = log.completed
      /\ OwnEnd(m) /\ log.active = "own" =>
           /\ m.kind \in {"failed", "unsuccessful"} => log'.err
           /\ m.kind = "blank" => log'.terminal = None
           /\ m.kind = "completed" => log'.completed /\ log'.terminal # None
  BY <1>1, <1>3, ParsedFacts
<1> HIDE DEF m
<1>5. server'.turn = server.turn
  BY <1>1, <1>3 DEF Servers, Refused, Led, Selected, Created, Subscribed, Sent, Checked, Kept, Asked
\* Once it is settled, nothing but answers is left, and those change nothing.
<1>6. Settled => ~Event(m) /\ Settled'
  <2>1. ASSUME Settled PROVE ~Event(m) /\ Settled'
    BY <1>2, <1>4, <1>5, <2>1 DEF Settled, Event
  <2> QED
    BY <2>1
\* The line that settles it.
<1>7. ASSUME OwnEnd(m) PROVE Settled'
  <2>1. server.turn = m.kind /\ server.turn \in Ends /\ Began
    BY <1>2, <1>3, <1>7 DEF StreamInv, OwnEnd, Ends, Began, None
  <2>2. ASSUME NEW i \in DOMAIN lines, OwnStart(lines[i]) PROVE FALSE
    <3>1. i \in Nat \ {0} /\ i # 1
      BY <1>1, <1>2, <1>7, <2>2 DEF OwnStart, OwnEnd, Ends
    <3> QED
      BY <1>2, <1>3, <1>7, <2>2, <3>1 DEF StreamInv, OwnStart, Event
  <2>3. log.active = "own"
    BY <1>1, <1>3, <2>1, <2>2 DEF StreamInv
  <2>4. \A i \in DOMAIN lines' : ~Event(lines'[i])
    BY <1>2, <1>3, <1>7 DEF StreamInv
  <2> QED
    BY <1>4, <1>5, <1>7, <2>1, <2>3, <2>4 DEF Settled, Event
<1>8. CASE Refused(m)
  <2>1. DOMAIN events' = {}
    BY <1>8, EmptySeq DEF Refused
  <2> QED
    BY <1>8, <2>1 DEF Refused, HistoryInv
<1>9. CASE Kept(m)
  <2>1. /\ events' = Append(events, m) /\ UNCHANGED <<pc, failed>> /\ Event(m)
    BY <1>9 DEF Kept
  <2>2. \A i \in DOMAIN events' : OwnEnd(events'[i]) => Settled'
    <3>1. /\ \A i \in DOMAIN events' : i \in DOMAIN events \/ i = Len(events) + 1
          /\ \A i \in DOMAIN events : events'[i] = events[i]
          /\ events'[Len(events) + 1] = m
      BY <1>1, <1>3, <2>1, AppendFacts
    <3> QED
      BY <1>3, <1>6, <1>7, <3>1 DEF HistoryInv
  <2> QED
    BY <1>1, <1>3, <1>6, <2>1, <2>2 DEF HistoryInv, OwnEnd
<1>10. CASE IsReply(m) /\ Led(m)
  <2>1. \A i \in DOMAIN events' : i \in DOMAIN events /\ events'[i] = events[i]
    <3>1. CASE events' = events
      BY <3>1
    <3>2. CASE events' = <<>>
      BY <3>2, EmptySeq
    <3> QED
      BY <1>10, <3>1, <3>2 DEF Led, Selected, Created, Subscribed, Sent, Checked
  <2>2. /\ pc' = "end" => pc = "verify"
        /\ pc' # "verify"
    BY <1>10 DEF Led, Selected, Created, Subscribed, Sent, Checked, Asked
  <2> QED
    BY <1>3, <1>6, <2>1, <2>2 DEF HistoryInv, OwnEnd
<1> QED
  BY <1>1, <1>8, <1>9, <1>10

LEMMA ReceiveStep ==
  ASSUME IInv, Receive
  PROVE  IInv'
<1> DEFINE m == Head(lines)
<1>1. /\ m \in Messages /\ Busy /\ lines # <<>> /\ lines \in Seq(Messages)
      /\ log' = Parsed(log, m) /\ lines' = IF pc' = "end" THEN <<>> ELSE Tail(lines)
      /\ UNCHANGED <<run, late, timedOut, exit, result>>
      /\ Refused(m) \/ Kept(m) \/ (IsReply(m) /\ Led(m))
  BY ReceiveOutcome
<1>2. lines' \in Seq(Messages) /\ 1 \in DOMAIN lines /\ m = lines[1]
  BY <1>1, TakenFacts
<1>3. Typed /\ ReplyInv /\ HistoryInv /\ EffortInv /\ ResultInv /\ StreamInv
  BY DEF IInv
<1>4. log' \in Logs
  BY <1>1, <1>3, ParsedFacts DEF Typed
<1>5. m.kind = "snapshot" =>
        m.session = server.session /\ (m.level = server.level \/ Began)
  BY <1>2, <1>3 DEF ReplyInv, StreamInv
<1>6. pc = "verify" /\ m.kind = "snapshot" => m.level = server.level
  BY <1>2, <1>3 DEF ReplyInv
<1> HIDE DEF m
<1>7. /\ server' \in Servers /\ server'.level = server.level
      /\ server'.session = server.session /\ server'.turn = server.turn
  BY <1>1, <1>3
     DEF Typed, Servers, Refused, Led, Selected, Created, Subscribed, Sent, Checked, Kept, Asked
<1>8. events' \in Seq(Messages)
  <2>1. events \in Seq(Messages) /\ Append(events, m) \in Seq(Messages) /\ <<>> \in Seq(Messages)
    BY <1>1, <1>3 DEF Typed
  <2> QED
    BY <1>1, <2>1 DEF Refused, Led, Selected, Created, Subscribed, Sent, Checked, Kept
<1>9. /\ failed' \in BOOLEAN /\ pc' \in Places /\ effort' \in Levels /\ recorded' \in Levels
      /\ pc' # "done" /\ pc # "done"
  <2>1. m.level # "unfit" => m.level \in Levels
    BY <1>1 DEF Messages, Selections
  <2> QED
    BY <1>1, <1>3, <1>5, <2>1
       DEF Typed, Places, Busy, Refused, Led, Selected, Created, Subscribed, Sent, Checked, Kept, Asked
<1>10. Typed'
  BY <1>1, <1>2, <1>3, <1>4, <1>7, <1>8, <1>9 DEF Typed
<1>11. EffortInv'
  <2>1. CASE Refused(m)
    BY <2>1 DEF Refused, EffortInv
  <2>2. CASE Kept(m)
    BY <1>1, <1>3, <1>7, <2>2 DEF Kept, EffortInv, Began
  <2>3. CASE Selected(m)
    BY <1>1, <1>5, <1>7, <2>3 DEF Selected, Asked, EffortInv, Began
  <2>4. CASE Created(m)
    BY <2>4 DEF Created, Asked, EffortInv
  <2>5. CASE Subscribed(m) \/ Sent(m)
    BY <1>1, <1>3, <1>7, <2>5 DEF Subscribed, Sent, Asked, EffortInv, Began
  <2>6. CASE Checked(m)
    BY <1>1, <1>3, <1>6, <1>7, <2>6 DEF Checked, EffortInv
  <2> QED
    BY <1>1, <2>1, <2>2, <2>3, <2>4, <2>5, <2>6 DEF Led
<1>12. ResultInv'
  BY <1>1, <1>3, <1>9, <1>11 DEF ResultInv, SuccessIsReal, OnRecord, EffortInv
<1> QED
  BY <1>10, <1>11, <1>12, ReceiveStream, ReceiveReply, ReceiveHistory DEF IInv

LEMMA LaunchStep ==
  ASSUME IInv, Launch
  PROVE  IInv'
<1>1. /\ UNCHANGED <<run, lines, log, events, effort, recorded, late, timedOut, failed, exit, result>>
      /\ pc = "launch" /\ pc' = "open"
  BY DEF Launch
<1>2. /\ server' \in Servers /\ server'.turn = server.turn /\ server'.session = server.session
  BY DEF IInv, Typed, Launch, Servers
<1>3. DOMAIN lines = {} /\ DOMAIN events = {} /\ ~Began
  BY <1>1 DEF IInv, ReplyInv
<1>4. Typed'
  BY <1>1, <1>2 DEF IInv, Typed, Places
<1>5. StreamInv' /\ ReplyInv' /\ HistoryInv' /\ EffortInv'
  BY <1>1, <1>2, <1>3 DEF StreamInv, ReplyInv, HistoryInv, EffortInv, Began
<1>6. ResultInv'
  BY <1>1 DEF IInv, ResultInv, SuccessIsReal, OnRecord
<1> QED
  BY <1>4, <1>5, <1>6 DEF IInv

LEMMA LookStep ==
  ASSUME IInv, Look
  PROVE  IInv'
<1> DEFINE m == Head(events)
<1>1. /\ pc = "turn" /\ events # <<>> /\ events \in Seq(Messages) /\ events' = Tail(events)
      /\ UNCHANGED <<run, lines, log, effort, recorded, late, timedOut, exit, result>>
      /\ server \in Servers /\ failed \in BOOLEAN
  BY DEF IInv, Typed, Look
<1>2. /\ events' \in Seq(Messages) /\ 1 \in DOMAIN events /\ m = events[1]
      /\ \A i \in DOMAIN events' : i + 1 \in DOMAIN events /\ events'[i] = events[i + 1]
  <2>1. Len(events) \in Nat \ {0} /\ Len(events') = Len(events) - 1 /\ events' \in Seq(Messages)
    BY <1>1
  <2>2. \A i \in 1..Len(events') : i + 1 \in 1..Len(events) /\ events'[i] = events[i + 1]
    BY <1>1, <2>1
  <2> QED
    BY <1>1, <2>1, <2>2
<1> HIDE DEF m
<1>3. \/ failed' = TRUE /\ pc' = "end" /\ server' = server
      \/ OwnEnd(m) /\ failed' = failed /\ pc' = "verify" /\ server' = [server EXCEPT !.waiting = TRUE]
      \/ failed' = failed /\ pc' = pc /\ server' = server
  <2>1. CASE m.session # "asked"
    BY <2>1 DEF Look, GoOn, m
  <2>2. CASE m.session = "asked" /\ m.kind \in Ends /\ m.turn = "own"
    BY <2>2 DEF Look, Ask, OwnEnd, m
  <2>3. CASE m.session = "asked" /\ ~(m.kind \in Ends /\ m.turn = "own")
    BY <2>3 DEF Look, m
  <2> QED
    BY <2>1, <2>2, <2>3
<1>4. /\ server' \in Servers /\ server'.turn = server.turn /\ server'.session = server.session
      /\ server'.level = server.level /\ failed' \in BOOLEAN
  BY <1>1, <1>3 DEF Servers
<1>5. Typed'
  BY <1>1, <1>2, <1>3, <1>4 DEF IInv, Typed, Places
<1>6. StreamInv'
  BY <1>1, <1>4 DEF IInv, StreamInv, Busy, Began, OwnEnd, OwnStart, Event
<1>7. ReplyInv'
  <2>1. \A i \in DOMAIN lines : ~IsReply(lines[i]) /\ lines[i].kind \notin {"ok", "snapshot"}
    BY <1>1 DEF IInv, ReplyInv, IsReply
  <2> QED
    BY <1>1, <1>3, <2>1 DEF IInv, ReplyInv, IsReply
<1>8. HistoryInv'
  <2>1. OwnEnd(m) => Settled
    BY <1>2 DEF IInv, HistoryInv
  <2>2. Settled => Settled'
    BY <1>1, <1>4 DEF Settled, Event
  <2>3. \A i \in DOMAIN events' : OwnEnd(events'[i]) => Settled'
    BY <1>2, <2>2 DEF IInv, HistoryInv
  <2> QED
    BY <1>1, <1>3, <2>1, <2>2, <2>3 DEF HistoryInv, OwnEnd
<1>9. EffortInv'
  BY <1>1, <1>3, <1>4 DEF IInv, EffortInv, Began
<1>10. ResultInv'
  BY <1>1, <1>3, <1>9 DEF IInv, ResultInv, SuccessIsReal, OnRecord, EffortInv
<1> QED
  BY <1>5, <1>6, <1>7, <1>8, <1>9, <1>10 DEF IInv

\* The deadline and the end of the output lead to a run that failed.
LEMMA BrokenStep ==
  ASSUME IInv, Deadline \/ EndOfOutput
  PROVE  IInv'
<1>1. /\ UNCHANGED <<run, server, log, effort, recorded, late, exit, result>>
      /\ pc \notin {"end", "done"} /\ pc' = "end"
      /\ lines' = <<>> /\ events' \in {events, <<>>}
      /\ timedOut' \in BOOLEAN /\ failed' \in BOOLEAN /\ (timedOut' \/ failed')
  BY DEF IInv, Typed, Deadline, EndOfOutput, Busy
<1>2. /\ lines' \in Seq(Messages) /\ DOMAIN lines' = {} /\ events' \in Seq(Messages)
      /\ \A i \in DOMAIN events' : i \in DOMAIN events /\ events'[i] = events[i]
  <2>1. events \in Seq(Messages) /\ <<>> \in Seq(Messages) /\ DOMAIN <<>> = {}
    BY EmptySeq DEF IInv, Typed
  <2>2. CASE events' = events
    BY <1>1, <2>1, <2>2
  <2>3. CASE events' = <<>>
    BY <1>1, <2>1, <2>3
  <2> QED
    BY <1>1, <2>2, <2>3
<1>3. Typed'
  BY <1>1, <1>2 DEF IInv, Typed, Places
<1>4. StreamInv' /\ ReplyInv'
  BY <1>1, <1>2 DEF StreamInv, ReplyInv, Busy
<1>5. HistoryInv'
  <2>1. Settled => Settled'
    BY <1>1, <1>2 DEF Settled
  <2> QED
    BY <1>1, <1>2, <2>1 DEF IInv, HistoryInv, OwnEnd
<1>6. EffortInv' /\ ResultInv'
  BY <1>1 DEF IInv, EffortInv, ResultInv, SuccessIsReal, OnRecord
<1> QED
  BY <1>3, <1>4, <1>5, <1>6 DEF IInv

\* The result is made of the whole stream, of which the parse and the turn agree.
LEMMA StopStep ==
  ASSUME IInv, Stop
  PROVE  IInv'
<1>1. /\ UNCHANGED <<run, lines, log, events, effort, recorded, late, timedOut, failed>>
      /\ pc = "end" /\ pc' = "done" /\ server' = [server EXCEPT !.state = "gone"]
  BY DEF Stop
<1>2. /\ server' \in Servers /\ server'.turn = server.turn /\ server'.session = server.session
      /\ server'.level = server.level /\ server'.waiting = server.waiting
  BY <1>1 DEF IInv, Typed, Servers
<1>3. /\ result'.effort = effort
      /\ result'.status = "succeeded" =>
           ~failed /\ ~timedOut /\ ~log.err /\ log.terminal # None
  BY DEF Stop
<1>4. Typed'
  BY <1>1, <1>2 DEF IInv, Typed, Places
<1>5. StreamInv' /\ ReplyInv'
  BY <1>1, <1>2
     DEF IInv, StreamInv, ReplyInv, Busy, Began, OwnEnd, OwnStart, Event, IsReply
<1>6. HistoryInv' /\ EffortInv'
  BY <1>1, <1>2 DEF IInv, HistoryInv, EffortInv, Settled, OwnEnd, Event
<1>7. ASSUME result'.status = "succeeded"
      PROVE  /\ server.turn = "completed" /\ server.session = "asked" /\ ~timedOut
             /\ effort = server.level /\ (recorded # None => recorded = server.level)
             /\ run.effort # None => recorded = run.effort
  <2>1. Settled /\ EffortInv
    BY <1>1, <1>3, <1>7 DEF IInv, HistoryInv
  <2>2. server.turn = "completed"
    BY <1>3, <1>7, <2>1 DEF Settled, Ends
  <2> QED
    BY <1>1, <1>3, <1>7, <2>1, <2>2 DEF EffortInv
<1>8. ResultInv'
  BY <1>1, <1>2, <1>3, <1>7 DEF ResultInv, SuccessIsReal, OnRecord
<1> QED
  BY <1>4, <1>5, <1>6, <1>8 DEF IInv

-----------------------------------------------------------------------------
LEMMA NextKeeps ==
  ASSUME IInv, [Next]_vars
  PROVE  IInv'
<1>1. CASE ServerStep
  BY <1>1, ServerStepKeeps
<1>2. CASE Tick
  BY <1>2, SilentStep
<1>3. CASE Launch
  BY <1>3, LaunchStep
<1>4. CASE Receive
  BY <1>4, ReceiveStep
<1>5. CASE Look
  BY <1>5, LookStep
<1>6. CASE Deadline \/ EndOfOutput
  BY <1>6, BrokenStep
<1>7. CASE Stop
  BY <1>7, StopStep
<1>8. CASE UNCHANGED vars
  BY <1>8 DEF vars, IInv, Typed, StreamInv, ReplyInv, HistoryInv, EffortInv, ResultInv, Settled,
              Busy, Began, OwnEnd, OwnStart, Event, IsReply, SuccessIsReal, OnRecord
<1> QED
  BY <1>1, <1>2, <1>3, <1>4, <1>5, <1>6, <1>7, <1>8 DEF Next, Aop, Over

LEMMA Inductive == Spec => []IInv
BY InitInv, NextKeeps, PTL DEF Spec

\* A run reported as a success is one whose prompt the server ended well, in the session
\* asked for, however the events of earlier turns and the answers are mixed with its own
\* (zcode_protocol.run and zcode.parse_stream).
THEOREM SuccessesAreReal == Spec => []SuccessIsReal
<1>1. IInv => SuccessIsReal
  BY DEF IInv, ResultInv
<1> QED
  BY Inductive, <1>1, PTL

\* The level the session works at, or that it tells none, is in request.json before the
\* prompt is sent, and at the end of a success it is still the one the server works at,
\* whenever someone selects another, unless the session told none then
\* (zcode_protocol.verified_selection).
THEOREM EffortsAreRecorded == Spec => []EffortIsRecorded
<1>1. IInv => EffortIsRecorded
  <2>1. Levels \cap {"unfit"} = {}
    BY ZcodeAssumption DEF Levels, None
  <2> QED
    BY <2>1 DEF IInv, Typed, EffortInv, ResultInv, OnRecord, EffortIsRecorded, Began
<1> QED
  BY Inductive, <1>1, PTL

-----------------------------------------------------------------------------
(* Types, with what IInv leaves out of them *)

Limited ==
  /\ server.events \in 0..MaxEvents /\ exit \in {0, 1}
  /\ result.status \in {None, "succeeded", "response_available_with_provider_error", "failed"}

LEMMA LimitedNext ==
  ASSUME IInv, Limited, [Next]_vars
  PROVE  Limited'
<1>1. /\ server \in Servers /\ server.code \in {0, 1} /\ MaxEvents \in Nat
      /\ server.events \in Nat /\ server.events <= MaxEvents
  BY ZcodeAssumption DEF IInv, Typed, Servers, Limited
\* A step of the server counts an event only below the bound.
<1>2. ASSUME ServerStep PROVE Limited'
  <2>1. UNCHANGED <<exit, result>>
    BY <1>2 DEF ServerStep, Reply, Start, End, Repeat, Asks, Reselect, Exit, Unchanged
  <2>2. \/ server'.events = server.events
        \/ server.events < MaxEvents /\ server'.events = server.events + 1
    BY <1>1, <1>2 DEF ServerStep, Reply, Start, End, Repeat, Asks, Reselect, Exit, Servers
  <2> QED
    BY <1>1, <2>1, <2>2 DEF Limited
<1>3. ASSUME Launch \/ Receive \/ Look PROVE Limited'
  <2>1. UNCHANGED <<exit, result>>
    BY <1>3 DEF Launch, Receive, Look
  <2>2. server' = server \/ server' = [server EXCEPT !.waiting = TRUE]
        \/ server' = [server EXCEPT !.state = "running", !.waiting = TRUE]
    <3>1. CASE Launch
      BY <3>1 DEF Launch
    <3>2. CASE Receive
      BY <3>2, ReceiveOutcome DEF Refused, Led, Selected, Created, Subscribed, Sent, Checked, Kept, Asked
    <3>3. CASE Look
      BY <3>3 DEF Look, Ask, GoOn
    <3> QED
      BY <1>3, <3>1, <3>2, <3>3
  <2>3. server'.events = server.events
    BY <1>1, <2>2 DEF Servers
  <2> QED
    BY <2>1, <2>3 DEF Limited
<1>4. ASSUME Stop PROVE Limited'
  <2>1. server' = [server EXCEPT !.state = "gone"] /\ exit' = ExitCode
        /\ result'.status \in {"failed", "succeeded"}
    BY <1>4 DEF Stop
  <2> QED
    BY <1>1, <2>1 DEF Limited, ExitCode, Servers
<1>5. ASSUME Tick \/ Deadline \/ EndOfOutput \/ UNCHANGED vars PROVE Limited'
  BY <1>5 DEF Limited, Tick, Deadline, EndOfOutput, vars
<1> QED
  BY <1>2, <1>3, <1>4, <1>5 DEF Next, Aop, Over

\* Whatever the server sends, and however many of its events come, the protocol's state
\* stays what run and parse_stream take it for.
THEOREM TypeCorrect == Spec => []TypeOK
<1>1. Init => Limited
  BY ZcodeAssumption DEF Init, Limited, NoResult
<1>2. IInv /\ Limited => TypeOK
  BY DEF IInv, Typed, Limited, TypeOK, Servers, Logs, Places
<1> QED
  BY Inductive, LimitedNext, <1>1, <1>2, PTL DEF Spec

-----------------------------------------------------------------------------
(* An answer is not lost *)

\* What stands in the way of a run is the server's doing, the deadline or the request.
Fine ==
  /\ ~server.bad /\ ~late /\ server.session = "asked" /\ server.level # "unfit"
  /\ run.effort = None \/ run.effort = server.level
Foul(m) ==
  \/ m.kind \in {"refusal", "asks"}
  \/ m.turn = "old" /\ m.kind \in {"failed", "unsuccessful"}

\* The session is open, and nothing has ended the run but its turn.
Past ==
  \/ pc \in {"subscribe", "send", "turn", "verify"}
  \/ pc = "end" /\ ~failed /\ ~timedOut

\* What has gone by, and what is still to be read, is of this session and tells nothing
\* bad of a server that did nothing bad.
HeardInv ==
  /\ Busy => server.state = "running" \/ server.bad
  /\ pc = "done" => server.state = "gone"
  /\ \A i \in DOMAIN lines : Foul(lines[i]) => server.bad
  /\ \A i \in DOMAIN lines :
       lines[i].kind = "snapshot" => lines[i].level = server.level \/ server.bad
  /\ \A i \in DOMAIN events : events[i].session = server.session
  /\ log.session \in {None, server.session} /\ ~log.conflict
  /\ log.snapshot => log.session = server.session
  /\ log.err => server.bad \/ server.turn \in {"failed", "unsuccessful"}
  /\ effort # None => effort = server.level \/ server.bad
  /\ Past => log.snapshot
  /\ Fine => ~failed /\ ~timedOut

\* A step of the server, or the deadline's coming, changes nothing that has been heard.
ServerGoesOn ==
  /\ server' \in Servers /\ server'.session = server.session
  /\ server.bad => server'.bad
  /\ server'.level = server.level \/ server'.bad
  /\ server.turn \in {"failed", "unsuccessful"} => server'.turn = server.turn
  /\ \/ server'.state = server.state
     \/ server'.state = "gone" /\ (server'.bad \/ pc \in {"end", "done"})

LEMMA ServerGoes ==
  ASSUME IInv, ServerStep
  PROVE  ServerGoesOn /\ Unchanged
<1>1. server \in Servers /\ server.events + 1 \in Nat
  BY DEF IInv, Typed, Servers
<1>2. ASSUME NEW kind \in {"refusal", "ok", "snapshot"}, Reply(kind)
      PROVE  ServerGoesOn /\ Unchanged
  <2> DEFINE bad == server.bad \/ kind = "refusal"
             turn == IF pc = "send" /\ kind = "ok" /\ server.turn = None THEN "sent" ELSE server.turn
  <2>1. server' = [server EXCEPT !.waiting = FALSE, !.bad = bad, !.turn = turn] /\ Unchanged
    BY <1>2 DEF Reply
  <2>2. /\ bad \in BOOLEAN /\ turn \in {None, "sent", "started"} \cup Ends
        /\ server.bad => bad
        /\ server.turn \in {"failed", "unsuccessful"} => turn = server.turn
    BY <1>1 DEF Servers, None
  <2> HIDE DEF bad, turn
  <2> QED
    BY <1>1, <2>1, <2>2 DEF Servers, ServerGoesOn
<1>3. ASSUME NEW kind \in {"started"} \cup Ends, Repeat(kind)
      PROVE  ServerGoesOn /\ Unchanged
  <2> DEFINE bad == server.bad \/ kind \in {"failed", "unsuccessful"}
  <2>1. server' = [server EXCEPT !.events = @ + 1, !.bad = bad] /\ Unchanged
    BY <1>3 DEF Repeat
  <2>2. bad \in BOOLEAN /\ (server.bad => bad)
    BY <1>1 DEF Servers
  <2> HIDE DEF bad
  <2> QED
    BY <1>1, <2>1, <2>2 DEF Servers, ServerGoesOn
<1>4. ASSUME NEW code \in {0, 1}, Exit(code)
      PROVE  ServerGoesOn /\ Unchanged
  <2> DEFINE bad == server.bad \/ pc # "end"
  <2>1. server' = [server EXCEPT !.state = "gone", !.code = code, !.bad = bad] /\ Unchanged
    BY <1>4 DEF Exit
  <2>2. bad \in BOOLEAN /\ (server.bad => bad) /\ (pc # "end" => bad)
    BY <1>1 DEF Servers
  <2> HIDE DEF bad
  <2> QED
    BY <1>1, <2>1, <2>2 DEF Servers, ServerGoesOn
<1>5. ASSUME NEW level \in Selections, Reselect(level)
      PROVE  ServerGoesOn /\ Unchanged
  BY <1>1, <1>5 DEF Reselect, Servers, ServerGoesOn
<1>6. ASSUME NEW kind \in Ends, End(kind)
      PROVE  ServerGoesOn /\ Unchanged
  BY <1>1, <1>6 DEF End, Servers, ServerGoesOn
<1>7. ASSUME Start \/ Asks
      PROVE  ServerGoesOn /\ Unchanged
  BY <1>1, <1>7 DEF Start, Asks, Servers, ServerGoesOn, None
<1> QED
  BY <1>2, <1>3, <1>4, <1>5, <1>6, <1>7 DEF ServerStep

\* What the server writes is of its session and of its level, and when it is foul the
\* server has been bad.
LEMMA ServerSays ==
  ASSUME IInv, ServerStep
  PROVE  \/ lines' = lines
         \/ \E m \in Messages :
              /\ lines' = Append(lines, m) /\ m.session = server.session
              /\ Foul(m) => server'.bad
              /\ m.kind = "snapshot" => m.level = server.level
<1>1. Typed /\ server \in Servers /\ {"own", "old"} \subseteq Turns
  BY DEF IInv, Typed, Turns
<1>2. ASSUME NEW kind \in {"refusal", "ok", "snapshot"}, Reply(kind)
      PROVE  \E m \in Messages :
               /\ lines' = Append(lines, m) /\ m.session = server.session
               /\ Foul(m) => server'.bad
               /\ m.kind = "snapshot" => m.level = server.level
  <2>1. PICK m \in Messages :
          /\ lines' = Append(lines, m) /\ m.kind = kind /\ m.turn = "own"
          /\ m.session = server.session /\ (kind = "snapshot" => m.level = server.level)
    <3>1. kind \in Kinds /\ "own" \in Turns /\ Say(kind, "own") /\ Typed
      BY <1>1, <1>2 DEF Reply, Kinds
    <3> QED
      BY <3>1, SaidLine
  <2>2. kind = "refusal" => server'.bad
    BY <1>1, <1>2 DEF Reply, Servers
  <2> QED
    BY <2>1, <2>2 DEF Foul
<1>3. ASSUME NEW kind \in {"started", "asks"} \cup Ends, NEW turn \in Turns, Say(kind, turn),
             kind = "asks" \/ (turn = "old" /\ kind \in {"failed", "unsuccessful"}) => server'.bad
      PROVE  \E m \in Messages :
               /\ lines' = Append(lines, m) /\ m.session = server.session
               /\ Foul(m) => server'.bad
               /\ m.kind = "snapshot" => m.level = server.level
  <2>1. PICK m \in Messages :
          /\ lines' = Append(lines, m) /\ m.kind = kind /\ m.turn = turn
          /\ m.session = server.session
    BY <1>1, <1>3, SaidLine DEF Kinds
  <2>2. m.kind \notin {"refusal", "snapshot"}
    BY <2>1 DEF Ends
  <2>3. Foul(m) => server'.bad
    BY <1>3, <2>1, <2>2 DEF Foul
  <2> QED
    BY <2>1, <2>2, <2>3
<1>4. ASSUME Start \/ Asks \/ \E kind \in Ends : End(kind)
      PROVE  \E kind \in {"started", "asks"} \cup Ends :
               Say(kind, "own") /\ (kind = "asks" => server'.bad)
  BY <1>1, <1>4 DEF Start, Asks, End, Servers, Ends
<1>5. ASSUME NEW kind \in {"started"} \cup Ends, Repeat(kind)
      PROVE  Say(kind, "old") /\ kind # "asks" /\ (kind \in {"failed", "unsuccessful"} => server'.bad)
  <2> DEFINE bad == server.bad \/ kind \in {"failed", "unsuccessful"}
  <2>1. server' = [server EXCEPT !.events = @ + 1, !.bad = bad] /\ Say(kind, "old")
    BY <1>5 DEF Repeat
  <2>2. server'.bad = bad
    BY <1>1, <2>1 DEF Servers
  <2> QED
    BY <1>5, <2>1, <2>2 DEF Ends
<1>6. ASSUME \/ \E level \in Selections : Reselect(level)
             \/ \E code \in {0, 1} : Exit(code)
      PROVE  lines' = lines
  BY <1>6 DEF Reselect, Exit
<1> QED
  BY <1>1, <1>2, <1>3, <1>4, <1>5, <1>6 DEF ServerStep

LEMMA HeardServer ==
  ASSUME IInv, HeardInv, ServerStep
  PROVE  HeardInv'
<1>1. ServerGoesOn /\ Unchanged /\ lines \in Seq(Messages) /\ server \in Servers
  BY ServerGoes DEF IInv, Typed
<1>2. /\ \A i \in DOMAIN lines' : Foul(lines'[i]) => server'.bad
      /\ \A i \in DOMAIN lines' :
           lines'[i].kind = "snapshot" => lines'[i].level = server'.level \/ server'.bad
  <2>1. CASE lines' = lines
    BY <1>1, <2>1 DEF HeardInv, ServerGoesOn
  <2>2. ASSUME NEW m \in Messages, lines' = Append(lines, m), Foul(m) => server'.bad,
               m.kind = "snapshot" => m.level = server.level
        PROVE  /\ \A i \in DOMAIN lines' : Foul(lines'[i]) => server'.bad
               /\ \A i \in DOMAIN lines' :
                    lines'[i].kind = "snapshot" => lines'[i].level = server'.level \/ server'.bad
    <3>1. /\ \A i \in DOMAIN lines' : i \in DOMAIN lines \/ i = Len(lines) + 1
          /\ \A i \in DOMAIN lines : lines'[i] = lines[i]
          /\ lines'[Len(lines) + 1] = m
      BY <1>1, <2>2, AppendFacts
    <3> QED
      BY <1>1, <2>2, <3>1 DEF HeardInv, ServerGoesOn
  <2> QED
    BY <2>1, <2>2, ServerSays
<1>3. UNCHANGED <<run, log, events, pc, effort, late, timedOut, failed>>
  BY <1>1 DEF Unchanged
<1>4. Fine' => Fine
  BY <1>1, <1>3 DEF Fine, ServerGoesOn
<1> QED
  BY <1>1, <1>2, <1>3, <1>4 DEF HeardInv, ServerGoesOn, Busy, Past, Foul

\* What a line of this session tells the parse of it.
LEMMA ParsedSession ==
  ASSUME NEW l \in Logs, NEW m \in Messages, l.session \in {None, m.session}, ~l.conflict,
         l.snapshot => l.session = m.session
  PROVE  /\ Parsed(l, m).session \in {None, m.session} /\ ~Parsed(l, m).conflict
         /\ Parsed(l, m).snapshot => Parsed(l, m).session = m.session
         /\ l.snapshot \/ m.kind = "snapshot" => Parsed(l, m).snapshot
         /\ Parsed(l, m).err => l.err \/ (m.kind \in {"failed", "unsuccessful"} /\ ~Passed(l, m))
<1> DEFINE Name(k) == Named(k, m.session)
<1>1. ASSUME NEW k \in Logs, k.session = l.session, ~k.conflict
      PROVE  /\ Name(k) \in Logs /\ Name(k).session = m.session /\ ~Name(k).conflict
             /\ Name(k).err = k.err /\ Name(k).snapshot = k.snapshot
  <2> DEFINE conflict == k.conflict \/ k.session \notin {None, m.session}
  <2>1. Name(k) = [k EXCEPT !.session = m.session, !.conflict = conflict]
    BY DEF Named
  <2>2. conflict = FALSE /\ m.session \in {"asked", "other"}
    BY <1>1 DEF Messages
  <2> HIDE DEF conflict, Name
  <2> QED
    BY <2>1, <2>2 DEF Logs
<1>2. CASE m.kind = "snapshot"
  <2>1. Parsed(l, m) = [Name(l) EXCEPT !.snapshot = TRUE]
    BY <1>2 DEF Parsed, Ends
  <2> HIDE DEF Name
  <2> QED
    BY <1>1, <1>2, <2>1 DEF Logs
<1>3. CASE m.kind = "started"
  <2>1. Parsed(l, m) = Name([l EXCEPT !.active = m.turn])
    BY <1>3 DEF Parsed, Ends
  <2> DEFINE k == [l EXCEPT !.active = m.turn]
  <2>2. k \in Logs /\ k.session = l.session /\ k.conflict = l.conflict /\ k.err = l.err
        /\ k.snapshot = l.snapshot
    BY DEF Logs, Messages
  <2> HIDE DEF Name, k
  <2>3. Parsed(l, m) = Name(k)
    BY <2>1 DEF k
  <2> QED
    BY <1>1, <1>3, <2>2, <2>3
<1>4. CASE m.kind \in Ends
  <2> DEFINE err == Name(l).err \/ m.kind \in {"failed", "unsuccessful"}
             completed == Name(l).completed \/ m.kind # "failed"
             seen == IF Passed(l, m) THEN l
                     ELSE [Name(l) EXCEPT !.err = err, !.completed = completed]
             terminal == IF m.kind = "blank" THEN None ELSE m.turn
  <2>1. Parsed(l, m) = IF m.kind = "failed" THEN seen ELSE [seen EXCEPT !.terminal = terminal]
    BY <1>4 DEF Parsed, Ends
  <2>2. err \in BOOLEAN /\ completed \in BOOLEAN /\ (err => l.err \/ m.kind \in {"failed", "unsuccessful"})
    BY <1>1 DEF Logs
  <2> HIDE DEF Name, err, completed, terminal
  <2>3. /\ seen \in Logs /\ seen.session \in {None, m.session} /\ ~seen.conflict
        /\ seen.snapshot = l.snapshot /\ (seen.snapshot => seen.session = m.session)
        /\ seen.err => l.err \/ (m.kind \in {"failed", "unsuccessful"} /\ ~Passed(l, m))
    <3>1. /\ Name(l) \in Logs /\ Name(l).session = m.session /\ ~Name(l).conflict
          /\ Name(l).snapshot = l.snapshot
      BY <1>1
    <3>2. CASE Passed(l, m)
      BY <3>2
    <3>3. CASE ~Passed(l, m)
      <4>1. seen = [Name(l) EXCEPT !.err = err, !.completed = completed]
        BY <3>3
      <4> HIDE DEF seen
      <4> QED
        BY <2>2, <3>1, <3>3, <4>1 DEF Logs
    <3> QED
      BY <3>2, <3>3
  <2> HIDE DEF seen
  <2>4. \A k \in Logs : /\ [k EXCEPT !.terminal = terminal].session = k.session
                        /\ [k EXCEPT !.terminal = terminal].conflict = k.conflict
                        /\ [k EXCEPT !.terminal = terminal].snapshot = k.snapshot
                        /\ [k EXCEPT !.terminal = terminal].err = k.err
    BY DEF Logs
  <2> QED
    BY <1>4, <2>1, <2>3, <2>4 DEF Ends
<1>5. CASE m.kind \in {"refusal", "ok", "asks"}
  BY <1>5 DEF Parsed, Ends
<1> QED
  BY <1>2, <1>3, <1>4, <1>5 DEF Messages

\* A server that has done nothing bad gives no reason to give up.
LEMMA FineGoesOn ==
  ASSUME IInv, HeardInv, Receive, Fine
  PROVE  failed' = failed
<1> DEFINE m == Head(lines)
<1>1. /\ lines \in Seq(Messages) /\ lines # <<>> /\ m \in Messages /\ 1 \in DOMAIN lines
      /\ m = lines[1]
  BY DEF IInv, Typed, Receive
<1> HIDE DEF m
<1>2. /\ m.session = "asked" /\ m.kind \notin {"refusal", "asks"}
      /\ m.kind = "snapshot" => m.level = server.level
      /\ effort # None => effort = server.level
      /\ pc = "verify" => m.kind # "ok"
  BY <1>1 DEF IInv, StreamInv, ReplyInv, HeardInv, Foul, Fine
<1>3. m.kind = "snapshot" => Verified(m)
  BY <1>2 DEF Verified, Fine
<1>4. CASE m.kind \in {"ok", "snapshot"}
  <2>1. Answered(m)
    BY <1>4 DEF Receive, m
  <2> QED
    BY <1>2, <1>3, <1>4, <2>1 DEF Answered, Opened
<1>5. CASE m.kind \notin {"ok", "snapshot"}
  BY <1>2, <1>5 DEF Receive, m
<1> QED
  BY <1>4, <1>5

LEMMA HeardReceive ==
  ASSUME IInv, HeardInv, Receive
  PROVE  HeardInv'
<1> DEFINE m == Head(lines)
<1>1. /\ m \in Messages /\ Busy /\ lines # <<>> /\ lines \in Seq(Messages)
      /\ log' = Parsed(log, m) /\ lines' = IF pc' = "end" THEN <<>> ELSE Tail(lines)
      /\ UNCHANGED <<run, late, timedOut>>
      /\ Refused(m) \/ Kept(m) \/ (IsReply(m) /\ Led(m))
  BY ReceiveOutcome
<1>2. /\ 1 \in DOMAIN lines /\ m = lines[1]
      /\ \A i \in DOMAIN lines' : i + 1 \in DOMAIN lines /\ lines'[i] = lines[i + 1]
  BY <1>1, TakenFacts
<1>3. log \in Logs /\ server \in Servers /\ events \in Seq(Messages) /\ StreamInv
  BY DEF IInv, Typed
<1>4. /\ m.session = server.session /\ (Foul(m) => server.bad)
      /\ m.kind = "snapshot" => m.level = server.level \/ server.bad
      /\ m.kind \in {"failed", "unsuccessful"} =>
           server.bad \/ server.turn \in {"failed", "unsuccessful"}
  <2>1. m.session = server.session /\ (OwnEnd(m) => server.turn = m.kind)
    BY <1>2, <1>3 DEF StreamInv
  <2>2. m.turn \in {"own", "old"}
    BY <1>1 DEF Messages, Turns
  <2> QED
    BY <1>2, <2>1, <2>2 DEF HeardInv, Foul, OwnEnd, Ends
<1>5. Fine => failed' = failed
  BY FineGoesOn
<1>6. /\ log'.session \in {None, server.session} /\ ~log'.conflict
      /\ log'.snapshot => log'.session = server.session
      /\ log.snapshot \/ m.kind = "snapshot" => log'.snapshot
      /\ log'.err => server.bad \/ server.turn \in {"failed", "unsuccessful"}
  <2>1. /\ log.session \in {None, m.session} /\ ~log.conflict
        /\ log.snapshot => log.session = m.session
    BY <1>4 DEF HeardInv
  <2>2. /\ Parsed(log, m).session \in {None, m.session} /\ ~Parsed(log, m).conflict
        /\ Parsed(log, m).snapshot => Parsed(log, m).session = m.session
        /\ log.snapshot \/ m.kind = "snapshot" => Parsed(log, m).snapshot
        /\ Parsed(log, m).err => log.err \/ (m.kind \in {"failed", "unsuccessful"} /\ ~Passed(log, m))
    BY <1>1, <1>3, <2>1, ParsedSession
  <2> QED
    BY <1>1, <1>4, <2>2 DEF HeardInv
<1> HIDE DEF m
<1>7. /\ server'.session = server.session /\ server'.level = server.level
      /\ server'.bad = server.bad /\ server'.turn = server.turn /\ server'.state = server.state
      /\ pc' # "done"
  <2>1. server' = server \/ server' = [server EXCEPT !.waiting = TRUE]
    BY <1>1 DEF Refused, Kept, Led, Selected, Created, Subscribed, Sent, Checked, Asked
  <2>2. pc' # "done"
    BY <1>1 DEF Busy, Refused, Kept, Led, Selected, Created, Subscribed, Sent, Checked, Asked
  <2> QED
    BY <1>3, <2>1, <2>2 DEF Servers
<1>8. \A i \in DOMAIN events' : events'[i].session = server.session
  <2>1. CASE events' = events
    BY <2>1 DEF HeardInv
  <2>2. CASE events' = <<>>
    BY <2>2, EmptySeq
  <2>3. CASE events' = Append(events, m)
    <3>1. /\ \A i \in DOMAIN events' : i \in DOMAIN events \/ i = Len(events) + 1
          /\ \A i \in DOMAIN events : events'[i] = events[i]
          /\ events'[Len(events) + 1] = m
      BY <1>1, <1>3, <2>3, AppendFacts
    <3> QED
      BY <1>4, <3>1 DEF HeardInv
  <2> QED
    BY <1>1, <2>1, <2>2, <2>3
       DEF Refused, Kept, Led, Selected, Created, Subscribed, Sent, Checked
<1>9. /\ effort' # None => effort' = server.level \/ server.bad
      /\ Past' => log'.snapshot
  <2>1. effort' = effort \/ (m.kind = "snapshot" /\ effort' = m.level)
    BY <1>1 DEF Refused, Kept, Led, Selected, Created, Subscribed, Sent, Checked
  <2>2. Past' => Past \/ m.kind = "snapshot"
    BY <1>1 DEF Past, Busy, Refused, Kept, Led, Selected, Created, Subscribed, Sent, Checked, Asked
  <2> QED
    BY <1>4, <1>6, <2>1, <2>2 DEF HeardInv
<1>10. Fine' => Fine
  BY <1>1, <1>7 DEF Fine
<1> QED
  BY <1>1, <1>2, <1>5, <1>6, <1>7, <1>8, <1>9, <1>10 DEF HeardInv, Foul, Busy

\* The steps that read no line.
LEMMA HeardLook ==
  ASSUME IInv, HeardInv, Look
  PROVE  HeardInv'
<1> DEFINE m == Head(events)
<1>1. /\ pc = "turn" /\ events # <<>> /\ events \in Seq(Messages) /\ events' = Tail(events)
      /\ UNCHANGED <<run, lines, log, effort, late, timedOut>> /\ server \in Servers
  BY DEF IInv, Typed, Look
<1>2. /\ 1 \in DOMAIN events /\ m = events[1]
      /\ \A i \in DOMAIN events' : i + 1 \in DOMAIN events /\ events'[i] = events[i + 1]
  <2>1. Len(events) \in Nat \ {0} /\ Len(events') = Len(events) - 1 /\ events' \in Seq(Messages)
    BY <1>1
  <2>2. \A i \in 1..Len(events') : i + 1 \in 1..Len(events) /\ events'[i] = events[i + 1]
    BY <1>1, <2>1
  <2> QED
    BY <1>1, <2>1, <2>2
<1>3. m.session = server.session
  BY <1>2 DEF HeardInv
<1>4. /\ m.session = "asked" => failed' = failed
      /\ server' = server \/ server' = [server EXCEPT !.waiting = TRUE]
      /\ pc' \in {"turn", "verify", "end"}
  BY <1>1 DEF Look, Ask, GoOn
<1>5. /\ server'.session = server.session /\ server'.level = server.level
      /\ server'.bad = server.bad /\ server'.turn = server.turn /\ server'.state = server.state
  BY <1>1, <1>4 DEF Servers
<1> HIDE DEF m
<1>6. Fine' => Fine /\ failed' = failed
  BY <1>1, <1>3, <1>4, <1>5 DEF Fine
<1>7. Past
  BY <1>1 DEF Past
<1> QED
  BY <1>1, <1>2, <1>4, <1>5, <1>6, <1>7 DEF HeardInv, Foul, Busy

LEMMA HeardAside ==
  ASSUME IInv, HeardInv, Launch \/ Tick \/ Deadline \/ EndOfOutput \/ Stop
  PROVE  HeardInv'
<1>1. server \in Servers /\ late \in BOOLEAN
  BY DEF IInv, Typed
<1>2. /\ server'.session = server.session /\ server'.level = server.level
      /\ server'.bad = server.bad /\ server'.turn = server.turn
      /\ UNCHANGED <<run, log, effort>> /\ (late => late')
      /\ Busy' => server'.state = "running" \/ server.bad
      /\ pc' = "done" => server'.state = "gone"
      /\ Past' => Past
  <2>1. CASE Launch
    BY <1>1, <2>1 DEF Launch, Servers, Busy, Past
  <2>2. CASE Tick
    BY <1>1, <2>2 DEF Tick, Servers, Busy, Past, HeardInv
  <2>3. CASE Deadline \/ EndOfOutput
    BY <1>1, <2>3 DEF Deadline, EndOfOutput, Servers, Busy, Past
  <2>4. CASE Stop
    BY <1>1, <2>4 DEF Stop, Servers, Busy, Past
  <2> QED
    BY <2>1, <2>2, <2>3, <2>4
<1>3. /\ \A i \in DOMAIN lines' : i \in DOMAIN lines /\ lines'[i] = lines[i]
      /\ \A i \in DOMAIN events' : i \in DOMAIN events /\ events'[i] = events[i]
  <2>1. lines' \in {lines, <<>>} /\ events' \in {events, <<>>}
    BY DEF Launch, Tick, Deadline, EndOfOutput, Stop
  <2>2. DOMAIN <<>> = {}
    BY EmptySeq
  <2> QED
    BY <2>1, <2>2
<1>4. Fine' => Fine /\ UNCHANGED <<failed, timedOut>>
  <2>1. Fine' => Fine
    BY <1>2 DEF Fine
  <2>2. ASSUME EndOfOutput PROVE server.bad
    BY <2>2 DEF EndOfOutput, HeardInv, Running
  <2>3. ASSUME Deadline PROVE late
    BY <2>3 DEF Deadline
  <2>4. ASSUME Launch \/ Tick \/ Stop PROVE UNCHANGED <<failed, timedOut>>
    BY <2>4 DEF Launch, Tick, Stop
  <2> QED
    BY <2>1, <2>2, <2>3, <2>4 DEF Fine
<1> QED
  BY <1>2, <1>3, <1>4 DEF HeardInv, Foul

LEMMA HeardNext ==
  ASSUME IInv, HeardInv, [Next]_vars
  PROVE  HeardInv'
<1>1. ASSUME UNCHANGED vars PROVE HeardInv'
  BY <1>1 DEF vars, HeardInv, Foul, Busy, Past, Fine
<1> QED
  BY <1>1, HeardServer, HeardReceive, HeardLook, HeardAside DEF Next, Aop, Over

\* The verdict on a prompt that ended well: Settled says what the parse knows of its end,
\* HeardInv that nothing else was wrong.
LEMMA AnswerVerdict ==
  ASSUME IInv, HeardInv, Stop
  PROVE  AnswerIsReported'
<1>1. /\ pc = "end" /\ server' = [server EXCEPT !.state = "gone"] /\ server \in Servers
      /\ UNCHANGED <<run, late>>
  BY DEF Stop, IInv, Typed
<1>2. /\ server'.turn = server.turn /\ server'.bad = server.bad /\ server'.code = server.code
      /\ server'.session = server.session /\ server'.level = server.level
  BY <1>1 DEF Servers
<1> SUFFICES ASSUME server.turn = "completed", Fine, server.code = 0
             PROVE  result'.status = "succeeded"
  BY <1>1, <1>2 DEF AnswerIsReported, Fine
<1>3. ~failed /\ ~timedOut /\ ~server.bad /\ server.session = "asked"
  BY DEF HeardInv, Fine
<1>4. log.completed /\ log.terminal # None /\ Past
  BY <1>1, <1>3 DEF IInv, HistoryInv, Settled, Past
<1>5. /\ log.snapshot /\ log.session = "asked" /\ ~log.conflict /\ ~log.err
  BY <1>3, <1>4 DEF HeardInv
<1>6. ExitCode = 0
  BY <1>3 DEF ExitCode
<1> QED
  BY <1>3, <1>4, <1>5, <1>6 DEF Stop, None

LEMMA AnswerNext ==
  ASSUME IInv, HeardInv, AnswerIsReported, [Next]_vars
  PROVE  AnswerIsReported'
<1>1. ASSUME pc = "done" PROVE UNCHANGED vars
  <2>1. ~Running /\ ~Speaks
    BY <1>1 DEF HeardInv, Running, Speaks
  <2>2. ~ServerStep
    BY <2>1 DEF ServerStep, Reply, Start, End, Repeat, Asks, Reselect, Exit
  <2>3. ~Aop /\ ~Tick
    BY <1>1 DEF Aop, Launch, Receive, Look, Deadline, EndOfOutput, Stop, Tick, Busy
  <2> QED
    BY <2>2, <2>3 DEF Next, Over
<1>2. ASSUME pc # "done", ~Stop PROVE pc' # "done"
  <2>1. ASSUME ServerStep \/ Tick \/ UNCHANGED vars PROVE pc' = pc
    BY <2>1, ServerGoes DEF Tick, vars, Unchanged
  <2>2. ASSUME Launch \/ Receive \/ Look \/ Deadline \/ EndOfOutput PROVE pc' # "done"
    <3>1. CASE Receive
      BY <3>1, ReceiveOutcome
         DEF Busy, Refused, Kept, Led, Selected, Created, Subscribed, Sent, Checked, Asked
    <3>2. CASE Launch \/ Look \/ Deadline \/ EndOfOutput
      BY <3>2 DEF Launch, Look, Deadline, EndOfOutput, Ask, GoOn
    <3> QED
      BY <2>2, <3>1, <3>2
  <2> QED
    BY <1>2, <2>1, <2>2 DEF Next, Aop, Over
<1>3. CASE pc = "done"
  BY <1>1, <1>3 DEF vars, AnswerIsReported
<1>4. CASE pc # "done" /\ ~Stop
  BY <1>2, <1>4 DEF AnswerIsReported
<1> QED
  BY <1>3, <1>4, AnswerVerdict

\* A prompt that the server ended well, with nothing amiss on the way, is reported as a
\* success, also when its events come before the answer to the prompt or among those the
\* session repeats of earlier turns (zcode_protocol.run, zcode.parse_stream).
THEOREM AnswersAreReported == Spec => []AnswerIsReported
<1>1. Init => HeardInv /\ AnswerIsReported
  <2> SUFFICES ASSUME Init PROVE HeardInv /\ AnswerIsReported
    OBVIOUS
  <2>1. DOMAIN lines = {} /\ DOMAIN events = {}
    BY EmptySeq DEF Init
  <2>2. pc = "launch" /\ effort = None /\ ~failed /\ ~timedOut /\ log = Unparsed
    BY DEF Init
  <2> QED
    BY <2>1, <2>2 DEF HeardInv, AnswerIsReported, Busy, Past, Unparsed
<1> QED
  BY Inductive, HeardNext, AnswerNext, <1>1, PTL DEF Spec
=============================================================================
