--------------------------- MODULE CodexTurnProofs ---------------------------
(***************************************************************************)
(* What TLAPS proves of CodexTurn, for any number of events of the server  *)
(* and whatever numbers its own requests carry.                            *)
(***************************************************************************)
EXTENDS CodexTurn, SequenceTheorems, TLAPS

Servers == [state: {"absent", "running", "gone"}, code: {0, 1, 127}, sent: SUBSET Ids,
            answered: SUBSET Ids, thread: {"asked", "other"}, confined: BOOLEAN,
            turn: {None, "running"} \cup Ends, item: BOOLEAN, used: Nat,
            erred: BOOLEAN, told: BOOLEAN, events: Nat, old: Nat]
Logs == [thread: {None, "asked", "other"}, turn: BOOLEAN, err: BOOLEAN, item: BOOLEAN,
         end: {None} \cup Ends, usage: [Turns -> Nat]]
Knowledge == [got: [Ids -> {None, "ok", "hollow", "err"}], thread: BOOLEAN, turn: BOOLEAN, over: BOOLEAN]

Typed ==
  /\ run \in [resume: BOOLEAN, deadline: BOOLEAN, noWeb: BOOLEAN, auth: BOOLEAN]
  /\ server \in Servers /\ lines \in Seq(Messages) /\ log \in Logs /\ known \in Knowledge
  /\ late \in BOOLEAN /\ timedOut \in BOOLEAN /\ refused \in BOOLEAN

\* The parse agrees with the server on its thread, and on the end and the usage of the turn.
LogInv ==
  /\ run.resume \/ server.thread = "asked"
  /\ log.thread \in {None, server.thread}
  /\ log.end # None => log.end = server.turn
  /\ log.usage["own"] = server.used

\* An answer to the login: there is one, and until it is taken the login is not known.
LoginAnswer(m) == m.kind \in {"ok", "hollow", "err"} /\ m.id = 5
LoginInv ==
  /\ 5 \notin server.answered => known.got[5] = None
  /\ \A i \in DOMAIN lines :
       LoginAnswer(lines[i]) =>
         /\ 5 \in server.answered /\ known.got[5] = None
         /\ \A j \in DOMAIN lines : LoginAnswer(lines[j]) => i = j
  /\ \A i \in DOMAIN lines : lines[i].kind = "ask" => lines[i].id # 5

\* Where the turn is tells what was sent and what had been confirmed before.
FlowInv ==
  /\ pc = "launch" <=> server.state = "absent"
  /\ pc \in {"join", "done"} => server.state = "gone"
  /\ 4 \in server.sent => timedOut /\ pc \notin {"launch"} \cup (Waits \ {"interrupt"})
  /\ pc \in {"launch", "init", "login", "thread", "sending"} => 3 \notin server.sent
  /\ pc = "sending" \/ 3 \in server.sent => (run.noWeb => server.confined)
  /\ run.auth /\ (pc \in {"thread", "sending", "start", "turn", "interrupt"} \/ 3 \in server.sent) =>
       known.got[5] = "ok"

ResultInv ==
  /\ result.status = "succeeded" => pc = "done"
  /\ SuccessIsReal /\ UsageIsOwnTurn

IInv == Typed /\ LogInv /\ LoginInv /\ FlowInv /\ ResultInv

-----------------------------------------------------------------------------
LEMMA InitInv == Init => IInv
<1> SUFFICES ASSUME Init PROVE IInv
  OBVIOUS
<1>1. lines \in Seq(Messages) /\ DOMAIN lines = {}
  BY EmptySeq DEF Init
<1>2. Typed
  <2>1. server \in Servers
    BY DEF Init, Servers, Ids, None
  <2>2. log \in Logs
    BY DEF Init, Logs, Turns, None
  <2>3. known \in Knowledge
    BY DEF Init, Knowledge, Ids, None
  <2> QED
    BY <1>1, <2>1, <2>2, <2>3 DEF Init, Typed
<1>3. LogInv /\ LoginInv /\ FlowInv
  BY <1>1 DEF Init, LogInv, LoginInv, FlowInv, Waits, Ids, Turns, None
<1>4. ResultInv
  BY DEF Init, ResultInv, SuccessIsReal, UsageIsOwnTurn, NoResult, None
<1> QED
  BY <1>2, <1>3, <1>4 DEF IInv

\* What the parse makes of a line.
LEMMA LoggedFacts ==
  ASSUME NEW l \in Logs, NEW m \in Messages, server.thread \in {"asked", "other"}
  PROVE  /\ Logged(l, m) \in Logs
         /\ Logged(l, m).thread \in {l.thread, server.thread}
         /\ Logged(l, m).end = IF m.kind \in Ends /\ m.turn = "own" THEN m.kind ELSE l.end
         /\ Logged(l, m).usage["own"] =
              IF m.kind = "usage" /\ m.turn = "own" THEN l.usage["own"] + 1 ELSE l.usage["own"]
<1> USE DEF Ends, Turns
<1>1. l.usage \in [Turns -> Nat] /\ m.turn \in Turns /\ l.usage[m.turn] + 1 \in Nat
  BY DEF Logs, Messages
<1>2. CASE m.kind = "ok" /\ m.id = 2
  BY <1>2 DEF Logged, Logs
<1>3. CASE m.kind = "ok" /\ m.id # 2
  BY <1>3 DEF Logged, Logs
<1>4. CASE m.kind \in {"err", "error"}
  BY <1>4 DEF Logged, Logs
<1>5. CASE m.kind = "usage"
  <2>1. Logged(l, m) = [l EXCEPT !.usage = [l.usage EXCEPT ![m.turn] = @ + 1]]
    BY <1>5 DEF Logged, Logs
  <2>2. [l.usage EXCEPT ![m.turn] = @ + 1] \in [Turns -> Nat]
    BY <1>1
  <2> QED
    BY <1>1, <1>5, <2>1, <2>2 DEF Logs
<1>6. CASE m.kind = "item"
  BY <1>6 DEF Logged, Logs
<1>7. CASE m.kind \in Ends
  BY <1>7 DEF Logged, Logs, None
<1>8. CASE m.kind \in {"ask", "refresh", "hollow"}
  BY <1>8 DEF Logged, Logs
<1> QED
  BY <1>2, <1>3, <1>4, <1>5, <1>6, <1>7, <1>8 DEF Messages

-----------------------------------------------------------------------------
(* The server's steps *)

\* A line may be written that answers no login, or is the first to answer it.
LEMMA SaidFacts ==
  ASSUME IInv, NEW m \in Messages, Say(m), server.answered \subseteq server'.answered,
         LoginAnswer(m) => 5 \notin server.answered /\ 5 \in server'.answered,
         m.kind = "ask" => m.id # 5
  PROVE  lines' \in Seq(Messages) /\ LoginInv'
<1>1. lines \in Seq(Messages) /\ LoginInv /\ known' = known
  BY DEF IInv, Typed, Say
<1>2. CASE pc \notin Waits
  <2>1. lines' = lines
    BY <1>2 DEF Say
  <2> QED
    BY <1>1, <2>1 DEF LoginInv, LoginAnswer
<1>3. CASE pc \in Waits
  <2>1. lines' = Append(lines, m)
    BY <1>3 DEF Say
  <2>2. lines' \in Seq(Messages) /\ Len(lines') = Len(lines) + 1
    BY <1>1, <2>1
  <2>3. \A i \in DOMAIN lines' : i \in DOMAIN lines \/ i = Len(lines) + 1
    BY <1>1, <2>2
  <2>4. \A i \in DOMAIN lines : lines'[i] = lines[i]
    BY <1>1, <2>1
  <2>5. lines'[Len(lines) + 1] = m
    BY <1>1, <2>1
  <2>6. 5 \notin server'.answered => known'.got[5] = None
    BY <1>1 DEF LoginInv
  <2>7. LoginAnswer(m) => known.got[5] = None /\ \A i \in DOMAIN lines : ~LoginAnswer(lines[i])
    BY <1>1 DEF LoginInv
  <2>8. ASSUME NEW i \in DOMAIN lines', LoginAnswer(lines'[i])
        PROVE  /\ 5 \in server'.answered /\ known'.got[5] = None
               /\ \A j \in DOMAIN lines' : LoginAnswer(lines'[j]) => i = j
    <3>1. CASE i \in DOMAIN lines
      BY <1>1, <2>3, <2>4, <2>5, <2>7, <2>8, <3>1 DEF LoginInv
    <3>2. CASE i = Len(lines) + 1
      BY <1>1, <2>3, <2>4, <2>5, <2>7, <2>8, <3>2
    <3> QED
      BY <2>3, <3>1, <3>2
  <2>9. \A i \in DOMAIN lines' : lines'[i].kind = "ask" => lines'[i].id # 5
    BY <1>1, <2>3, <2>4, <2>5 DEF LoginInv
  <2> QED
    BY <2>2, <2>6, <2>8, <2>9 DEF LoginInv
<1> QED
  BY <1>2, <1>3

\* What the server's record keeps in a step of the server in which the run does not end.
ServerKeeps ==
  /\ server' \in Servers /\ server'.state = server.state /\ server'.sent = server.sent
  /\ server'.thread = server.thread /\ (server.confined => server'.confined)

LEMMA OthersKept ==
  ASSUME IInv, ServerKeeps, pc # "done",
         UNCHANGED <<run, known, pc, late, timedOut, refused, interrupted, result>>
  PROVE  FlowInv' /\ ResultInv'
<1>1. FlowInv'
  BY DEF IInv, FlowInv, ServerKeeps, Waits
<1>2. ResultInv'
  BY DEF IInv, ResultInv, SuccessIsReal, UsageIsOwnTurn
<1> QED
  BY <1>1, <1>2

LEMMA AnswerStep ==
  ASSUME IInv, NEW id \in Ids, NEW kind \in {"ok", "hollow", "err"}, Answer(id, kind)
  PROVE  IInv'
<1> DEFINE m == Message(kind, id, "own")
<1>0. m.kind \notin Ends \cup {"ask", "usage"}
  BY DEF Message, Ends
<1>1. m \in Messages /\ m.kind = kind /\ m.id = id /\ m.turn = "own"
  BY DEF Message, Messages, Turns
<1>2. PICK confined \in BOOLEAN :
        server' = [server EXCEPT !.answered = @ \cup {id}, !.confined = @ \/ confined,
                                 !.turn = IF id = 3 /\ kind = "err" THEN "failed" ELSE @,
                                 !.erred = @ \/ kind # "ok"]
  BY DEF Answer
<1>3. server \in Servers /\ log \in Logs /\ server.thread \in {"asked", "other"}
  BY DEF IInv, Typed, Servers
<1>4. /\ ServerKeeps /\ server'.answered = server.answered \cup {id} /\ server'.used = server.used
      /\ server'.turn = IF id = 3 /\ kind = "err" THEN "failed" ELSE server.turn
  BY ZenonT(40), <1>2, <1>3 DEF Servers, ServerKeeps, Ends
<1>5. Say(m) /\ id \notin server.answered /\ pc # "done"
      /\ (id = 3 /\ kind = "err" => server.turn = None)
  BY DEF Answer, Answerable
<1>6. lines' \in Seq(Messages) /\ LoginInv'
  BY <1>0, <1>1, <1>4, <1>5, SaidFacts DEF LoginAnswer
<1>7. log' = Logged(log, m)
  BY <1>5 DEF Say
<1>8. log' \in Logs /\ LogInv'
  <2>1. run' = run
    BY <1>5 DEF Say
  <2>2. LogInv
    BY DEF IInv
  <2> QED
    BY <1>0, <1>1, <1>3, <1>4, <1>5, <1>7, <2>1, <2>2, LoggedFacts DEF LogInv, ServerKeeps, None
<1>9. UNCHANGED <<run, known, pc, late, timedOut, refused, interrupted, result>>
  BY <1>5 DEF Say
<1>10. FlowInv' /\ ResultInv'
  BY <1>4, <1>5, <1>9, OthersKept
<1>11. Typed'
  BY <1>4, <1>6, <1>8, <1>9 DEF IInv, Typed, ServerKeeps
<1> QED
  BY <1>6, <1>8, <1>10, <1>11 DEF IInv

LEMMA BeginStep ==
  ASSUME IInv, Begin
  PROVE  IInv'
<1>1. /\ ServerKeeps /\ server'.answered = server.answered /\ server'.used = server.used
      /\ server.turn = None
  BY DEF IInv, Typed, Begin, Servers, ServerKeeps
<1>2. UNCHANGED <<run, lines, log, known, pc, late, timedOut, refused, interrupted, result>>
  BY DEF Begin
<1>3. FlowInv' /\ ResultInv'
  <2>1. pc # "done"
    BY DEF Begin, Answerable
  <2> QED
    BY <1>1, <1>2, <2>1, OthersKept
<1>4. Typed'
  BY <1>1, <1>2 DEF IInv, Typed, ServerKeeps
<1>5. LogInv' /\ LoginInv'
  BY <1>1, <1>2 DEF IInv, LogInv, LoginInv, LoginAnswer, ServerKeeps
<1> QED
  BY <1>3, <1>4, <1>5 DEF IInv

LEMMA NotifyStep ==
  ASSUME IInv, NEW kind \in {"item", "usage", "error"} \cup Ends, Notify(kind)
  PROVE  IInv'
<1> DEFINE m == Message(kind, 0, "own")
<1>1. m \in Messages /\ m.kind = kind /\ m.id = 0 /\ m.turn = "own"
  BY DEF Message, Messages, Turns
<1>2. kind \notin {"ok", "hollow", "err", "ask"}
  BY DEF Ends
<1>3. server \in Servers /\ log \in Logs /\ server.thread \in {"asked", "other"}
  BY DEF IInv, Typed, Servers
<1>4. /\ ServerKeeps /\ server'.answered = server.answered
      /\ server'.used = IF kind = "usage" THEN server.used + 1 ELSE server.used
      /\ server'.turn = IF kind \in Ends THEN kind ELSE server.turn
  <2> DEFINE end == IF kind \in Ends THEN kind ELSE server.turn
             used == IF kind = "usage" THEN server.used + 1 ELSE server.used
             item == server.item \/ kind = "item"
             erred == server.erred \/ kind = "error"
  <2>1. server' = [server EXCEPT !.events = @ + 1, !.turn = end, !.item = item,
                                 !.used = used, !.erred = erred]
    BY DEF Notify
  <2>2. end \in {None, "running"} \cup Ends
    BY <1>3 DEF Servers
  <2>3. used \in Nat /\ server.events + 1 \in Nat
    BY <1>3 DEF Servers
  <2>4. item \in BOOLEAN /\ erred \in BOOLEAN
    BY <1>3 DEF Servers
  <2> HIDE DEF end, used, item, erred
  <2>5. ServerKeeps /\ server'.answered = server.answered /\ server'.used = used /\ server'.turn = end
    BY ZenonT(40), <1>3, <2>1, <2>2, <2>3, <2>4 DEF Servers, ServerKeeps
  <2> QED
    BY <2>5 DEF end, used
<1>5. Say(m) /\ pc # "done" /\ server.turn = "running"
  BY DEF Notify, Answerable
<1>6. lines' \in Seq(Messages) /\ LoginInv'
  BY <1>1, <1>2, <1>4, <1>5, SaidFacts DEF LoginAnswer
<1>7. log' = Logged(log, m)
  BY <1>5 DEF Say
<1>8. log' \in Logs /\ LogInv'
  <2>1. run' = run
    BY <1>5 DEF Say
  <2>2. LogInv
    BY DEF IInv
  <2>3. log.end \in {None} \cup Ends
    BY <1>3 DEF Logs
  <2> QED
    BY <1>1, <1>3, <1>4, <1>5, <1>7, <2>1, <2>2, <2>3, LoggedFacts
       DEF LogInv, ServerKeeps, Ends, None
<1>9. UNCHANGED <<run, known, pc, late, timedOut, refused, interrupted, result>>
  BY <1>5 DEF Say
<1>10. FlowInv' /\ ResultInv'
  BY <1>4, <1>5, <1>9, OthersKept
<1>11. Typed'
  BY <1>4, <1>6, <1>8, <1>9 DEF IInv, Typed, ServerKeeps
<1> QED
  BY <1>6, <1>8, <1>10, <1>11 DEF IInv

LEMMA RepeatStep ==
  ASSUME IInv, NEW kind \in {"item", "usage", "completed"}, Repeat(kind)
  PROVE  IInv'
<1> DEFINE m == Message(kind, 0, "old")
<1>1. m \in Messages /\ m.kind = kind /\ m.id = 0 /\ m.turn = "old"
  BY DEF Message, Messages, Turns, Ends
<1>2. server \in Servers /\ log \in Logs /\ server.thread \in {"asked", "other"}
  BY DEF IInv, Typed, Servers
<1>3. /\ ServerKeeps /\ server'.answered = server.answered
      /\ server'.used = server.used /\ server'.turn = server.turn
  BY <1>2 DEF Repeat, Servers, ServerKeeps
<1>4. Say(m) /\ pc # "done"
  BY DEF Repeat, Answerable
<1>5. lines' \in Seq(Messages) /\ LoginInv'
  BY <1>1, <1>3, <1>4, SaidFacts DEF LoginAnswer
<1>6. log' = Logged(log, m)
  BY <1>4 DEF Say
<1>7. log' \in Logs /\ LogInv'
  <2>1. run' = run
    BY <1>4 DEF Say
  <2>2. LogInv
    BY DEF IInv
  <2> QED
    BY <1>1, <1>2, <1>3, <1>6, <2>1, <2>2, LoggedFacts DEF LogInv, ServerKeeps, None
<1>8. UNCHANGED <<run, known, pc, late, timedOut, refused, interrupted, result>>
  BY <1>4 DEF Say
<1>9. FlowInv' /\ ResultInv'
  BY <1>3, <1>4, <1>8, OthersKept
<1>10. Typed'
  BY <1>3, <1>5, <1>7, <1>8 DEF IInv, Typed, ServerKeeps
<1> QED
  BY <1>5, <1>7, <1>9, <1>10 DEF IInv

LEMMA AskStep ==
  ASSUME IInv, NEW m \in Messages, m.kind \in {"ask", "refresh"}, m.id \in {0, 3}, Ask(m)
  PROVE  IInv'
<1>1. server \in Servers /\ log \in Logs /\ server.thread \in {"asked", "other"}
  BY DEF IInv, Typed, Servers
<1>2. /\ ServerKeeps /\ server'.answered = server.answered
      /\ server'.used = server.used /\ server'.turn = server.turn
  BY <1>1 DEF Ask, Servers, ServerKeeps
<1>3. Say(m) /\ pc # "done"
  BY DEF Ask, Answerable
<1>4. lines' \in Seq(Messages) /\ LoginInv'
  BY <1>2, <1>3, SaidFacts DEF LoginAnswer
<1>5. log' = Logged(log, m)
  BY <1>3 DEF Say
<1>6. log' \in Logs /\ LogInv'
  <2>1. run' = run
    BY <1>3 DEF Say
  <2>2. LogInv
    BY DEF IInv
  <2> QED
    BY <1>1, <1>2, <1>5, <2>1, <2>2, LoggedFacts DEF LogInv, ServerKeeps, Ends, None
<1>7. UNCHANGED <<run, known, pc, late, timedOut, refused, interrupted, result>>
  BY <1>3 DEF Say
<1>8. FlowInv' /\ ResultInv'
  BY <1>2, <1>3, <1>7, OthersKept
<1>9. Typed'
  BY <1>2, <1>4, <1>6, <1>7 DEF IInv, Typed, ServerKeeps
<1> QED
  BY <1>4, <1>6, <1>8, <1>9 DEF IInv

LEMMA ExitStep ==
  ASSUME IInv, NEW code \in {0, 1}, Exit(code)
  PROVE  IInv'
<1>1. /\ server' \in Servers /\ server'.state = "gone" /\ server.state = "running"
      /\ server'.sent = server.sent /\ server'.answered = server.answered
      /\ server'.thread = server.thread /\ server'.confined = server.confined
      /\ server'.turn = server.turn /\ server'.used = server.used
  BY DEF IInv, Typed, Exit, Servers, Running
<1>2. UNCHANGED <<run, lines, log, known, pc, late, timedOut, refused, interrupted, result>>
  BY DEF Exit
<1>3. Typed'
  BY <1>1, <1>2 DEF IInv, Typed
<1>4. LogInv' /\ LoginInv'
  BY <1>1, <1>2 DEF IInv, LogInv, LoginInv, LoginAnswer
<1>5. FlowInv'
  BY <1>1, <1>2 DEF IInv, FlowInv, Waits
<1>6. ResultInv'
  BY <1>1, <1>2 DEF IInv, FlowInv, ResultInv, SuccessIsReal, UsageIsOwnTurn
<1> QED
  BY <1>3, <1>4, <1>5, <1>6 DEF IInv

\* The server reads the prompt that was too large for the pipe.
LEMMA TakePromptStep ==
  ASSUME IInv, TakePrompt
  PROVE  IInv'
<1>1. /\ server' \in Servers /\ server'.state = server.state /\ server.state = "running"
      /\ server'.sent = server.sent \cup {3} /\ server'.answered = server.answered
      /\ server'.thread = server.thread /\ server'.confined = server.confined
      /\ server'.turn = server.turn /\ server'.used = server.used
  <2>1. /\ server \in Servers /\ server.state = "running"
        /\ server' = [server EXCEPT !.sent = @ \cup {3}]
    BY DEF IInv, Typed, TakePrompt, Running
  <2>2. server.sent \cup {3} \in SUBSET Ids
    BY <2>1 DEF Servers, Ids
  <2>3. server' \in Servers
    BY <2>1, <2>2 DEF Servers
  <2> QED
    BY <2>1, <2>3 DEF Servers
<1>2. /\ pc = "sending" /\ pc' = "start"
      /\ UNCHANGED <<run, lines, log, known, late, timedOut, refused, interrupted, result>>
  BY DEF TakePrompt
<1>3. Typed'
  BY <1>1, <1>2 DEF IInv, Typed
<1>4. LogInv' /\ LoginInv'
  BY <1>1, <1>2 DEF IInv, LogInv, LoginInv, LoginAnswer
<1>5. FlowInv'
  BY <1>1, <1>2 DEF IInv, FlowInv, Waits
<1>6. ResultInv'
  BY <1>1, <1>2 DEF IInv, ResultInv, SuccessIsReal, UsageIsOwnTurn
<1> QED
  BY <1>3, <1>4, <1>5, <1>6 DEF IInv

LEMMA ServerStepKeeps ==
  ASSUME IInv, ServerStep
  PROVE  IInv'
<1>1. CASE \E id \in Ids, kind \in {"ok", "hollow", "err"} : Answer(id, kind)
  BY <1>1, AnswerStep
<1>2. CASE Begin
  BY <1>2, BeginStep
<1>3. CASE \E kind \in {"item", "usage", "error"} \cup Ends : Notify(kind)
  BY <1>3, NotifyStep
<1>4. CASE \E kind \in {"item", "usage", "completed"} : Repeat(kind)
  BY <1>4, RepeatStep
<1>5. CASE TakePrompt
  BY <1>5, TakePromptStep
<1>6. CASE \E account \in Turns : Ask(Message("refresh", 0, account))
  <2>1. \A account \in Turns : Message("refresh", 0, account) \in Messages
    BY DEF Message, Messages
  <2>2. \A account \in Turns : Message("refresh", 0, account).kind = "refresh"
                               /\ Message("refresh", 0, account).id = 0
    BY DEF Message
  <2> QED
    BY <1>6, <2>1, <2>2, AskStep
<1>7. CASE \E id \in Asked : Ask(Message("ask", id, "own"))
  <2>1. Asked \subseteq {0, 3}
    BY DEF Asked
  <2>2. \A id \in {0, 3} : Message("ask", id, "own") \in Messages
    BY DEF Message, Messages, Ids, Turns
  <2>3. \A id \in {0, 3} : Message("ask", id, "own").kind = "ask"
                           /\ Message("ask", id, "own").id = id
    BY DEF Message
  <2> QED
    BY <1>7, <2>1, <2>2, <2>3, AskStep
<1>8. CASE \E code \in {0, 1} : Exit(code)
  BY <1>8, ExitStep
<1> QED
  BY <1>1, <1>2, <1>3, <1>4, <1>5, <1>6, <1>7, <1>8 DEF ServerStep

-----------------------------------------------------------------------------
(* AOP's steps and time *)

\* Taking the first line of the queue keeps what is said of the others.
LEMMA TailFacts ==
  ASSUME lines \in Seq(Messages), lines # <<>>, lines' = Tail(lines)
  PROVE  /\ lines' \in Seq(Messages) /\ Head(lines) \in Messages
         /\ 1 \in DOMAIN lines /\ Head(lines) = lines[1]
         /\ \A i \in DOMAIN lines' : i + 1 \in DOMAIN lines /\ lines'[i] = lines[i + 1] /\ i \in Nat \ {0}
<1>1. Len(lines) \in Nat \ {0} /\ Len(lines') = Len(lines) - 1 /\ lines' \in Seq(Messages)
  OBVIOUS
<1>2. \A i \in 1..Len(lines') : i + 1 \in 1..Len(lines) /\ lines'[i] = lines[i + 1]
  BY <1>1
<1>3. Head(lines) = lines[1] /\ lines[1] \in Messages
  BY <1>1
<1> QED
  BY <1>1, <1>2, <1>3

\* What a line tells the turn of its requests.
LEMMA HeardFacts ==
  ASSUME NEW k \in Knowledge, NEW m \in Messages, m.kind = "ask" => m.id # 5
  PROVE  /\ Heard(k, m) \in Knowledge
         /\ Heard(k, m).got[5] = IF LoginAnswer(m) THEN m.kind ELSE k.got[5]
<1>1. k.got \in [Ids -> {None, "ok", "hollow", "err"}] /\ 5 \in Ids
  BY DEF Knowledge, Ids
<1>2. CASE m.kind \in {"ok", "hollow", "err"}
  <2> DEFINE got == [k.got EXCEPT ![m.id] = m.kind]
             thread == k.thread \/ (m.kind = "ok" /\ m.id = 2)
             turn == k.turn \/ (m.kind = "ok" /\ m.id = 3)
  <2>1. got \in [Ids -> {None, "ok", "hollow", "err"}] /\ got[5] = IF m.id = 5 THEN m.kind ELSE k.got[5]
    BY <1>1, <1>2
  <2>2. thread \in BOOLEAN /\ turn \in BOOLEAN
    BY DEF Knowledge
  <2>3. Heard(k, m) = [k EXCEPT !.got = got, !.thread = thread, !.turn = turn]
    BY <1>2 DEF Heard, Knowledge, Ends
  <2> HIDE DEF got, thread, turn
  <2> QED
    BY <1>2, <2>1, <2>2, <2>3 DEF Knowledge, LoginAnswer
<1>3. CASE m.kind = "ask" /\ m.id \in Ids
  <2> DEFINE got == [k.got EXCEPT ![m.id] = "hollow"]
  <2>1. got \in [Ids -> {None, "ok", "hollow", "err"}] /\ got[5] = k.got[5]
    BY <1>1, <1>3
  <2>2. Heard(k, m) = [k EXCEPT !.got = got]
    BY <1>3 DEF Heard, Knowledge, Ends
  <2> HIDE DEF got
  <2> QED
    BY <1>3, <2>1, <2>2 DEF Knowledge, LoginAnswer
<1>4. CASE m.kind \in Ends
  <2> DEFINE over == k.over \/ m.turn = "own"
  <2>1. over \in BOOLEAN
    BY DEF Knowledge
  <2>2. Heard(k, m) = [k EXCEPT !.over = over]
    BY <1>4 DEF Heard, Ends
  <2> HIDE DEF over
  <2> QED
    BY <1>4, <2>1, <2>2 DEF Knowledge, LoginAnswer, Ends
<1>5. CASE m.kind \notin {"ok", "hollow", "err"} \cup Ends /\ ~(m.kind = "ask" /\ m.id \in Ids)
  BY <1>5 DEF Heard, LoginAnswer
<1> QED
  BY <1>2, <1>3, <1>4, <1>5

LEMMA ReceiveStep ==
  ASSUME IInv, Receive
  PROVE  IInv'
<1> DEFINE m == Head(lines)
<1>1. /\ pc \in Waits /\ lines # <<>> /\ lines \in Seq(Messages) /\ lines' = Tail(lines)
      /\ UNCHANGED <<run, server, pc, late, timedOut, interrupted, result>>
  BY DEF Receive, IInv, Typed
<1>2. /\ lines' \in Seq(Messages) /\ m \in Messages /\ 1 \in DOMAIN lines /\ m = lines[1]
      /\ \A i \in DOMAIN lines' : i + 1 \in DOMAIN lines /\ lines'[i] = lines[i + 1] /\ i \in Nat \ {0}
  BY <1>1, TailFacts
<1>3. known' = Heard(known, m) /\ (Refresh(m) \/ UNCHANGED <<log, refused>>)
  BY DEF Receive
<1>4. /\ known' \in Knowledge
      /\ known'.got[5] = IF LoginAnswer(m) THEN m.kind ELSE known.got[5]
  BY <1>2, <1>3, HeardFacts DEF IInv, Typed, LoginInv
<1>5. /\ log' \in Logs /\ refused' \in BOOLEAN
      /\ log'.thread = log.thread /\ log'.end = log.end /\ log'.usage = log.usage
  <2>1. CASE UNCHANGED <<log, refused>>
    BY <2>1 DEF IInv, Typed
  <2>2. CASE Refresh(m)
    <3>1. PICK granted \in BOOLEAN :
            log' = [log EXCEPT !.err = @ \/ ~granted] /\ refused' = (refused \/ ~granted)
      BY <2>2 DEF Refresh
    <3> QED
      BY <3>1 DEF IInv, Typed, Logs
  <2> QED
    BY <1>3, <2>1, <2>2
<1>6. LoginInv'
  <2>1. LoginInv
    BY DEF IInv
  <2>2. CASE LoginAnswer(m)
    <3>1. \A i \in DOMAIN lines' : ~LoginAnswer(lines'[i])
      BY <1>2, <2>1, <2>2 DEF LoginInv
    <3>2. 5 \in server.answered
      BY <1>2, <2>1, <2>2 DEF LoginInv
    <3> QED
      BY <1>1, <1>2, <2>1, <3>1, <3>2 DEF LoginInv, LoginAnswer
  <2>3. CASE ~LoginAnswer(m)
    <3>1. known'.got[5] = known.got[5]
      BY <1>4, <2>3
    <3>2. ASSUME NEW i \in DOMAIN lines', LoginAnswer(lines'[i])
          PROVE  /\ 5 \in server'.answered /\ known'.got[5] = None
                 /\ \A j \in DOMAIN lines' : LoginAnswer(lines'[j]) => i = j
      <4>1. i + 1 \in DOMAIN lines /\ LoginAnswer(lines[i + 1])
        BY <1>2, <3>2
      <4>2. 5 \in server.answered /\ known.got[5] = None
        BY <2>1, <4>1 DEF LoginInv
      <4>3. ASSUME NEW j \in DOMAIN lines', LoginAnswer(lines'[j])
            PROVE  i = j
        <5>1. j + 1 \in DOMAIN lines /\ LoginAnswer(lines[j + 1])
          BY <1>2, <4>3
        <5>2. i + 1 = j + 1
          BY <2>1, <4>1, <5>1 DEF LoginInv
        <5> QED
          BY <1>2, <5>2
      <4> QED
        BY <1>1, <3>1, <4>2, <4>3
    <3>3. \A i \in DOMAIN lines' : lines'[i].kind = "ask" => lines'[i].id # 5
      BY <1>2, <2>1 DEF LoginInv
    <3>4. 5 \notin server'.answered => known'.got[5] = None
      BY <1>1, <2>1, <3>1 DEF LoginInv
    <3> QED
      BY <3>2, <3>3, <3>4 DEF LoginInv
  <2> QED
    BY <2>2, <2>3
<1>7. FlowInv'
  <2>1. known.got[5] # None => known'.got[5] = known.got[5]
    BY <1>2, <1>4 DEF IInv, LoginInv
  <2> QED
    BY <1>1, <2>1 DEF IInv, FlowInv, Waits, None
<1>8. Typed'
  BY <1>1, <1>2, <1>4, <1>5 DEF IInv, Typed
<1>9. LogInv'
  BY <1>1, <1>5 DEF IInv, LogInv
<1>10. ResultInv'
  BY <1>1 DEF IInv, ResultInv, SuccessIsReal, UsageIsOwnTurn, Waits
<1> QED
  BY <1>6, <1>7, <1>8, <1>9, <1>10 DEF IInv

LEMMA LaunchStep ==
  ASSUME IInv, Launch
  PROVE  IInv'
<1>1. /\ server' \in Servers /\ server'.state \in {"running", "gone"}
      /\ (pc' = "join" => server'.state = "gone") /\ pc' \in {"init", "join"}
      /\ server'.sent \cap {3, 4} = {} /\ server'.answered = server.answered
      /\ server'.thread = server.thread /\ server'.turn = server.turn
      /\ server'.used = server.used
  <2>1. server \in Servers /\ server.sent \cap {3, 4} = {}
    BY DEF IInv, Typed, FlowInv, Launch
  <2>2. CASE pc' = "init"
    <3>1. server' = [server EXCEPT !.state = "running", !.sent = {1}]
      BY <2>2 DEF Launch
    <3>2. {1} \in SUBSET Ids /\ {1} \cap {3, 4} = {}
      BY DEF Ids
    <3> QED
      BY <2>1, <2>2, <3>1, <3>2 DEF Servers
  <2>3. CASE pc' = "join"
    <3>1. server' = [server EXCEPT !.state = "gone", !.code = 127]
      BY <2>3 DEF Launch
    <3> QED
      BY ZenonT(40), <2>1, <2>3, <3>1 DEF Servers, Ids
  <2> QED
    BY <2>2, <2>3 DEF Launch
<1>2. pc = "launch" /\ UNCHANGED <<run, lines, log, known, late, timedOut, refused, interrupted, result>>
  BY DEF Launch
<1>3. Typed'
  BY <1>1, <1>2 DEF IInv, Typed
<1>4. LogInv' /\ LoginInv'
  BY <1>1, <1>2 DEF IInv, LogInv, LoginInv, LoginAnswer
<1>5. FlowInv'
  BY <1>1, <1>2 DEF FlowInv, Waits
<1>6. ResultInv'
  BY <1>1, <1>2 DEF IInv, ResultInv, SuccessIsReal, UsageIsOwnTurn
<1> QED
  BY <1>3, <1>4, <1>5, <1>6 DEF IInv

\* A step of the turn itself: what it may do to the server's record is to send a request,
\* and to the queue to leave it unread.
Sends(ids) ==
  /\ server' \in Servers /\ server'.state = server.state /\ server'.answered = server.answered
  /\ server'.thread = server.thread /\ server'.turn = server.turn /\ server'.used = server.used
  /\ server'.confined = server.confined /\ server'.sent = server.sent \cup ids

LEMMA SendFacts ==
  ASSUME server \in Servers
  PROVE  /\ \A id \in Ids : Send(id) => Sends({id})
         /\ UNCHANGED server => Sends({})
BY DEF Servers, Send, Sends

LEMMA TurnKept ==
  ASSUME IInv, NEW ids \in SUBSET Ids, Sends(ids), lines' \in {lines, <<>>},
         UNCHANGED <<run, log, known, result>>, pc # "done", pc' # "done",
         timedOut' \in BOOLEAN, refused' \in BOOLEAN, late' \in BOOLEAN
  PROVE  Typed' /\ LogInv' /\ LoginInv' /\ ResultInv'
<1>1. <<>> \in Seq(Messages) /\ DOMAIN <<>> = {}
  BY EmptySeq
<1>2. Typed'
  BY <1>1 DEF IInv, Typed, Sends
<1>3. LogInv'
  BY DEF IInv, LogInv, Sends
<1>4. LoginInv'
  <2>1. CASE lines' = lines
    BY <2>1 DEF IInv, LoginInv, LoginAnswer, Sends
  <2>2. CASE lines' = <<>>
    BY <1>1, <2>2 DEF IInv, LoginInv, LoginAnswer, Sends
  <2> QED
    BY <2>1, <2>2
<1>5. ResultInv'
  BY DEF IInv, ResultInv, SuccessIsReal, UsageIsOwnTurn
<1> QED
  BY <1>2, <1>3, <1>4, <1>5

LEMMA GoOnStep ==
  ASSUME IInv, GoOn
  PROVE  IInv'
<1>1. /\ Reached /\ Accepted /\ (Initialized \/ LoggedIn \/ ThreadOpened \/ TurnAccepted \/ TurnOver)
      /\ UNCHANGED <<run, log, known, late, timedOut, interrupted, result>>
      /\ lines' \in {lines, <<>>}
  BY DEF GoOn, Unread
<1>2. server \in Servers /\ FlowInv /\ refused \in BOOLEAN /\ timedOut \in BOOLEAN
      /\ late \in BOOLEAN /\ run.noWeb \in BOOLEAN /\ run.auth \in BOOLEAN
  BY DEF IInv, Typed
<1> DEFINE Goal == /\ pc # "done" /\ pc' # "done" /\ refused' \in BOOLEAN /\ FlowInv'
                   /\ \E ids \in SUBSET Ids : Sends(ids)
<1>3. ASSUME Initialized PROVE Goal
  <2>1. /\ pc = "init" /\ refused' = refused
        /\ (run.auth /\ pc' = "login" /\ Sends({5})) \/ (~run.auth /\ pc' = "thread" /\ Sends({2}))
    BY <1>2, <1>3, SendFacts DEF Initialized, Ids
  <2>2. /\ server'.state = server.state /\ server'.confined = server.confined
        /\ (3 \in server'.sent => 3 \in server.sent)
        /\ (4 \in server'.sent => 4 \in server.sent)
    BY <2>1 DEF Sends
  <2>3. FlowInv'
    BY <1>1, <1>2, <2>1, <2>2 DEF FlowInv, Waits
  <2>4. \E ids \in SUBSET Ids : Sends(ids)
    <3>1. {} \in SUBSET Ids /\ \A id \in Ids : {id} \in SUBSET Ids
      OBVIOUS
    <3> QED
      BY <2>1, <3>1 DEF Ids
  <2> QED
    BY <1>2, <2>1, <2>3, <2>4
<1>4. ASSUME LoggedIn PROVE Goal
  <2>1. pc = "login" /\ refused' = refused /\ pc' = "thread" /\ Sends({2}) /\ known.got[5] = "ok"
    BY <1>1, <1>2, <1>4, SendFacts DEF LoggedIn, Accepted, Awaited, Ids
  <2>2. /\ server'.state = server.state /\ server'.confined = server.confined
        /\ (3 \in server'.sent => 3 \in server.sent)
        /\ (4 \in server'.sent => 4 \in server.sent)
    BY <2>1 DEF Sends
  <2>3. FlowInv'
    BY <1>1, <1>2, <2>1, <2>2 DEF FlowInv, Waits
  <2>4. \E ids \in SUBSET Ids : Sends(ids)
    <3>1. {} \in SUBSET Ids /\ \A id \in Ids : {id} \in SUBSET Ids
      OBVIOUS
    <3> QED
      BY <2>1, <3>1 DEF Ids
  <2> QED
    BY <1>2, <2>1, <2>3, <2>4
<1>5. ASSUME ThreadOpened PROVE Goal
  <2>1. /\ pc = "thread" /\ refused' \in BOOLEAN
        /\ \/ pc' = "close" /\ Sends({})
           \/ pc' = "start" /\ Sends({3}) /\ (run.noWeb => server.confined)
           \/ pc' = "sending" /\ Sends({}) /\ (run.noWeb => server.confined)
    <3>1. \/ pc' = "close" /\ refused' \in {TRUE, refused} /\ UNCHANGED server
          \/ pc' = "start" /\ refused' = refused /\ Send(3) /\ (run.noWeb => server.confined)
          \/ pc' = "sending" /\ refused' = refused /\ UNCHANGED server /\ (run.noWeb => server.confined)
      BY <1>5, Zenon DEF ThreadOpened
    <3>2. pc = "thread" /\ 3 \in Ids
      BY <1>5 DEF ThreadOpened, Ids
    <3> QED
      BY <1>2, <3>1, <3>2, SendFacts
  <2>2. /\ server'.state = server.state /\ server'.confined = server.confined
        /\ (3 \in server'.sent => 3 \in server.sent \/ (pc' = "start" /\ (run.noWeb => server.confined)))
        /\ (pc' = "sending" => 3 \notin server'.sent /\ (run.noWeb => server.confined))
        /\ (4 \in server'.sent => 4 \in server.sent)
    BY <1>2, <2>1 DEF Sends, FlowInv
  <2>3. FlowInv'
    BY <1>1, <1>2, <2>1, <2>2 DEF FlowInv, Waits
  <2>4. \E ids \in SUBSET Ids : Sends(ids)
    <3>1. {} \in SUBSET Ids /\ \A id \in Ids : {id} \in SUBSET Ids
      OBVIOUS
    <3> QED
      BY <2>1, <3>1 DEF Ids
  <2> QED
    BY <1>2, <2>1, <2>3, <2>4
<1>6. ASSUME TurnAccepted PROVE Goal
  <2>1. pc = "start" /\ refused' = refused /\ pc' \in {"turn", "close"} /\ Sends({})
    BY <1>2, <1>6, SendFacts DEF TurnAccepted
  <2>2. /\ server'.state = server.state /\ server'.confined = server.confined
        /\ (3 \in server'.sent => 3 \in server.sent)
        /\ (4 \in server'.sent => 4 \in server.sent)
    BY <2>1 DEF Sends
  <2>3. FlowInv'
    BY <1>1, <1>2, <2>1, <2>2 DEF FlowInv, Waits
  <2>4. \E ids \in SUBSET Ids : Sends(ids)
    <3>1. {} \in SUBSET Ids /\ \A id \in Ids : {id} \in SUBSET Ids
      OBVIOUS
    <3> QED
      BY <2>1, <3>1 DEF Ids
  <2> QED
    BY <1>2, <2>1, <2>3, <2>4
<1>7. ASSUME TurnOver PROVE Goal
  <2>1. pc = "turn" /\ refused' = refused /\ pc' = "close" /\ Sends({})
    BY <1>2, <1>7, SendFacts DEF TurnOver
  <2>2. /\ server'.state = server.state /\ server'.confined = server.confined
        /\ (3 \in server'.sent => 3 \in server.sent)
        /\ (4 \in server'.sent => 4 \in server.sent)
    BY <2>1 DEF Sends
  <2>3. FlowInv'
    BY <1>1, <1>2, <2>1, <2>2 DEF FlowInv, Waits
  <2>4. \E ids \in SUBSET Ids : Sends(ids)
    <3>1. {} \in SUBSET Ids /\ \A id \in Ids : {id} \in SUBSET Ids
      OBVIOUS
    <3> QED
      BY <2>1, <3>1 DEF Ids
  <2> QED
    BY <1>2, <2>1, <2>3, <2>4
<1>8. Goal
  BY <1>1, <1>3, <1>4, <1>5, <1>6, <1>7
<1> QED
  BY <1>1, <1>2, <1>8, TurnKept DEF IInv

LEMMA GiveUpStep ==
  ASSUME IInv, GiveUp
  PROVE  IInv'
<1>1. /\ pc \in Waits \ {"sending", "interrupt"} /\ refused' = (refused \/ pc = "login") /\ timedOut' = late
      /\ UNCHANGED <<run, log, known, late, interrupted, result>> /\ lines' \in {lines, <<>>}
  BY DEF GiveUp, Unread
<1>2. server \in Servers /\ FlowInv /\ refused \in BOOLEAN /\ late \in BOOLEAN
  BY DEF IInv, Typed
<1>3. \/ late /\ pc = "turn" /\ pc' = "interrupt" /\ Sends({4})
      \/ pc' = "close" /\ Sends({})
  BY <1>2, SendFacts DEF GiveUp, Ids
<1>4. FlowInv'
  BY <1>1, <1>2, <1>3 DEF FlowInv, Sends, Waits
<1>5. (\E ids \in SUBSET Ids : Sends(ids)) /\ refused' \in BOOLEAN /\ pc # "done"
      /\ pc' # "done"
  BY <1>1, <1>2, <1>3 DEF Ids, Waits
<1> QED
  BY <1>1, <1>2, <1>4, <1>5, TurnKept DEF IInv

\* The steps from the end of the interrupt to the stop, the deadline, and the broken pipe.
LEMMA PassingStep ==
  ASSUME IInv, InterruptOver \/ Close \/ Grace \/ Tick \/ PipeBroken
  PROVE  IInv'
<1>1. /\ UNCHANGED <<run, server, log, known, timedOut, refused, result>>
      /\ lines' \in {lines, <<>>} /\ late' \in BOOLEAN /\ pc \notin {"launch", "join", "done"}
      /\ pc' = pc \/ pc' \in {"close", "grace", "stop"} \/ (pc = "sending" /\ pc' = "start")
         \/ (pc' = "join" /\ pc \in {"close", "grace"} /\ ~Running)
  BY DEF IInv, Typed, InterruptOver, Close, Grace, Tick, PipeBroken, Waits
<1>2. server \in Servers /\ FlowInv /\ refused \in BOOLEAN /\ timedOut \in BOOLEAN
  BY DEF IInv, Typed
<1>3. FlowInv'
  BY <1>1, <1>2 DEF FlowInv, Waits, Running, Servers
<1>4. Sends({}) /\ {} \in SUBSET Ids
  BY <1>1, <1>2, SendFacts
<1> QED
  BY <1>1, <1>2, <1>3, <1>4, TurnKept DEF IInv

LEMMA StopStep ==
  ASSUME IInv, Stop \/ Kill
  PROVE  IInv'
<1>1. /\ UNCHANGED <<run, lines, log, known, late, timedOut, refused, interrupted, result>>
      /\ (pc = "stop" /\ pc' = "killing" /\ server'.state = server.state)
         \/ (pc = "killing" /\ pc' = "join" /\ server'.state = "gone")
      /\ server' \in Servers /\ server'.sent = server.sent /\ server'.answered = server.answered
      /\ server'.thread = server.thread /\ server'.confined = server.confined
      /\ server'.turn = server.turn /\ server'.used = server.used
  <2>1. server \in Servers /\ (pc = "killing" => server.state # "absent")
    BY DEF IInv, Typed, FlowInv
  <2>2. CASE Stop
    <3> DEFINE told == Running
    <3>1. server' = [server EXCEPT !.told = told] /\ told \in BOOLEAN
      BY <2>2 DEF Stop, Running
    <3> HIDE DEF told
    <3> QED
      BY <2>1, <2>2, <3>1 DEF Stop, Servers
  <2>3. CASE Kill
    BY <2>1, <2>3 DEF Kill, Running, Servers
  <2> QED
    BY <2>2, <2>3
<1>2. Typed'
  BY <1>1 DEF IInv, Typed
<1>3. LogInv' /\ LoginInv'
  BY <1>1 DEF IInv, LogInv, LoginInv, LoginAnswer
<1>4. FlowInv'
  BY <1>1 DEF IInv, FlowInv, Waits
<1>5. ResultInv'
  BY <1>1 DEF IInv, ResultInv, SuccessIsReal, UsageIsOwnTurn
<1> QED
  BY <1>2, <1>3, <1>4, <1>5 DEF IInv

\* The result is made of what the parse, the server and the turn agree on.
LEMMA FinishStep ==
  ASSUME IInv, Finish
  PROVE  IInv'
<1>1. /\ UNCHANGED <<run, server, lines, log, known, late, timedOut, refused, interrupted>>
      /\ pc = "join" /\ pc' = "done"
      /\ result'.status = IF Error \/ ~Answered THEN "failed" ELSE "succeeded"
      /\ result'.usage = OwnUsage
  BY DEF Finish
<1>2. Typed'
  BY <1>1 DEF IInv, Typed
<1>3. LogInv' /\ LoginInv'
  BY <1>1 DEF IInv, LogInv, LoginInv, LoginAnswer
<1>4. FlowInv'
  BY <1>1 DEF IInv, FlowInv, Waits
<1>5. ASSUME ~Error, Answered
      PROVE  /\ server.turn = "completed" /\ server.code = 0 /\ server.thread = "asked"
             /\ ~refused /\ ~timedOut /\ 4 \notin server.sent
  <2>1. log.end = "completed" /\ log.thread # None /\ (run.resume => log.thread = "asked")
        /\ server.code = 0 /\ ~refused /\ ~timedOut
    BY <1>5 DEF Error, OwnEnd, Mismatch, IInv, Typed, Logs, Ends, None
  <2> QED
    BY <2>1 DEF IInv, LogInv, FlowInv, None
<1>6. SuccessIsReal'
  BY <1>1, <1>5 DEF SuccessIsReal
<1>7. UsageIsOwnTurn'
  BY <1>1 DEF UsageIsOwnTurn, OwnUsage, IInv, LogInv
<1>8. ResultInv'
  BY <1>1, <1>6, <1>7 DEF ResultInv
<1> QED
  BY <1>2, <1>3, <1>4, <1>8 DEF IInv

-----------------------------------------------------------------------------
LEMMA NextKeeps ==
  ASSUME IInv, [Next]_vars
  PROVE  IInv'
<1>1. CASE ServerStep
  BY <1>1, ServerStepKeeps
<1>2. CASE Tick \/ InterruptOver \/ Close \/ Grace \/ PipeBroken
  BY <1>2, PassingStep
<1>3. CASE Launch
  BY <1>3, LaunchStep
<1>4. CASE Receive
  BY <1>4, ReceiveStep
<1>5. CASE GoOn
  BY <1>5, GoOnStep
<1>6. CASE GiveUp
  BY <1>6, GiveUpStep
<1>7. CASE Stop \/ Kill
  BY <1>7, StopStep
<1>8. CASE Finish
  BY <1>8, FinishStep
<1>9. CASE UNCHANGED vars
  BY <1>9 DEF vars, IInv, Typed, LogInv, LoginInv, LoginAnswer, FlowInv, ResultInv,
              SuccessIsReal, UsageIsOwnTurn
<1> QED
  BY <1>1, <1>2, <1>3, <1>4, <1>5, <1>6, <1>7, <1>8, <1>9 DEF Next, Aop, Over

LEMMA Inductive == Spec => []IInv
BY InitInv, NextKeeps, PTL DEF Spec

-----------------------------------------------------------------------------
(* An answer that was given is reported *)

\* The answer that names the thread.
ThreadAnswer(m) == m.kind = "ok" /\ m.id = 2

\* What the server has said of the thread, the turn, its answer and its errors is in the parse.
HeardInv ==
  /\ \A i \in DOMAIN lines : ThreadAnswer(lines[i]) => log.thread = server.thread
  /\ known.thread => log.thread = server.thread
  /\ pc = "sending" \/ 3 \in server.sent => known.thread
  /\ 3 \in server.answered => 3 \in server.sent /\ (server.erred \/ log.turn)
  /\ server.item => log.item
  /\ log.err => server.erred \/ refused
  /\ server.turn = "completed" => log.end = "completed"

LEMMA LoggedAnswer ==
  ASSUME NEW l \in Logs, NEW m \in Messages, NEW n, n = Logged(l, m)
  PROVE  /\ ThreadAnswer(m) \/ l.thread = server.thread => n.thread = server.thread
         /\ l.turn \/ (m.kind = "ok" /\ m.id = 3) => n.turn
         /\ l.item \/ (m.kind = "item" /\ m.turn = "own") => n.item
         /\ n.err => l.err \/ m.kind \in {"err", "error"}
<1> USE DEF Ends, ThreadAnswer
<1>1. CASE m.kind = "ok"
  BY <1>1 DEF Logged, Logs
<1>2. CASE m.kind \in {"err", "error"}
  BY <1>2 DEF Logged, Logs
<1>3. CASE m.kind = "usage"
  <2>1. PICK u : n = [l EXCEPT !.usage = u]
    BY <1>3 DEF Logged, Logs
  <2> QED
    BY <1>3, <2>1 DEF Logs
<1>4. CASE m.kind = "item"
  BY <1>4 DEF Logged, Logs
<1>5. CASE m.kind \in {"completed", "failed", "interrupted"}
  BY <1>5 DEF Logged, Logs
<1>6. CASE m.kind \in {"ask", "refresh", "hollow"}
  BY <1>6 DEF Logged, Logs
<1> QED
  BY <1>1, <1>2, <1>3, <1>4, <1>5, <1>6 DEF Messages

LEMMA HeardThread ==
  ASSUME NEW k \in Knowledge, NEW m \in Messages, NEW n, n = Heard(k, m)
  PROVE  /\ n.thread => k.thread \/ ThreadAnswer(m)
         /\ k.thread => n.thread
<1> USE DEF Ends, ThreadAnswer
<1>1. CASE m.kind \in {"ok", "hollow", "err"}
  <2> DEFINE got == [k.got EXCEPT ![m.id] = m.kind]
             thread == k.thread \/ (m.kind = "ok" /\ m.id = 2)
             turn == k.turn \/ (m.kind = "ok" /\ m.id = 3)
  <2>1. n = [k EXCEPT !.got = got, !.thread = thread, !.turn = turn]
    BY <1>1 DEF Heard, Knowledge
  <2>2. n.thread = thread
    <3> HIDE DEF got, thread, turn
    <3> QED
      BY <2>1 DEF Knowledge
  <2> QED
    BY <2>2
<1>2. CASE m.kind \notin {"ok", "hollow", "err"}
  <2>1. n = k \/ (\E got : n = [k EXCEPT !.got = got]) \/ (\E over : n = [k EXCEPT !.over = over])
    BY <1>2 DEF Heard, Knowledge
  <2> QED
    BY <2>1 DEF Knowledge
<1> QED
  BY <1>1, <1>2

\* The server says something, and its record tells what.
LEMMA HeardSaid ==
  ASSUME IInv, HeardInv, NEW m \in Messages, Say(m),
         server'.sent = server.sent, server'.thread = server.thread,
         server.erred \/ m.kind \in {"err", "error"} => server'.erred,
         3 \in server'.answered => \/ 3 \in server.answered
                                   \/ 3 \in server.sent /\ (server'.erred \/ (m.kind = "ok" /\ m.id = 3)),
         server'.item => server.item \/ (m.kind = "item" /\ m.turn = "own"),
         server'.turn = "completed" =>
           IF m.kind \in Ends /\ m.turn = "own" THEN m.kind = "completed"
           ELSE server.turn = "completed"
  PROVE  HeardInv'
<1>1. log \in Logs /\ lines \in Seq(Messages) /\ server.thread \in {"asked", "other"}
  BY DEF IInv, Typed, Servers
<1>2. log' = Logged(log, m) /\ UNCHANGED <<known, refused, pc>> /\ lines' \in {lines, Append(lines, m)}
  BY DEF Say
<1>3. /\ ThreadAnswer(m) \/ log.thread = server.thread => log'.thread = server.thread
      /\ log.turn \/ (m.kind = "ok" /\ m.id = 3) => log'.turn
      /\ log.item \/ (m.kind = "item" /\ m.turn = "own") => log'.item
      /\ log'.err => log.err \/ m.kind \in {"err", "error"}
  BY <1>1, <1>2, LoggedAnswer
<1>4. log'.end = IF m.kind \in Ends /\ m.turn = "own" THEN m.kind ELSE log.end
  BY <1>1, <1>2, LoggedFacts
<1>5. \A i \in DOMAIN lines' : (i \in DOMAIN lines /\ lines'[i] = lines[i]) \/ lines'[i] = m
  BY <1>1, <1>2, AppendProperties, LenProperties
<1>6. \A i \in DOMAIN lines' : ThreadAnswer(lines'[i]) => log'.thread = server'.thread
  BY <1>3, <1>5 DEF HeardInv
<1> QED
  BY <1>2, <1>3, <1>4, <1>6 DEF HeardInv

\* Nothing is said or taken from the queue; the turn's request is sent in a thread only.
LEMMA HeardQuiet ==
  ASSUME HeardInv, UNCHANGED <<log, known>>, lines' \in {lines, <<>>}, refused => refused',
         server'.thread = server.thread, server'.answered = server.answered,
         server'.erred = server.erred, server'.item = server.item,
         server'.turn = server.turn \/ server'.turn = "running",
         pc' = "sending" \/ 3 \in server'.sent => pc = "sending" \/ 3 \in server.sent \/ known.thread,
         3 \in server.sent => 3 \in server'.sent
  PROVE  HeardInv'
<1>1. \A i \in DOMAIN lines' : i \in DOMAIN lines /\ lines'[i] = lines[i]
  OBVIOUS
<1> QED
  BY <1>1 DEF HeardInv

LEMMA HeardServer ==
  ASSUME IInv, HeardInv, ServerStep
  PROVE  HeardInv'
<1>0. server \in Servers
  BY DEF IInv, Typed
<1>1. ASSUME NEW id \in Ids, NEW kind \in {"ok", "hollow", "err"}, Answer(id, kind) PROVE HeardInv'
  <2> DEFINE m == Message(kind, id, "own")
  <2>1. m \in Messages /\ m.kind = kind /\ m.id = id /\ m.turn = "own" /\ m.kind \notin Ends
    BY DEF Message, Messages, Turns, Ends
  <2>2. PICK confined : server' = [server EXCEPT !.answered = @ \cup {id}, !.confined = confined,
                                     !.turn = IF id = 3 /\ kind = "err" THEN "failed" ELSE @,
                                     !.erred = @ \/ kind # "ok"]
    BY <1>1 DEF Answer
  <2>3. /\ server'.sent = server.sent /\ server'.thread = server.thread
        /\ server'.answered = server.answered \cup {id} /\ server'.item = server.item
        /\ server'.erred = (server.erred \/ kind # "ok")
        /\ server'.turn = server.turn \/ server'.turn = "failed"
    BY <1>0, <2>2 DEF Servers
  <2>4. Say(m) /\ id \in server.sent
    BY <1>1 DEF Answer
  <2> HIDE DEF m
  <2> QED
    BY <2>1, <2>3, <2>4, HeardSaid
<1>2. CASE Begin
  <2>1. server' = [server EXCEPT !.turn = "running"]
    BY <1>2 DEF Begin
  <2>2. /\ server'.sent = server.sent /\ server'.thread = server.thread
        /\ server'.answered = server.answered /\ server'.item = server.item
        /\ server'.erred = server.erred /\ server'.turn = "running"
    BY <1>0, <2>1 DEF Servers
  <2> QED
    BY <1>2, <2>2, HeardQuiet DEF Begin
<1>3. ASSUME NEW kind \in {"item", "usage", "error"} \cup Ends, Notify(kind)
      PROVE  HeardInv'
  <2> DEFINE m == Message(kind, 0, "own")
             item == server.item \/ kind = "item"
             end == IF kind \in Ends THEN kind ELSE server.turn
             erred == server.erred \/ kind = "error"
  <2>1. m \in Messages /\ m.kind = kind /\ m.id = 0 /\ m.turn = "own" /\ m.kind \notin {"ok", "hollow", "err"}
    BY DEF Message, Messages, Turns, Ends
  <2>2. \E n, used : server' = [server EXCEPT !.events = n, !.turn = end, !.item = item,
                                             !.used = used, !.erred = erred]
    BY <1>3 DEF Notify
  <2>3. Say(m)
    BY <1>3 DEF Notify
  <2>4. /\ server'.sent = server.sent /\ server'.thread = server.thread
        /\ server'.answered = server.answered /\ server'.item = item
        /\ server'.erred = erred /\ server'.turn = end
    <3> HIDE DEF item, end, erred
    <3> QED
      BY <1>0, <2>2 DEF Servers
  <2> HIDE DEF m
  <2> QED
    BY <2>1, <2>3, <2>4, HeardSaid
<1>r. ASSUME NEW kind \in {"item", "usage", "completed"}, Repeat(kind) PROVE HeardInv'
  <2> DEFINE m == Message(kind, 0, "old")
  <2>1. m \in Messages /\ m.kind = kind /\ m.turn = "old" /\ m.kind \notin {"ok", "err", "error"}
    BY DEF Message, Messages, Turns, Ends
  <2>2. Say(m)
    BY <1>r DEF Repeat
  <2>3. /\ server'.sent = server.sent /\ server'.thread = server.thread
        /\ server'.answered = server.answered /\ server'.item = server.item
        /\ server'.erred = server.erred /\ server'.turn = server.turn
    BY <1>0, <1>r DEF Repeat, Servers
  <2> HIDE DEF m
  <2> QED
    BY <2>1, <2>2, <2>3, HeardSaid
<1>p. CASE TakePrompt
  <2>1. /\ server'.sent = server.sent \cup {3} /\ server'.thread = server.thread
        /\ server'.answered = server.answered /\ server'.item = server.item
        /\ server'.erred = server.erred /\ server'.turn = server.turn
    BY <1>0, <1>p DEF TakePrompt, Servers
  <2> QED
    BY <1>p, <2>1, HeardQuiet DEF TakePrompt
<1>4. ASSUME NEW m \in Messages, m.kind \in {"ask", "refresh"}, Ask(m) PROVE HeardInv'
  <2>1. Say(m) /\ m.kind \notin {"ok", "err", "item", "error"} \cup Ends
    BY <1>4 DEF Ask, Ends
  <2>2. /\ server'.sent = server.sent /\ server'.thread = server.thread
        /\ server'.answered = server.answered /\ server'.item = server.item
        /\ server'.erred = server.erred /\ server'.turn = server.turn
    BY <1>0, <1>4 DEF Ask, Servers
  <2> QED
    BY <2>1, <2>2, HeardSaid
<1>5. ASSUME NEW code \in {0, 1}, Exit(code) PROVE HeardInv'
  <2>1. /\ server'.sent = server.sent /\ server'.thread = server.thread
        /\ server'.answered = server.answered /\ server'.item = server.item
        /\ server'.erred = server.erred /\ server'.turn = server.turn
    BY <1>0, <1>5 DEF Exit, Servers
  <2> QED
    BY <1>5, <2>1, HeardQuiet DEF Exit
<1>6. /\ \A account \in Turns : /\ Message("refresh", 0, account) \in Messages
                                /\ Message("refresh", 0, account).kind \in {"ask", "refresh"}
      /\ \A id \in Asked : /\ Message("ask", id, "own") \in Messages
                           /\ Message("ask", id, "own").kind \in {"ask", "refresh"}
  BY DEF Message, Messages, Ids, Turns, Asked
<1> QED
  BY <1>1, <1>2, <1>3, <1>r, <1>p, <1>4, <1>5, <1>6 DEF ServerStep

LEMMA HeardReceive ==
  ASSUME IInv, HeardInv, Receive
  PROVE  HeardInv'
<1> DEFINE m == Head(lines)
<1>1. /\ lines # <<>> /\ lines \in Seq(Messages) /\ lines' = Tail(lines)
      /\ known \in Knowledge /\ log \in Logs /\ refused \in BOOLEAN /\ UNCHANGED <<server, pc>>
      /\ known' = Heard(known, m) /\ (Refresh(m) \/ UNCHANGED <<log, refused>>)
  BY DEF Receive, IInv, Typed
<1>2. /\ m \in Messages /\ 1 \in DOMAIN lines /\ m = lines[1]
      /\ \A i \in DOMAIN lines' : i + 1 \in DOMAIN lines /\ lines'[i] = lines[i + 1]
  BY <1>1, TailFacts
<1>3. /\ known'.thread => known.thread \/ ThreadAnswer(m)
      /\ known.thread => known'.thread
  BY <1>1, <1>2, HeardThread
<1>4. /\ log'.thread = log.thread /\ log'.turn = log.turn /\ log'.item = log.item
      /\ log'.end = log.end /\ (refused => refused') /\ (log'.err => log.err \/ refused')
  <2>1. CASE UNCHANGED <<log, refused>>
    BY <2>1
  <2>2. CASE Refresh(m)
    <3>1. PICK granted \in BOOLEAN :
            log' = [log EXCEPT !.err = @ \/ ~granted] /\ refused' = (refused \/ ~granted)
      BY <2>2 DEF Refresh
    <3> QED
      BY <1>1, <3>1 DEF Logs
  <2> QED
    BY <1>1, <2>1, <2>2
<1>5. \A i \in DOMAIN lines' : ThreadAnswer(lines'[i]) => log'.thread = server'.thread
  BY <1>1, <1>2, <1>4 DEF HeardInv
<1>6. ThreadAnswer(m) => log.thread = server.thread
  BY <1>2 DEF HeardInv
<1> QED
  BY <1>1, <1>3, <1>4, <1>5, <1>6 DEF HeardInv

LEMMA HeardAop ==
  ASSUME IInv, HeardInv,
         \/ Tick \/ Launch \/ GoOn \/ PipeBroken \/ GiveUp \/ InterruptOver
         \/ Close \/ Grace \/ Stop \/ Kill \/ Finish
  PROVE  HeardInv'
<1>0. server \in Servers /\ refused \in BOOLEAN /\ FlowInv
  BY DEF IInv, Typed
<1>1. CASE Launch
  <2>3. 3 \notin server.sent
    BY <1>0, <1>1 DEF Launch, FlowInv
  <2>1. CASE server' = [server EXCEPT !.state = "running", !.sent = {1}]
    <3>1. /\ server'.thread = server.thread /\ server'.answered = server.answered
          /\ server'.item = server.item /\ server'.erred = server.erred
          /\ server'.turn = server.turn /\ server'.sent = {1}
      BY <1>0, <2>1 DEF Servers
    <3> QED
      BY <1>1, <2>3, <3>1, HeardQuiet DEF Launch
  <2>2. CASE server' = [server EXCEPT !.state = "gone", !.code = 127]
    <3>1. /\ server'.thread = server.thread /\ server'.answered = server.answered
          /\ server'.item = server.item /\ server'.erred = server.erred
          /\ server'.turn = server.turn /\ server'.sent = server.sent
      BY <1>0, <2>2 DEF Servers
    <3> QED
      BY <1>1, <2>3, <3>1, HeardQuiet DEF Launch
  <2> QED
    BY <1>1, <2>1, <2>2 DEF Launch
<1>2. ASSUME UNCHANGED <<log, known>>, lines' \in {lines, <<>>}, refused => refused',
             NEW id \in Ids, UNCHANGED server \/ (Send(id) /\ (id = 3 => known.thread)),
             pc' = "sending" => known.thread
      PROVE  HeardInv'
  <2>1. /\ server'.thread = server.thread /\ server'.answered = server.answered
        /\ server'.item = server.item /\ server'.erred = server.erred
        /\ server'.turn = server.turn
        /\ server'.sent = server.sent \/ (server'.sent = server.sent \cup {id} /\ (id = 3 => known.thread))
    BY <1>0, <1>2 DEF Servers, Send
  <2> QED
    BY <1>2, <2>1, HeardQuiet
<1>3. CASE GoOn
  <2>1. /\ UNCHANGED <<log, known>> /\ lines' \in {lines, <<>>}
        /\ Initialized \/ LoggedIn \/ ThreadOpened \/ TurnAccepted \/ TurnOver
    BY <1>3 DEF GoOn, Unread
  <2>2. /\ (refused => refused') /\ (pc' = "sending" => known.thread)
        /\ UNCHANGED server \/ \E id \in Ids : Send(id) /\ (id = 3 => known.thread)
    <3>1. CASE Initialized \/ LoggedIn
      BY <3>1 DEF Initialized, LoggedIn, Ids
    <3>2. CASE ThreadOpened
      <4>1. \/ refused' = refused /\ (Send(3) \/ UNCHANGED server) /\ known.thread
            \/ refused' \in {TRUE, refused} /\ UNCHANGED server /\ pc' = "close"
        <5>1. CASE run.noWeb /\ ~server.confined
          BY <3>2, <5>1 DEF ThreadOpened
        <5>2. CASE ~(run.noWeb /\ ~server.confined) /\ known.thread
          BY <3>2, <5>2 DEF ThreadOpened
        <5>3. CASE ~(run.noWeb /\ ~server.confined) /\ ~known.thread
          BY <3>2, <5>3 DEF ThreadOpened
        <5> QED
          BY <5>1, <5>2, <5>3
      <4>2. 3 \in Ids
        BY DEF Ids
      <4> QED
        BY <1>0, <4>1, <4>2
    <3>3. CASE TurnAccepted \/ TurnOver
      BY <3>3 DEF TurnAccepted, TurnOver
    <3> QED
      BY <2>1, <3>1, <3>2, <3>3
  <2>3. 1 \in Ids
    BY DEF Ids
  <2> QED
    BY <1>2, <2>1, <2>2, <2>3
<1>4. CASE GiveUp
  <2>1. /\ UNCHANGED <<log, known>> /\ lines' \in {lines, <<>>} /\ (refused => refused')
        /\ UNCHANGED server \/ Send(4)
        /\ pc' # "sending"
    BY <1>4 DEF GiveUp, Unread
  <2> QED
    BY <1>2, <2>1 DEF Ids
<1>5. CASE Tick \/ PipeBroken \/ InterruptOver \/ Close \/ Grace \/ Finish
  <2>1. /\ UNCHANGED <<server, log, known, refused>> /\ lines' \in {lines, <<>>}
        /\ pc' = "sending" => pc = "sending"
    BY <1>5 DEF Tick, PipeBroken, InterruptOver, Close, Grace, Finish
  <2> QED
    BY <2>1, HeardQuiet
<1>6. CASE Stop \/ Kill
  <2>1. \/ UNCHANGED server \/ (\E told : server' = [server EXCEPT !.told = told])
        \/ server' = [server EXCEPT !.state = "gone", !.code = 1]
    BY <1>6 DEF Stop, Kill
  <2>2. /\ server'.thread = server.thread /\ server'.answered = server.answered
        /\ server'.item = server.item /\ server'.erred = server.erred
        /\ server'.turn = server.turn /\ server'.sent = server.sent
    <3>1. CASE UNCHANGED server
      BY <3>1
    <3>2. CASE \E told : server' = [server EXCEPT !.told = told]
      BY <1>0, <3>2 DEF Servers
    <3>3. CASE server' = [server EXCEPT !.state = "gone", !.code = 1]
      BY <1>0, <3>3 DEF Servers
    <3> QED
      BY <2>1, <3>1, <3>2, <3>3
  <2> QED
    BY <1>6, <2>2, HeardQuiet DEF Stop, Kill
<1> QED
  BY <1>1, <1>3, <1>4, <1>5, <1>6

LEMMA HeardNext == IInv /\ HeardInv /\ [Next]_vars => HeardInv'
<1> SUFFICES ASSUME IInv, HeardInv, [Next]_vars PROVE HeardInv'
  OBVIOUS
<1>1. CASE UNCHANGED vars
  BY <1>1, HeardQuiet DEF vars
<1> QED
  BY <1>1, HeardServer, HeardReceive, HeardAop DEF Next, Aop, Over

\* A run that is over stays as it is.
LEMMA DoneStays == IInv /\ pc = "done" /\ [Next]_vars => UNCHANGED vars
<1> SUFFICES ASSUME IInv, pc = "done", Next PROVE UNCHANGED vars
  OBVIOUS
<1>1. ~Running
  BY DEF IInv, FlowInv, Running
<1>2. ~ServerStep
  BY <1>1 DEF ServerStep, Answer, Begin, TakePrompt, Notify, Repeat, Ask, Exit, Answerable
<1>3. ~Tick /\ ~Aop
  BY DEF Tick, Waits, Aop, Launch, Receive, GoOn, Initialized, LoggedIn, ThreadOpened,
     TurnAccepted, TurnOver, PipeBroken, GiveUp, InterruptOver, Close, Grace, Stop, Kill, Finish
<1> QED
  BY <1>2, <1>3 DEF Next, Over

LEMMA AnswerNext ==
  IInv /\ HeardInv /\ AnswerIsReported /\ [Next]_vars => AnswerIsReported'
<1> SUFFICES ASSUME IInv, HeardInv, AnswerIsReported, [Next]_vars PROVE AnswerIsReported'
  OBVIOUS
<1>1. CASE pc = "done"
  BY <1>1, DoneStays DEF vars, AnswerIsReported
<1>2. CASE pc # "done" /\ Finish
  <2>1. SUFFICES ASSUME server.turn = "completed", server.item, 3 \in server.answered,
                        server.code = 0, ~server.erred, ~timedOut, ~refused,
                        server.thread = "asked"
                 PROVE  ~Error /\ Answered
    BY <1>2 DEF Finish, AnswerIsReported
  <2>2. /\ log.turn /\ log.item /\ ~log.err /\ log.end = "completed" /\ log.thread = "asked"
    BY <2>1 DEF HeardInv
  <2> QED
    BY <2>1, <2>2 DEF Error, OwnEnd, Mismatch, Answered, None
<1>3. CASE pc # "done" /\ ~Finish
  <2>1. pc' # "done"
    BY <1>3 DEF Next, ServerStep, Answer, Say, Begin, TakePrompt, Notify, Repeat, Ask, Exit, Tick, Aop,
       Launch, Receive, GoOn, Initialized, LoggedIn, ThreadOpened, TurnAccepted, TurnOver, PipeBroken, GiveUp,
       InterruptOver, Close, Grace, Stop, Kill, Over, vars
  <2> QED
    BY <2>1 DEF AnswerIsReported
<1> QED
  BY <1>1, <1>2, <1>3

\* A turn that completed with an answer, on a server that reports no error, gives the
\* identities it is asked for and exits by itself, is reported as a success, whatever else
\* the server says and asks, and when.
THEOREM AnswersAreReported == Spec => []AnswerIsReported
<1>1. Init => HeardInv /\ AnswerIsReported
  BY DEF Init, HeardInv, AnswerIsReported, None
<1> QED
  BY <1>1, Inductive, HeardNext, AnswerNext, PTL DEF Spec

\* Whatever the server says and when, a turn reported as a success has completed in the
\* thread asked for, by the deadline and with its requests granted (_run_app_server and
\* _parse_events).
THEOREM SuccessesAreReal == Spec => []SuccessIsReal
<1>1. IInv => SuccessIsReal
  BY DEF IInv, ResultInv
<1> QED
  BY Inductive, <1>1, PTL

\* The prompt goes only to a server that took the source's login and, under --no-web,
\* opened the thread in the profile that keeps it local.
THEOREM PromptsAreConfined == Spec => []PromptIsConfined
<1>1. IInv => PromptIsConfined
  BY DEF IInv, FlowInv, PromptIsConfined
<1> QED
  BY Inductive, <1>1, PTL

\* The usage of a resumed turn is its own, however much of earlier turns is repeated.
THEOREM UsagesAreOwn == Spec => []UsageIsOwnTurn
<1>1. IInv => UsageIsOwnTurn
  BY DEF IInv, ResultInv
<1> QED
  BY Inductive, <1>1, PTL

\* When the run is over its app-server is gone.
THEOREM ServerIsGone == Spec => []NothingLeftRunning
<1>1. IInv => NothingLeftRunning
  BY DEF IInv, FlowInv, NothingLeftRunning
<1> QED
  BY Inductive, <1>1, PTL

-----------------------------------------------------------------------------
(* Types, with what IInv leaves out of them *)

\* Each usage the stream tells of, of any turn, is an event of the server.
Limited ==
  /\ server.events <= MaxEvents /\ server.used <= server.events /\ server.old <= MaxOld
  /\ \A t \in Turns : log.usage[t] <= server.events + server.old
  /\ pc \in {"launch", "init", "login", "thread", "sending", "start", "turn", "interrupt",
             "close", "grace", "stop", "killing", "join", "done"}
  /\ interrupted \in BOOLEAN
  /\ result.status \in {None, "succeeded", "failed"} /\ result.usage \in 0..MaxEvents

\* What a line adds to the usage that is known.
LEMMA LoggedUsage ==
  ASSUME NEW l \in Logs, NEW m \in Messages, NEW t \in Turns
  PROVE  /\ Logged(l, m).usage[t] \in Nat /\ l.usage[t] \in Nat
         /\ Logged(l, m).usage[t] <= IF m.kind = "usage" THEN l.usage[t] + 1 ELSE l.usage[t]
<1>1. l.usage \in [Turns -> Nat] /\ m.turn \in Turns /\ l.usage[m.turn] + 1 \in Nat
  BY DEF Logs, Messages
<1>2. CASE m.kind = "usage"
  <2>1. Logged(l, m) = [l EXCEPT !.usage = [l.usage EXCEPT ![m.turn] = @ + 1]]
    BY <1>2 DEF Logged, Logs, Ends
  <2> QED
    BY <1>1, <1>2, <2>1 DEF Logs
<1>3. CASE m.kind # "usage"
  <2>1. Logged(l, m).usage = l.usage
    BY <1>3 DEF Logged, Logs
  <2> QED
    BY <1>1, <1>3, <2>1
<1> QED
  BY <1>2, <1>3

\* A step of the server counts an event for each usage it tells of.
LEMMA LimitedServer ==
  ASSUME IInv, Limited, ServerStep
  PROVE  Limited'
<1>1. /\ server \in Servers /\ log \in Logs /\ server.events \in Nat /\ server.used \in Nat
      /\ server.old \in Nat /\ MaxEvents \in Nat /\ \A t \in Turns : log.usage[t] \in Nat
  BY CodexAssumption DEF IInv, Typed, Servers, Logs
<1>2. ASSUME NEW id \in Ids, NEW kind \in {"ok", "hollow", "err"}, Answer(id, kind) PROVE Limited'
  <2>1. PICK confined \in BOOLEAN :
          server' = [server EXCEPT !.answered = @ \cup {id}, !.confined = @ \/ confined,
                                   !.turn = IF id = 3 /\ kind = "err" THEN "failed" ELSE @,
                                   !.erred = @ \/ kind # "ok"]
    BY <1>2 DEF Answer
  <2>2. server'.events = server.events /\ server'.old = server.old /\ server'.used = server.used
    BY <1>1, <2>1 DEF Servers
  <2> DEFINE m == Message(kind, id, "own")
  <2>3. m \in Messages /\ m.kind # "usage"
    BY DEF Message, Messages, Turns
  <2>4. log' = Logged(log, m) /\ UNCHANGED <<pc, interrupted, result>>
    BY <1>2 DEF Answer, Say
  <2>5. \A t \in Turns : log'.usage[t] \in Nat /\ log'.usage[t] <= log.usage[t]
    BY <1>1, <2>3, <2>4, LoggedUsage
  <2> HIDE DEF m
  <2> QED
    BY <1>1, <2>2, <2>4, <2>5 DEF Limited
<1>3. ASSUME NEW kind \in {"item", "usage", "error"} \cup Ends, Notify(kind) PROVE Limited'
  <2> DEFINE end == IF kind \in Ends THEN kind ELSE server.turn
             used == IF kind = "usage" THEN server.used + 1 ELSE server.used
             item == server.item \/ kind = "item"
             erred == server.erred \/ kind = "error"
             m == Message(kind, 0, "own")
  <2>1. server' = [server EXCEPT !.events = @ + 1, !.turn = end, !.item = item,
                                 !.used = used, !.erred = erred]
    BY <1>3 DEF Notify
  <2>2. used \in Nat /\ used <= server.used + 1
    BY <1>1
  <2>3. server.events < MaxEvents /\ log' = Logged(log, m) /\ UNCHANGED <<pc, interrupted, result>>
    BY <1>3 DEF Notify, Say
  <2>4. m \in Messages
    BY DEF Message, Messages, Turns
  <2>5. \A t \in Turns : log'.usage[t] \in Nat /\ log'.usage[t] <= log.usage[t] + 1
    BY <1>1, <2>3, <2>4, LoggedUsage
  <2> HIDE DEF end, used, item, erred, m
  <2>6. server'.events = server.events + 1 /\ server'.old = server.old /\ server'.used = used
    BY <1>1, <2>1 DEF Servers
  <2> QED
    BY <1>1, <2>2, <2>3, <2>5, <2>6 DEF Limited
<1>r. ASSUME NEW kind \in {"item", "usage", "completed"}, Repeat(kind) PROVE Limited'
  <2> DEFINE m == Message(kind, 0, "old")
  <2>1. /\ server'.events = server.events /\ server'.old = server.old + 1
        /\ server'.used = server.used
    BY <1>1, <1>r DEF Repeat, Servers
  <2>2. server.old < MaxOld /\ log' = Logged(log, m) /\ UNCHANGED <<pc, interrupted, result>>
    BY <1>r DEF Repeat, Say
  <2>3. m \in Messages
    BY DEF Message, Messages, Turns, Ends
  <2>4. \A t \in Turns : log'.usage[t] \in Nat /\ log'.usage[t] <= log.usage[t] + 1
    BY <1>1, <2>2, <2>3, LoggedUsage
  <2> HIDE DEF m
  <2>5. server.old + 1 <= MaxOld
    BY <1>1, <2>2, CodexAssumption
  <2> QED
    BY <1>1, <2>1, <2>2, <2>4, <2>5 DEF Limited
<1>p. ASSUME TakePrompt PROVE Limited'
  <2>1. /\ server'.events = server.events /\ server'.old = server.old /\ server'.used = server.used
        /\ UNCHANGED <<log, interrupted, result>> /\ pc' = "start"
    BY <1>1, <1>p DEF TakePrompt, Servers
  <2> QED
    BY <1>1, <2>1 DEF Limited
<1>4. ASSUME NEW m \in Messages, m.kind \in {"ask", "refresh"}, Ask(m) PROVE Limited'
  <2>1. /\ server'.events = server.events + 1 /\ server'.old = server.old
        /\ server'.used = server.used
    BY <1>1, <1>4 DEF Ask, Servers
  <2>2. server.events < MaxEvents /\ log' = Logged(log, m) /\ UNCHANGED <<pc, interrupted, result>>
    BY <1>4 DEF Ask, Say
  <2>3. \A t \in Turns : log'.usage[t] \in Nat /\ log'.usage[t] <= log.usage[t]
    BY <1>1, <1>4, <2>2, LoggedUsage
  <2> QED
    BY <1>1, <2>1, <2>2, <2>3 DEF Limited
<1>5. ASSUME Begin \/ \E code \in {0, 1} : Exit(code) PROVE Limited'
  <2>1. /\ server'.events = server.events /\ server'.old = server.old /\ server'.used = server.used
        /\ UNCHANGED <<log, pc, interrupted, result>>
    BY <1>1, <1>5 DEF Begin, Exit, Servers
  <2> QED
    BY <1>1, <2>1 DEF Limited
<1>6. /\ \A account \in Turns : Message("refresh", 0, account) \in Messages
      /\ \A id \in Asked : Message("ask", id, "own") \in Messages
  BY DEF Asked, Message, Messages, Turns, Ids
<1>7. ASSUME NEW account \in Turns, Ask(Message("refresh", 0, account)) PROVE Limited'
  BY <1>4, <1>6, <1>7 DEF Message
<1>8. ASSUME NEW id \in Asked, Ask(Message("ask", id, "own")) PROVE Limited'
  BY <1>4, <1>6, <1>8 DEF Message
<1> QED
  BY <1>2, <1>3, <1>r, <1>p, <1>5, <1>7, <1>8 DEF ServerStep

LEMMA LimitedNext ==
  ASSUME IInv, Limited, [Next]_vars
  PROVE  Limited'
<1>1. /\ server \in Servers /\ log \in Logs /\ server.events \in Nat /\ MaxEvents \in Nat
      /\ server.old \in Nat /\ server.used \in Nat
      /\ \A t \in Turns : log.usage[t] \in Nat
  BY CodexAssumption DEF IInv, Typed, Servers, Logs
<1>2. ASSUME Finish PROVE Limited'
  <2>1. OwnUsage \in 0..MaxEvents
    <3>1. log.usage["own"] = server.used
      BY DEF IInv, LogInv
    <3> QED
      BY <1>1, <3>1 DEF OwnUsage, Limited
  <2>2. /\ UNCHANGED <<server, log, interrupted>> /\ pc' = "done"
        /\ result'.usage = OwnUsage /\ result'.status \in {"succeeded", "failed"}
    BY <1>2 DEF Finish
  <2> HIDE DEF OwnUsage
  <2> QED
    BY <1>1, <2>1, <2>2 DEF Limited
<1>3. ASSUME Launch \/ GoOn \/ GiveUp \/ Stop \/ Kill PROVE Limited'
  <2>1. /\ server'.events = server.events /\ server'.old = server.old /\ server'.used = server.used
        /\ UNCHANGED <<log, interrupted, result>>
    <3>1. CASE Launch
      BY <1>1, <3>1 DEF Launch, Servers
    <3>2. CASE GoOn
      <4>1. server' = server \/ \E id \in Ids : Send(id)
        BY <3>2 DEF GoOn, Initialized, LoggedIn, ThreadOpened, TurnAccepted, TurnOver, Ids
      <4> QED
        BY <1>1, <3>2, <4>1 DEF GoOn, Send, Servers
    <3>3. CASE GiveUp
      BY <1>1, <3>3 DEF GiveUp, Send, Servers
    <3>4. CASE Stop \/ Kill
      BY <1>1, <3>4 DEF Stop, Kill, Servers
    <3> QED
      BY <1>3, <3>1, <3>2, <3>3, <3>4
  <2>2. pc' \in {"init", "join", "login", "thread", "sending", "start", "turn", "close", "interrupt", "killing"}
    BY <1>3 DEF Launch, GoOn, Initialized, LoggedIn, ThreadOpened, TurnAccepted, TurnOver,
                GiveUp, Stop, Kill
  <2> QED
    BY <1>1, <2>1, <2>2 DEF Limited
<1>4. ASSUME Receive PROVE Limited'
  <2>1. log'.usage = log.usage /\ UNCHANGED <<server, pc, interrupted, result>>
    BY <1>1, <1>4 DEF Receive, Refresh, Logs
  <2> QED
    BY <1>1, <2>1 DEF Limited
<1>5. ASSUME Tick \/ PipeBroken \/ InterruptOver \/ Close \/ Grace \/ UNCHANGED vars PROVE Limited'
  <2>1. UNCHANGED <<server, log, result>> /\ pc' \in {pc, "start", "close", "join", "stop", "grace"}
    BY <1>5 DEF Tick, PipeBroken, InterruptOver, Close, Grace, vars
  <2>2. interrupted' \in BOOLEAN
    <3>1. CASE InterruptOver
      <4>1. known.over \in BOOLEAN /\ pc = "interrupt" /\ interrupted' = Reached
        BY <3>1 DEF InterruptOver, IInv, Typed, Knowledge
      <4> QED
        BY <4>1 DEF Reached
    <3>2. CASE Tick \/ PipeBroken \/ Close \/ Grace \/ UNCHANGED vars
      BY <3>2 DEF Tick, PipeBroken, Close, Grace, vars, Limited
    <3> QED
      BY <1>5, <3>1, <3>2
  <2> QED
    BY <1>1, <2>1, <2>2 DEF Limited
<1> QED
  BY <1>2, <1>3, <1>4, <1>5, LimitedServer DEF Next, Aop, Over

\* Whatever the server sends, its own requests and what it repeats of earlier turns
\* included, the turn's state stays what _run_app_server and _parse_events take it for,
\* and a usage is never more than the server told of.
THEOREM TypeCorrect == Spec => []TypeOK
<1>1. Init => Limited
  <2> SUFFICES ASSUME Init PROVE Limited
    OBVIOUS
  <2>1. /\ server.events = 0 /\ server.old = 0 /\ server.used = 0 /\ \A t \in Turns : log.usage[t] = 0
    BY DEF Init
  <2>2. result.status = None /\ result.usage = 0 /\ pc = "launch" /\ interrupted = FALSE
    BY DEF Init, NoResult
  <2>3. MaxEvents \in Nat /\ MaxOld \in Nat
    BY CodexAssumption
  <2>4. interrupted \in BOOLEAN
    BY <2>2
  <2>5. /\ server.events <= MaxEvents /\ server.used <= server.events /\ server.old <= MaxOld
        /\ \A t \in Turns : log.usage[t] <= server.events + server.old
        /\ result.usage \in 0..MaxEvents
    BY <2>1, <2>2, <2>3
  <2> QED
    BY <2>2, <2>4, <2>5 DEF Limited
<1>2. IInv /\ Limited => TypeOK
  <2> SUFFICES ASSUME IInv, Limited PROVE TypeOK
    OBVIOUS
  <2>1. /\ MaxEvents \in Nat /\ MaxOld \in Nat /\ server.old \in Nat /\ server \in Servers /\ log \in Logs /\ known \in Knowledge
        /\ server.events \in Nat /\ server.used \in Nat /\ log.usage \in [Turns -> Nat]
    BY CodexAssumption DEF IInv, Typed, Servers, Logs
  <2>2. /\ server.events \in 0..MaxEvents /\ server.used \in 0..MaxEvents /\ server.old \in 0..MaxOld
    BY <2>1 DEF Limited
  <2>3. log.usage \in [Turns -> 0..(MaxEvents + MaxOld)]
    <3>1. \A t \in Turns : log.usage[t] \in 0..(MaxEvents + MaxOld)
      BY <2>1 DEF Limited
    <3> QED
      BY <2>1, <3>1
  <2> QED
    BY <2>1, <2>2, <2>3 DEF IInv, Typed, Limited, TypeOK, Servers, Logs, Knowledge
<1> QED
  BY Inductive, LimitedNext, <1>1, <1>2, PTL DEF Spec
=============================================================================
