---------------------------- MODULE CodexTurn ----------------------------
(* One turn of Codex through its app-server: the handshake, the login with *)
(* an access token, the thread, the turn and its end, the server's         *)
(* requests for a fresh token, deadline, interrupt and stop, and the       *)
(* result made of the lines the server wrote.                              *)
EXTENDS Naturals, Sequences

CONSTANTS
  MaxEvents,   \* bound: notifications of the turn, and requests, the server sends
  MaxOld,      \* bound: notifications of earlier turns it sends
  Asks         \* may a request of the server have the number of one of AOP's?

ASSUME CodexAssumption == MaxEvents \in Nat /\ MaxOld \in Nat /\ Asks \in BOOLEAN

VARIABLES
  run,       \* the request: resume?, deadline?, no-web?, a source login?
  server,    \* app-server: what it was sent, what it answered, its thread and turn
  lines,     \* the queue from the reader thread to the turn
  log,       \* what _parse_events makes of all the server wrote, and AOP's refusals
  known,     \* responses, thread_id, turn_id and terminal_turn_ids
  pc,        \* where _run_app_server is
  late,      \* has the deadline passed?
  timedOut, refused, interrupted,   \* timed_out, protocol_error, interrupt_completed
  result

vars == <<run, server, lines, log, known, pc, late, timedOut, refused, interrupted, result>>

None == "none"
Ids == 1..5        \* initialize, thread, turn/start, turn/interrupt, account/login
Turns == {"own", "old"}
Ends == {"completed", "failed", "interrupted"}
Message(kind, id, turn) == [kind |-> kind, id |-> id, turn |-> turn]
Messages == [kind: {"ok", "hollow", "err", "ask", "item", "usage", "error", "refresh"} \cup Ends,
             id: {0} \cup Ids, turn: Turns]
NoResult == [status |-> None, timedOut |-> FALSE, session |-> None, usage |-> 0, accounting |-> None]

TypeOK ==
  /\ run \in [resume: BOOLEAN, deadline: BOOLEAN, noWeb: BOOLEAN, auth: BOOLEAN]
  /\ server \in [state: {"absent", "running", "gone"}, code: {0, 1, 127}, sent: SUBSET Ids,
                 answered: SUBSET Ids, thread: {"asked", "other"}, confined: BOOLEAN,
                 turn: {None, "running"} \cup Ends, item: BOOLEAN, used: 0..MaxEvents,
                 erred: BOOLEAN, told: BOOLEAN, events: 0..MaxEvents, old: 0..MaxOld]
  /\ lines \in Seq(Messages)
  /\ log \in [thread: {None, "asked", "other"}, turn: BOOLEAN, err: BOOLEAN, item: BOOLEAN,
              end: {None} \cup Ends, usage: [Turns -> 0..(MaxEvents + MaxOld)]]
  /\ known \in [got: [Ids -> {None, "ok", "hollow", "err"}], thread: BOOLEAN, turn: BOOLEAN, over: BOOLEAN]
  /\ pc \in {"launch", "init", "login", "thread", "sending", "start", "turn", "interrupt",
             "close", "grace", "stop", "killing", "join", "done"}
  /\ late \in BOOLEAN /\ timedOut \in BOOLEAN /\ refused \in BOOLEAN /\ interrupted \in BOOLEAN
  /\ result.status \in {None, "succeeded", "failed"} /\ result.usage \in 0..MaxEvents

Init ==
  /\ run \in [resume: BOOLEAN, deadline: BOOLEAN, noWeb: BOOLEAN, auth: BOOLEAN]
  /\ \E thread \in {"asked", "other"} :
       /\ run.resume \/ thread = "asked"
       /\ server = [state |-> "absent", code |-> 0, sent |-> {}, answered |-> {}, thread |-> thread,
                    confined |-> FALSE, turn |-> None, item |-> FALSE, used |-> 0, erred |-> FALSE,
                    told |-> FALSE, events |-> 0, old |-> 0]
  /\ lines = <<>>
  /\ log = [thread |-> None, turn |-> FALSE, err |-> FALSE, item |-> FALSE,
            end |-> None, usage |-> [t \in Turns |-> 0]]
  /\ known = [got |-> [i \in Ids |-> None], thread |-> FALSE, turn |-> FALSE, over |-> FALSE]
  /\ pc = "launch" /\ late = FALSE
  /\ timedOut = FALSE /\ refused = FALSE /\ interrupted = FALSE
  /\ result = NoResult

------------------------------------------------------------------------
(* The server, and the thread that reads it.  A line is kept for the parse *)
(* and queued for the turn as it is written.                               *)

\* Lines are queued up to the end of the last wait, and while the prompt is written.
Waits == {"init", "login", "thread", "sending", "start", "turn", "interrupt"}
Running == server.state = "running"
Answerable == Running /\ pc \notin {"launch", "done"}

\* Slip: one pass, which knows its turn only from the answer on.
LoggedInOnePass(l, m) ==
  CASE m.kind = "ok" /\ m.id = 2 -> [l EXCEPT !.thread = server.thread]
    [] m.kind = "ok" /\ m.id = 3 -> [l EXCEPT !.turn = TRUE]
    [] m.kind \in {"err", "error"} -> [l EXCEPT !.err = TRUE]
    [] m.kind = "usage" -> [l EXCEPT !.usage[m.turn] = @ + 1]
    [] m.kind = "item" /\ m.turn = "own" -> [l EXCEPT !.item = l.turn]
    [] m.kind \in Ends /\ m.turn = "own" -> [l EXCEPT !.end = IF l.turn THEN m.kind ELSE None]
    [] OTHER -> l
\* What _parse_events reads in a line.  The events of earlier turns are passed over.
Logged(l, m) ==
  CASE m.kind = "ok" /\ m.id = 2 -> [l EXCEPT !.thread = server.thread]
    [] m.kind = "ok" /\ m.id = 3 -> [l EXCEPT !.turn = TRUE]
    [] m.kind \in {"err", "error"} -> [l EXCEPT !.err = TRUE]
    [] m.kind = "usage" -> [l EXCEPT !.usage[m.turn] = @ + 1]
    [] m.kind = "item" /\ m.turn = "own" -> [l EXCEPT !.item = TRUE]
    [] m.kind \in Ends /\ m.turn = "own" -> [l EXCEPT !.end = m.kind]
    [] OTHER -> l

Say(m) ==
  /\ lines' = IF pc \in Waits THEN Append(lines, m) ELSE lines
  /\ log' = Logged(log, m)
  /\ UNCHANGED <<run, known, pc, late, timedOut, refused, interrupted, result>>

\* A "hollow" answer is one without the thread's or the turn's identity, or to the login
\* one of another type.
Answer(id, kind) ==
  /\ Answerable /\ id \in server.sent \ server.answered
  /\ \E confined \in (IF id = 2 /\ run.noWeb THEN BOOLEAN ELSE {FALSE}) :
       server' = [server EXCEPT !.answered = @ \cup {id}, !.confined = @ \/ confined,
                                !.turn = IF id = 3 /\ kind = "err" THEN "failed" ELSE @,
                                !.erred = @ \/ kind # "ok"]
  /\ kind = "hollow" => id \in {2, 3, 5}
  /\ id = 3 /\ kind = "err" => server.turn = None
  /\ Say(Message(kind, id, "own"))

\* A turn may begin, and even end, before the request that started it is answered.
Begin ==
  /\ Answerable /\ 3 \in server.sent /\ server.turn = None
  /\ server' = [server EXCEPT !.turn = "running"]
  /\ UNCHANGED <<run, lines, log, known, pc, late, timedOut, refused, interrupted, result>>

Notify(kind) ==
  /\ Answerable /\ server.events < MaxEvents /\ server.turn = "running"
  /\ kind = "interrupted" => 4 \in server.sent
  /\ server' = [server EXCEPT !.events = @ + 1,
                              !.turn = IF kind \in Ends THEN kind ELSE @,
                              !.item = @ \/ kind = "item",
                              !.used = IF kind = "usage" THEN @ + 1 ELSE @,
                              !.erred = @ \/ kind = "error"]
  /\ Say(Message(kind, 0, "own"))

\* The server of a resumed thread may repeat what it said of earlier turns.
Repeat(kind) ==
  /\ Answerable /\ server.old < MaxOld /\ run.resume /\ 2 \in server.answered
  /\ server' = [server EXCEPT !.old = @ + 1]
  /\ Say(Message(kind, 0, "old"))

\* The server asks for a new token, for its account or another, or, in a turn, for
\* anything else: its requests are numbered by themselves, from 0.
Asked == IF Asks THEN {0, 3} ELSE {0}
Ask(m) ==
  /\ Answerable /\ server.events < MaxEvents /\ 2 \in server.answered
  /\ m.kind = "ask" => server.turn = "running"
  /\ server' = [server EXCEPT !.events = @ + 1]
  /\ Say(m)

\* A prompt that does not fit in the pipe is sent once the server has read it.
TakePrompt ==
  /\ Running /\ pc = "sending"
  /\ server' = [server EXCEPT !.sent = @ \cup {3}]
  /\ pc' = "start"
  /\ UNCHANGED <<run, lines, log, known, late, timedOut, refused, interrupted, result>>

Exit(code) ==
  /\ Running
  /\ server' = [server EXCEPT !.state = "gone", !.code = code]
  /\ UNCHANGED <<run, lines, log, known, pc, late, timedOut, refused, interrupted, result>>

Tick ==
  /\ run.deadline /\ ~late /\ pc \in Waits \ {"interrupt"}
  /\ late' = TRUE
  /\ UNCHANGED <<run, server, lines, log, known, pc, timedOut, refused, interrupted, result>>

------------------------------------------------------------------------
(* _run_app_server                                                         *)

Awaited == CASE pc = "init" -> 1 [] pc = "login" -> 5 [] pc = "thread" -> 2 [] OTHER -> 3
\* The predicate of the wait at hand.
Reached == IF pc \in {"turn", "interrupt"} THEN known.over ELSE known.got[Awaited] # None
Accepted ==
  \/ pc \in {"turn", "interrupt"}
  \/ known.got[Awaited] = "ok" \/ (known.got[Awaited] = "hollow" /\ pc # "login")
Closed == ~Running /\ lines = <<>>

\* Nobody takes a line once the waits are over.
Unread(next) == IF next \in Waits THEN lines ELSE <<>>

Send(id) == server' = [server EXCEPT !.sent = @ \cup {id}]

Launch ==
  /\ pc = "launch"
  /\ \/ /\ pc' = "init"
        /\ server' = [server EXCEPT !.state = "running", !.sent = {1}]
     \/ /\ pc' = "join"       \* command not found
        /\ server' = [server EXCEPT !.state = "gone", !.code = 127]
  /\ UNCHANGED <<run, lines, log, known, late, timedOut, refused, interrupted, result>>

\* Any line with a number for an id is taken for the answer to that request.
Heard(k, m) ==
  CASE m.kind \in {"ok", "hollow", "err"} ->
         [k EXCEPT !.got[m.id] = m.kind, !.thread = @ \/ (m.kind = "ok" /\ m.id = 2),
                   !.turn = @ \/ (m.kind = "ok" /\ m.id = 3)]
    [] m.kind = "ask" /\ m.id \in Ids -> [k EXCEPT !.got[m.id] = "hollow"]
    [] m.kind \in Ends -> [k EXCEPT !.over = @ \/ m.turn = "own"]
    [] OTHER -> k

\* The source gives a new token of the same account, or AOP refuses: it answers with an
\* error, which the parse reads like any other, and the turn is given up.
Refresh(m) ==
  /\ m.kind = "refresh"
  /\ \E granted \in (IF run.auth /\ m.turn = "own" THEN BOOLEAN ELSE {FALSE}) :
       /\ log' = [log EXCEPT !.err = @ \/ ~granted]
       /\ refused' = (refused \/ ~granted)

Receive ==
  /\ pc \in Waits \ {"sending"} /\ ~Reached /\ lines # <<>>
  /\ pc = "interrupt" \/ (~late /\ ~refused)
  /\ LET m == Head(lines)
     IN  /\ known' = Heard(known, m)
         /\ \/ Refresh(m)
            \/ m.kind # "refresh" /\ UNCHANGED <<log, refused>>
  /\ lines' = Tail(lines)
  /\ UNCHANGED <<run, server, pc, late, timedOut, interrupted, result>>

\* The wait is over and the answer is a good one: the next request, or the end.
Initialized ==
  /\ pc = "init"
  /\ IF run.auth THEN pc' = "login" /\ Send(5) ELSE pc' = "thread" /\ Send(2)
  /\ UNCHANGED refused

LoggedIn == pc = "login" /\ pc' = "thread" /\ Send(2) /\ UNCHANGED refused

\* Slip: the turn starts under whatever profile there is.
ThreadOpenedSlip == pc = "thread" /\ pc' = "start" /\ Send(3) /\ UNCHANGED refused
\* Under --no-web no turn starts without the permission profile that keeps it local.  The
\* write of a prompt that fits in the pipe is over at once.
ThreadOpened ==
  /\ pc = "thread"
  /\ IF run.noWeb /\ ~server.confined
     THEN pc' = "close" /\ refused' = TRUE /\ UNCHANGED server
     ELSE IF known.thread
     THEN /\ UNCHANGED refused
          /\ \/ pc' = "start" /\ Send(3)
             \/ pc' = "sending" /\ UNCHANGED server
     ELSE pc' = "close" /\ UNCHANGED <<server, refused>>

\* The write ends with a broken pipe, and AOP waits for the answer all the same.
PipeBroken ==
  /\ pc = "sending" /\ ~Running
  /\ pc' = "start"
  /\ UNCHANGED <<run, server, lines, log, known, late, timedOut, refused, interrupted, result>>

TurnAccepted ==
  /\ pc = "start"
  /\ pc' = IF known.turn THEN "turn" ELSE "close"
  /\ UNCHANGED <<server, refused>>

TurnOver == pc = "turn" /\ pc' = "close" /\ UNCHANGED <<server, refused>>

GoOn ==
  /\ Reached /\ Accepted
  /\ Initialized \/ LoggedIn \/ ThreadOpened \/ TurnAccepted \/ TurnOver
  /\ lines' = Unread(pc')
  /\ UNCHANGED <<run, log, known, late, timedOut, interrupted, result>>

\* Slip: the deadline counts only while the turn is not over.
GiveUpSlip ==
  /\ pc \in Waits \ {"sending", "interrupt"}
  /\ (~Reached /\ (late \/ refused \/ Closed)) \/ (Reached /\ ~Accepted)
  /\ refused' = (refused \/ pc = "login")
  /\ timedOut' = FALSE
  /\ IF late /\ pc = "turn" THEN pc' = "interrupt" /\ Send(4) ELSE pc' = "close" /\ UNCHANGED server
  /\ lines' = Unread(pc')
  /\ UNCHANGED <<run, log, known, late, interrupted, result>>
\* The deadline, a refusal, the end of the output or a bad answer.  A turn that is
\* under way is interrupted if it is late.
GiveUp ==
  /\ pc \in Waits \ {"sending", "interrupt"}
  /\ (~Reached /\ (late \/ refused \/ Closed)) \/ (Reached /\ ~Accepted)
  /\ refused' = (refused \/ pc = "login")
  /\ timedOut' = late
  /\ IF late /\ pc = "turn" THEN pc' = "interrupt" /\ Send(4) ELSE pc' = "close" /\ UNCHANGED server
  /\ lines' = Unread(pc')
  /\ UNCHANGED <<run, log, known, late, interrupted, result>>

\* Slip: the wait for the interrupted turn has no end of its own.
InterruptOverSlip ==
  /\ pc = "interrupt" /\ (Reached \/ Closed)
  /\ interrupted' = Reached
  /\ pc' = "close"
  /\ lines' = <<>>
  /\ UNCHANGED <<run, server, log, known, late, timedOut, refused, result>>
\* The interrupted turn has ended, or the grace period has.
InterruptOver ==
  /\ pc = "interrupt"
  /\ interrupted' = Reached
  /\ pc' = "close"
  /\ lines' = <<>>
  /\ UNCHANGED <<run, server, log, known, late, timedOut, refused, result>>

\* The server's input is closed; a late one that did not heed the interrupt is stopped
\* at once, any other gets the grace period to exit.
Close ==
  /\ pc = "close"
  /\ pc' = IF ~Running THEN "join" ELSE IF timedOut /\ ~interrupted THEN "stop" ELSE "grace"
  /\ UNCHANGED <<run, server, lines, log, known, late, timedOut, refused, interrupted, result>>

Grace ==
  /\ pc = "grace"
  /\ pc' = IF Running THEN "stop" ELSE "join"
  /\ UNCHANGED <<run, server, lines, log, known, late, timedOut, refused, interrupted, result>>

Stop ==
  /\ pc = "stop" /\ pc' = "killing"
  /\ server' = [server EXCEPT !.told = Running]
  /\ UNCHANGED <<run, lines, log, known, late, timedOut, refused, interrupted, result>>

Kill ==
  /\ pc = "killing" /\ pc' = "join"
  /\ server' = IF Running THEN [server EXCEPT !.state = "gone", !.code = 1] ELSE server
  /\ UNCHANGED <<run, lines, log, known, late, timedOut, refused, interrupted, result>>

------------------------------------------------------------------------
(* The result                                                              *)

\* Only what is said of the own turn counts, and only if its identity became known.
\* Slip: usage of every turn in the stream.
OwnUsageSlip == log.usage["own"] + log.usage["old"]
OwnUsage == IF log.turn THEN log.usage["own"] ELSE 0
OwnEnd == IF log.turn THEN log.end ELSE None
Answered == log.turn /\ log.item

Mismatch == run.resume /\ log.thread # "asked"
Error ==
  \/ timedOut \/ refused
  \/ log.err \/ OwnEnd \in {"failed", "interrupted"}
  \/ server.code # 0 \/ Mismatch \/ log.thread = None
  \/ OwnEnd = None

\* _finalize_accounting
Accounting ==
  IF ~timedOut THEN "complete" ELSE IF OwnUsage > 0 THEN "partial" ELSE "unavailable"

Finish ==
  /\ pc = "join" /\ pc' = "done"
  /\ result' = [status |-> IF Error \/ ~Answered THEN "failed" ELSE "succeeded",
                timedOut |-> timedOut, session |-> IF Mismatch THEN None ELSE log.thread,
                usage |-> OwnUsage, accounting |-> Accounting]
  /\ UNCHANGED <<run, server, lines, log, known, late, timedOut, refused, interrupted>>

Over == pc = "done" /\ UNCHANGED vars

ServerStep ==
  \/ \E id \in Ids, kind \in {"ok", "hollow", "err"} : Answer(id, kind)
  \/ Begin \/ TakePrompt
  \/ \E kind \in {"item", "usage", "error"} \cup Ends : Notify(kind)
  \/ \E kind \in {"item", "usage", "completed"} : Repeat(kind)
  \/ \E account \in Turns : Ask(Message("refresh", 0, account))
  \/ \E id \in Asked : Ask(Message("ask", id, "own"))
  \/ \E code \in {0, 1} : Exit(code)

Aop ==
  \/ Launch \/ Receive \/ GoOn \/ PipeBroken \/ GiveUp \/ InterruptOver
  \/ Close \/ Grace \/ Stop \/ Kill \/ Finish

Next == ServerStep \/ Tick \/ Aop \/ Over

Spec == Init /\ [][Next]_vars

\* AOP's steps and time go on.  Nothing is asked of a server but that, with no deadline,
\* it ends.
FairSpec ==
  /\ Spec
  /\ WF_vars(Aop) /\ WF_vars(Tick)
  /\ WF_vars(~run.deadline /\ \E code \in {0, 1} : Exit(code))

------------------------------------------------------------------------
(* Properties                                                              *)

\* A turn reported to have succeeded has completed on the server, in the thread that
\* was asked for and by the deadline, with every request for a token granted; an
\* interrupted one never has, even when the server answers that it completed.
SuccessIsReal ==
  result.status = "succeeded" =>
    /\ server.turn = "completed" /\ server.code = 0 /\ server.thread = "asked"
    /\ ~refused /\ ~timedOut /\ 4 \notin server.sent

\* A turn that completes with an answer, on a server that reports no error, gives the
\* identities it is asked for and exits by itself, is not lost: not when it ends before
\* the request that started it is answered, nor among the events of earlier turns.
AnswerIsReported ==
  (/\ pc = "done" /\ server.turn = "completed" /\ server.item /\ 3 \in server.answered
   /\ server.code = 0 /\ ~server.erred /\ ~server.told /\ ~timedOut /\ ~refused
   /\ server.thread = "asked")
  => result.status = "succeeded"

\* No part of the prompt is sent to a server that did not take the source's login, or
\* that runs the thread outside the no-web profile.
PromptIsConfined ==
  pc = "sending" \/ 3 \in server.sent =>
    (run.noWeb => server.confined) /\ (run.auth => known.got[5] = "ok")

\* The usage reported is what the server said of this turn, whatever it repeats of
\* earlier turns of a resumed thread.
UsageIsOwnTurn ==
  pc = "done" /\ 3 \in server.answered /\ log.turn => result.usage = server.used

\* When the run is over its server is gone.
NothingLeftRunning == pc \in {"join", "done"} => server.state = "gone"

\* A run ends, unless its server stays and does not read a prompt that is too large for
\* the pipe: that write has no deadline, and the run is stuck in it.
TurnEnds == []<>~(run.deadline /\ pc = "sending" /\ Running) => <>(pc = "done")
========================================================================
