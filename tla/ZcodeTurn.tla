---------------------------- MODULE ZcodeTurn ----------------------------
(* One turn of Zcode over its own protocol (zcode_protocol.run): opening   *)
(* the session, checking and recording its selection, subscribing, sending *)
(* the prompt, waiting for that prompt's end among the session's events,   *)
(* checking the selection again; and the result, which is made of the      *)
(* stream once more (zcode.parse_protocol and parse_stream).               *)
EXTENDS Naturals, Sequences

CONSTANTS
  MaxEvents,   \* bound: events the server sends
  Efforts      \* reasoning levels

ASSUME ZcodeAssumption == MaxEvents \in Nat /\ Efforts # {} /\ {"none", "unfit"} \cap Efforts = {}

VARIABLES
  run,      \* the request: resume?, deadline?, the effort asked for
  server,   \* app-server: its session and selection, what it was sent, its turn
  lines,    \* what the server wrote and AOP has not read
  log,      \* what the parse of the whole stream knows after each line
  events,   \* session events that were read and not looked at
  pc,       \* where run is
  effort,   \* capture.effort, the effort the server confirmed
  recorded, \* the effort in request.json
  late, timedOut, failed,   \* the deadline; capture.timed_out; capture.error
  exit,     \* capture.exit_code
  result

vars == <<run, server, lines, log, events, pc, effort, recorded, late, timedOut, failed, exit, result>>

None == "none"
\* A session need not tell a reasoning level.  One whose model, levels to choose from or
\* permission mode is not as selected is "unfit".
Levels == Efforts \cup {None}
Selections == Levels \cup {"unfit"}
Turns == {"own", "old"}
Requests == [resume: BOOLEAN, deadline: BOOLEAN, effort: Levels]
\* A line answers a request (a refusal, a plain result, a snapshot of the session),
\* reports an event of a turn, or asks AOP for something.
Ends == {"completed", "blank", "unsuccessful", "failed"}
Message(kind, turn, session, level) ==
  [kind |-> kind, turn |-> turn, session |-> session, level |-> level]
Messages == [kind: {"refusal", "ok", "snapshot", "started", "asks"} \cup Ends,
             turn: Turns, session: {"asked", "other"}, level: Selections]
Unparsed == [session |-> None, conflict |-> FALSE, active |-> None, err |-> FALSE,
             terminal |-> None, completed |-> FALSE, snapshot |-> FALSE]
NoResult == [status |-> None, timedOut |-> FALSE, session |-> None, effort |-> None]

TypeOK ==
  /\ run \in Requests
  /\ server \in [state: {"absent", "running", "gone"}, code: {0, 1}, session: {"asked", "other"},
                 level: Selections, waiting: BOOLEAN, turn: {None, "sent", "started"} \cup Ends,
                 events: 0..MaxEvents, bad: BOOLEAN]
  /\ lines \in Seq(Messages) /\ events \in Seq(Messages)
  /\ log \in [session: {None, "asked", "other"}, conflict: BOOLEAN, active: Turns \cup {None},
              err: BOOLEAN, terminal: Turns \cup {None}, completed: BOOLEAN, snapshot: BOOLEAN]
  /\ pc \in {"launch", "open", "read", "subscribe", "send", "turn", "verify", "end", "done"}
  /\ effort \in Levels /\ recorded \in Levels
  /\ late \in BOOLEAN /\ timedOut \in BOOLEAN /\ failed \in BOOLEAN /\ exit \in {0, 1}
  /\ result.status \in {None, "succeeded", "response_available_with_provider_error", "failed"}

Init ==
  /\ run \in Requests
  /\ \E session \in {"asked", "other"}, level \in Selections :
       /\ run.resume \/ session = "asked"
       /\ server = [state |-> "absent", code |-> 0, session |-> session, level |-> level,
                    waiting |-> FALSE, turn |-> None, events |-> 0, bad |-> FALSE]
  /\ lines = <<>> /\ events = <<>> /\ log = Unparsed /\ pc = "launch"
  /\ effort = None /\ recorded = run.effort
  /\ late = FALSE /\ timedOut = FALSE /\ failed = FALSE /\ exit = 0
  /\ result = NoResult

------------------------------------------------------------------------
(* The parse of the stream                                                 *)

\* Events of another turn than the one that started last are passed over, before they
\* can say anything of the session or of how the turn went.
Passed(l, m) == l.active # None /\ m.turn # l.active

\* Any snapshot names the session; a second name is a conflict.
Named(l, session) ==
  [l EXCEPT !.session = session, !.conflict = @ \/ l.session \notin {None, session}]

\* The last completed turn of the stream makes the terminal result, which a snapshot
\* has to confirm.
Parsed(l, m) ==
  CASE m.kind = "snapshot" -> [Named(l, m.session) EXCEPT !.snapshot = TRUE]
    [] m.kind = "started"  -> Named([l EXCEPT !.active = m.turn], m.session)
    [] m.kind \in Ends ->
         LET seen == IF Passed(l, m) THEN l
                     ELSE [Named(l, m.session) EXCEPT
                             !.err = @ \/ m.kind \in {"failed", "unsuccessful"},
                             !.completed = @ \/ m.kind # "failed"]
         IN  IF m.kind = "failed" THEN seen
             ELSE [seen EXCEPT !.terminal = IF m.kind = "blank" THEN None ELSE m.turn]
    [] OTHER -> l

------------------------------------------------------------------------
(* The server                                                              *)

Running == server.state = "running"
Busy == pc \in {"open", "read", "subscribe", "send", "turn", "verify"}
Speaks == Running /\ Busy

\* Only a snapshot tells the reasoning level.
Say(kind, turn) ==
  lines' = Append(lines, Message(kind, turn, server.session, IF kind = "snapshot" THEN server.level ELSE None))

Unchanged == UNCHANGED <<run, log, events, pc, effort, recorded, late, timedOut, failed, exit, result>>

\* It answers the request at hand: with a snapshot, if that is what it was asked for.
Reply(kind) ==
  /\ Speaks /\ server.waiting
  /\ kind \in {"refusal", IF pc \in {"open", "read", "verify"} /\ (pc = "open" => run.resume)
                          THEN "snapshot" ELSE "ok"}
  /\ server' = [server EXCEPT !.waiting = FALSE, !.bad = @ \/ kind = "refusal",
                              !.turn = IF pc = "send" /\ kind = "ok" /\ @ = None THEN "sent" ELSE @]
  /\ Say(kind, "own")
  /\ Unchanged

\* A turn may start, and end, before the command that sent its prompt is answered.
Start ==
  /\ Speaks /\ server.events < MaxEvents
  /\ server.turn = "sent" \/ (pc = "send" /\ server.waiting /\ server.turn = None)
  /\ server' = [server EXCEPT !.turn = "started", !.events = @ + 1]
  /\ Say("started", "own")
  /\ Unchanged

End(kind) ==
  /\ Speaks /\ server.events < MaxEvents /\ server.turn = "started"
  /\ server' = [server EXCEPT !.turn = kind, !.events = @ + 1]
  /\ Say(kind, "own")
  /\ Unchanged

\* What the session remembers of an earlier turn is repeated.
Repeat(kind) ==
  /\ Speaks /\ server.events < MaxEvents /\ run.resume
  /\ server.turn \in {None, "sent"} /\ pc \in {"subscribe", "send", "turn"}
  /\ server' = [server EXCEPT !.events = @ + 1, !.bad = @ \/ kind \in {"failed", "unsuccessful"}]
  /\ Say(kind, "old")
  /\ Unchanged

\* It asks for an approval, or writes something else that is no part of the protocol.
Asks ==
  /\ Speaks /\ server.events < MaxEvents /\ pc \in {"send", "turn"}
  /\ server' = [server EXCEPT !.events = @ + 1, !.bad = TRUE]
  /\ Say("asks", "own")
  /\ Unchanged

\* Someone changes the session's reasoning level, or its model or mode.
Reselect(level) ==
  /\ Speaks /\ run.resume /\ server.turn = "started" /\ level # server.level
  /\ server' = [server EXCEPT !.level = level, !.bad = TRUE]
  /\ UNCHANGED lines /\ Unchanged

Exit(code) ==
  /\ Running
  /\ server' = [server EXCEPT !.state = "gone", !.code = code, !.bad = @ \/ pc # "end"]
  /\ UNCHANGED lines /\ Unchanged

Tick ==
  /\ run.deadline /\ ~late /\ Busy
  /\ late' = TRUE
  /\ UNCHANGED <<run, server, lines, log, events, pc, effort, recorded, timedOut, failed, exit, result>>

------------------------------------------------------------------------
(* zcode_protocol.run                                                      *)

Ask(next) == pc' = next /\ server' = [server EXCEPT !.waiting = TRUE]
GoOn(next) == pc' = next /\ UNCHANGED server

Launch ==
  /\ pc = "launch"
  /\ pc' = "open" /\ server' = [server EXCEPT !.state = "running", !.waiting = TRUE]
  /\ UNCHANGED <<run, lines, log, events, effort, recorded, late, timedOut, failed, exit, result>>

\* Slip: only a requested level is looked at.
VerifiedSlip(m) ==
  m.session = "asked" /\ m.level # "unfit" /\ (run.effort # None => m.level = run.effort)
\* The session is the one asked for, as selected, and its reasoning level the one
\* requested, or, if it told one when it was opened, that one.
Verified(m) ==
  /\ m.session = "asked" /\ m.level # "unfit"
  /\ run.effort # None => m.level = run.effort
  /\ effort # None => m.level = effort

Fail ==
  /\ failed' = TRUE /\ pc' = "end" /\ events' = <<>>
  /\ UNCHANGED <<server, effort, recorded>>

\* A snapshot that passes is recorded in request.json before anything is sent.
Opened(m) ==
  /\ Verified(m)
  /\ effort' = m.level /\ recorded' = m.level
  /\ Ask("subscribe")
  /\ UNCHANGED <<events, failed>>

\* What was reported before the subscription's answer is history.
Answered(m) ==
  \/ m.kind = "refusal" /\ Fail
  \/ /\ m.kind = "snapshot" /\ pc \in {"open", "read"}
     /\ IF Verified(m) THEN Opened(m) ELSE Fail
  \/ /\ m.kind = "ok" /\ pc = "open"
     /\ Ask("read") /\ UNCHANGED <<effort, recorded, events, failed>>
  \/ /\ m.kind # "refusal" /\ pc = "subscribe"
     /\ Ask("send") /\ events' = <<>> /\ UNCHANGED <<effort, recorded, failed>>
  \/ /\ m.kind # "refusal" /\ pc = "send"
     /\ GoOn("turn") /\ UNCHANGED <<effort, recorded, events, failed>>
  \/ /\ m.kind # "refusal" /\ pc = "verify"
     /\ IF Verified(m)
        THEN GoOn("end") /\ effort' = m.level /\ UNCHANGED <<recorded, events, failed>>
        ELSE Fail

\* The next line: an answer, an event to look at later, or a request AOP refuses.
Receive ==
  /\ Busy /\ lines # <<>> /\ ~late
  /\ pc = "turn" => events = <<>>
  /\ LET m == Head(lines)
     IN  /\ log' = Parsed(log, m)
         /\ CASE m.kind \in {"refusal", "ok", "snapshot"} -> Answered(m)
              [] m.kind = "asks" -> Fail
              [] OTHER -> /\ events' = Append(events, m)
                          /\ UNCHANGED <<server, pc, effort, recorded, failed>>
  /\ lines' = IF pc' = "end" THEN <<>> ELSE Tail(lines)
  /\ UNCHANGED <<run, late, timedOut, exit, result>>

\* Slip: the end of any turn ends the wait.
LookSlip ==
  /\ pc = "turn" /\ events # <<>>
  /\ LET m == Head(events)
     IN IF m.kind \in Ends THEN Ask("verify") /\ UNCHANGED failed
        ELSE UNCHANGED <<server, pc, failed>>
  /\ events' = Tail(events)
  /\ UNCHANGED <<run, lines, log, effort, recorded, late, timedOut, exit, result>>
\* The turn is over when the input that was sent is.
Look ==
  /\ pc = "turn" /\ events # <<>>
  /\ LET m == Head(events)
     IN CASE m.session # "asked" -> failed' = TRUE /\ GoOn("end")
          [] m.session = "asked" /\ m.kind \in Ends /\ m.turn = "own" -> Ask("verify") /\ UNCHANGED failed
          [] OTHER -> UNCHANGED <<server, pc, failed>>
  /\ events' = Tail(events)
  /\ UNCHANGED <<run, lines, log, effort, recorded, late, timedOut, exit, result>>

\* Slip: the deadline is looked at only when the output has ended.
DeadlineSlip ==
  /\ Busy /\ late /\ ~Running
  /\ timedOut' = TRUE /\ pc' = "end"
  /\ lines' = <<>> /\ events' = <<>>
  /\ UNCHANGED <<run, server, log, effort, recorded, late, failed, exit, result>>
\* Every wait, for an answer or an event, ends at the deadline.
Deadline ==
  /\ Busy /\ late
  /\ timedOut' = TRUE /\ pc' = "end"
  /\ lines' = <<>> /\ events' = <<>>
  /\ UNCHANGED <<run, server, log, effort, recorded, late, failed, exit, result>>

\* The output ends too early.
EndOfOutput ==
  /\ Busy /\ ~Running /\ lines = <<>> /\ ~late
  /\ pc = "turn" => events = <<>>
  /\ failed' = TRUE /\ pc' = "end"
  /\ UNCHANGED <<run, server, lines, log, events, effort, recorded, late, timedOut, exit, result>>

\* A server that is still there is stopped, and its status then says nothing.
ExitCode == IF ~Running THEN server.code ELSE IF failed \/ timedOut THEN 1 ELSE 0

Stop ==
  /\ pc = "end" /\ pc' = "done"
  /\ exit' = ExitCode
  /\ server' = [server EXCEPT !.state = "gone"]
  /\ LET mismatch == run.resume /\ log.session # "asked"
         session == IF log.conflict \/ mismatch THEN None ELSE log.session
         ended == log.terminal # None /\ log.snapshot
         error == \/ failed \/ timedOut \/ exit' # 0 \/ session = None
                  \/ log.err \/ ~log.completed \/ ~ended
     IN  result' = [status |-> IF error THEN "failed" ELSE "succeeded", timedOut |-> timedOut,
                    session |-> session, effort |-> effort]
  /\ UNCHANGED <<run, lines, log, events, effort, recorded, late, timedOut, failed>>

Over == pc = "done" /\ UNCHANGED vars

ServerStep ==
  \/ \E kind \in {"refusal", "ok", "snapshot"} : Reply(kind)
  \/ Start \/ Asks
  \/ \E kind \in Ends : End(kind)
  \/ \E kind \in {"started"} \cup Ends : Repeat(kind)
  \/ \E level \in Selections : Reselect(level)
  \/ \E code \in {0, 1} : Exit(code)

Aop == Launch \/ Receive \/ Look \/ Deadline \/ EndOfOutput \/ Stop

Next == ServerStep \/ Tick \/ Aop \/ Over

Spec == Init /\ [][Next]_vars

\* AOP's steps and time go on.  A server with no deadline is taken to end.
FairSpec ==
  /\ Spec
  /\ WF_vars(Aop) /\ WF_vars(Tick)
  /\ WF_vars(~run.deadline /\ \E code \in {0, 1} : Exit(code))

------------------------------------------------------------------------
(* Properties                                                              *)

\* A turn is reported to have succeeded only if the server ended this run's prompt well,
\* in the session asked for, whatever else the session had going on.
SuccessIsReal ==
  result.status = "succeeded" =>
    server.turn = "completed" /\ server.session = "asked" /\ ~timedOut

\* A turn that ended well, with nothing amiss on the way, is not lost: not when its
\* events come before the answer to the prompt or among those of another turn.
AnswerIsReported ==
  pc = "done" /\ server.turn = "completed" /\ ~server.bad /\ ~late /\ server.code = 0
    /\ server.session = "asked" /\ server.level # "unfit"
    /\ (run.effort = None \/ run.effort = server.level)
  => result.status = "succeeded"

\* When the prompt goes out, the level the session works at is on record (none, if it
\* tells none), and it is the one requested if one was.  A run that succeeds reports the
\* level the session had in the end, which is the one on record, or there was none then.
EffortIsRecorded ==
  /\ pc = "send" /\ server.turn = None =>
       /\ recorded = server.level /\ server.level # "unfit"
       /\ run.effort # None => recorded = run.effort
  /\ result.status = "succeeded" =>
       /\ result.effort = server.level
       /\ recorded = server.level \/ (recorded = None /\ run.effort = None)

\* A run ends.
TurnEnds == <>(pc = "done")
========================================================================
