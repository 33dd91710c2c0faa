--------------------------- MODULE HarnessTurn ---------------------------
(* One run of a harness that is started with its prompt and read until it *)
(* exits: launch, the reader of its output, deadline and stop, the retries *)
(* at a usage limit (Devin), the notice of a turn that ended without an    *)
(* exit (Cursor), and the verdict each adapter makes of what was said.     *)
(* Codex and ZCode speak a protocol instead: see CodexTurn and ZcodeTurn. *)
EXTENDS Naturals, Sequences

CONSTANTS
  Harnesses,    \* the adapters of this instance
  MaxLines,     \* bound: lines the harness writes in one attempt
  MaxWaits      \* _MAX_LIMIT_WAITS, the waits of a run without a deadline

AllHarnesses ==
  {"claude", "grok", "cursor", "devin", "muse", "opencode", "agy", "hermes", "dsh"}

ASSUME TurnAssumption ==
  /\ Harnesses \subseteq AllHarnesses
  /\ MaxLines \in Nat /\ MaxWaits \in Nat

VARIABLES
  run,      \* the request: harness, resume?, deadline?, artifacts declared?
  child,    \* the harness: its state, exit code, session, and what it has done
  pipe,     \* lines written and not yet read
  reader,   \* the thread that reads stdout: has it died, seen a response, lines taken
  parsed,   \* what the adapter's _parse makes of the lines taken so far
  late,     \* has the deadline passed?
  pc,       \* where execute is
  capture,  \* timed_out and stopped_reason of the attempt
  noticed,  \* _CursorTurnEnd.noticed: lines at the last notice, or NotYet
  waits,    \* usage limits waited for
  store,    \* what AOP finds of the session before the turn, and after it
  result    \* the run's result

vars == <<run, child, pipe, reader, parsed, late, pc, capture, noticed, waits, store, result>>

None == "none"
NotYet == MaxLines + 1
NoResult == [status |-> None, timedOut |-> FALSE, final |-> None, session |-> None]
Requests == [harness: Harnesses, resume: BOOLEAN, deadline: BOOLEAN, artifacts: BOOLEAN]

\* What a line can say: it names the session, carries a piece of the answer, reports
\* usage, ends the turn well (with or without an answer) or badly, reports an error, or
\* is JSON but no event: no object at all, or an assistant's whose message is none.
Lines == {"start", "text", "usage", "done", "empty", "fail", "error", "bare"}
Terminal == {"done", "empty", "fail"}
LinesOf(h) ==
  (CASE h = "grok" -> {"text", "usage", "error"} [] h = "opencode" -> {"start", "text", "error"}
     [] h \in {"claude", "cursor"} -> {"start", "text"} [] h = "devin" -> {} [] OTHER -> {"start"})
  \cup (IF h \in {"hermes", "opencode"} THEN {"done", "empty"} ELSE Terminal)
  \cup (IF h \notin {"devin", "hermes"} THEN {"bare"} ELSE {})
\* Muse may go on to another turn, and OpenCode ends every step of one.
EndsMoreThanOnce == {"muse", "opencode"}

\* Hermes' session as exported after the turn: not at all; with the ids of its messages;
\* or without, so that only another text than before shows a new answer.
Exports == {"failed", "ids", "other_text", "same_text"}
Stores == [before: BOOLEAN, after: Exports \cup {None}]

Unparsed == [session |-> None, final |-> None, piece |-> FALSE, err |-> FALSE, terminal |-> FALSE]
IdleChild(session, ends) ==
  [state |-> "absent", code |-> 0, session |-> session, lines |-> 0, said |-> None,
   errors |-> FALSE, told |-> FALSE, ends |-> ends, limit |-> FALSE]

TypeOK ==
  /\ run \in Requests
  /\ child \in [state: {"absent", "running", "gone"}, code: {0, 1, 127}, lines: 0..MaxLines,
                session: {"asked", "other"}, said: Terminal \cup {None}, errors: BOOLEAN,
                told: BOOLEAN, ends: 0..3, limit: BOOLEAN]
  /\ pipe \in Seq(Lines) /\ Len(pipe) <= MaxLines
  /\ reader \in [dead: BOOLEAN, answered: BOOLEAN, taken: 0..MaxLines]
  /\ parsed \in [session: {None, "asked", "other"}, final: {None, "", "piece", "answer", "old"},
                 piece: BOOLEAN, err: BOOLEAN, terminal: BOOLEAN]
  /\ late \in BOOLEAN
  /\ pc \in {"launch", "wait", "stop", "killing", "join", "limit", "asleep", "done"}
  /\ capture \in [timedOut: BOOLEAN, stopped: BOOLEAN]
  /\ noticed \in 0..NotYet /\ waits \in 0..MaxWaits /\ store \in Stores
  /\ result.status \in {None, "succeeded", "response_available_with_provider_error", "failed"}

\* The transcript of a resumed Cursor chat already holds an earlier turn's end, which
\* AOP counts if it finds the transcript when the turn starts.
EarlierEnds == IF run.resume THEN 1 ELSE 0
EndedBefore == IF run.resume /\ store.before THEN 1 ELSE 0

Init ==
  /\ run \in Requests
  /\ \E session \in {"asked", "other"} :
       /\ run.resume \/ session = "asked"
       /\ child = IdleChild(session, EarlierEnds)
  /\ pipe = <<>> /\ parsed = Unparsed /\ late = FALSE /\ pc = "launch"
  /\ reader = [dead |-> FALSE, answered |-> FALSE, taken |-> 0]
  /\ capture = [timedOut |-> FALSE, stopped |-> FALSE]
  /\ noticed = NotYet /\ waits = 0 /\ result = NoResult
  /\ store \in [before: BOOLEAN, after: {None}]
  /\ store.before \/ (run.resume /\ run.harness \in {"hermes", "cursor"})

------------------------------------------------------------------------
(* The parsers.  Each reads one more line into what is known so far.       *)

\* Every event names the session; the result event carries the answer, and an
\* is_error result leaves an error that a later one does not clear.
ClaudeParse(p, l, s) ==
  LET q == [p EXCEPT !.session = IF l = "bare" THEN @ ELSE s]
  IN  CASE l \in {"done", "fail"} -> [q EXCEPT !.terminal = TRUE, !.final = "answer", !.err = @ \/ l = "fail"]
        [] l = "empty" -> [q EXCEPT !.terminal = TRUE, !.final = ""]
        [] OTHER -> q

\* Only end and error name the session.  Text is gathered until a usage event or the end.
GrokParse(p, l, s) ==
  CASE l = "text" -> [p EXCEPT !.piece = TRUE]
    [] l = "usage" -> [p EXCEPT !.final = IF p.piece THEN "piece" ELSE @, !.piece = FALSE]
    [] l \in {"done", "fail"} -> [p EXCEPT !.session = s, !.terminal = TRUE, !.final = "answer",
                                           !.piece = FALSE, !.err = @ \/ l = "fail"]
    [] l = "empty" -> [p EXCEPT !.session = s, !.terminal = TRUE,
                                !.final = IF p.piece THEN "piece" ELSE @, !.piece = FALSE]
    [] l = "error" -> [p EXCEPT !.session = s, !.err = TRUE]
    [] OTHER -> p

CursorParse(p, l, s) ==
  LET q == [p EXCEPT !.session = IF l = "bare" THEN @ ELSE s]
  IN  CASE l \in {"done", "fail"} -> [q EXCEPT !.terminal = TRUE, !.final = "answer", !.err = @ \/ l = "fail"]
        [] l = "empty" -> [q EXCEPT !.terminal = TRUE, !.final = None]
        [] OTHER -> q

\* Slip: the failure of an earlier turn is kept.
MuseParseSlip(p, l, s) ==
  LET q == [p EXCEPT !.session = IF @ = None /\ l # "bare" THEN s ELSE @]
  IN  IF l \in Terminal
      THEN [q EXCEPT !.terminal = TRUE, !.err = @ \/ l = "fail",
                     !.final = IF l = "done" THEN "answer" ELSE None]
      ELSE q
\* A later turn's terminal record replaces an earlier one's answer and error.
MuseParse(p, l, s) ==
  LET q == [p EXCEPT !.session = IF @ = None /\ l # "bare" THEN s ELSE @]
  IN  IF l \in Terminal
      THEN [q EXCEPT !.terminal = TRUE, !.err = (l = "fail"),
                     !.final = IF l = "done" THEN "answer" ELSE None]
      ELSE q

\* step_start begins a step and drops what text there was; step_finish closes one,
\* whose text is the answer unless another step follows.
OpenCodeParse(p, l, s) ==
  LET q == [p EXCEPT !.session = IF l = "bare" THEN @ ELSE s]
  IN  CASE l = "start" -> [q EXCEPT !.piece = FALSE]
        [] l = "text" -> [q EXCEPT !.piece = TRUE]
        [] l = "done" -> [q EXCEPT !.terminal = TRUE, !.piece = FALSE, !.final = "answer"]
        [] l = "empty" -> [q EXCEPT !.terminal = TRUE, !.piece = FALSE,
                                    !.final = IF p.piece THEN "piece" ELSE None]
        [] l = "error" -> [q EXCEPT !.err = TRUE]
        [] OTHER -> q

\* The result event names the conversation; its response may be empty.
AgyParse(p, l, s) ==
  IF l \in Terminal
  THEN [p EXCEPT !.session = s, !.terminal = TRUE, !.err = @ \/ l = "fail",
                 !.final = IF l = "empty" THEN "" ELSE "answer"]
  ELSE p

\* One result event, the last one: completed, error and answer are its own.
DshParse(p, l, s) ==
  IF l \in Terminal
  THEN [session |-> s, final |-> IF l = "empty" THEN None ELSE "answer", piece |-> FALSE,
        err |-> l = "fail", terminal |-> l # "fail"]
  ELSE p

\* Hermes prints the session on stderr; a new assistant message in the session's
\* export is the answer.  Devin's session is told by its export at the exit.
HermesParse(p, l, s) ==
  [p EXCEPT !.session = IF l = "start" THEN s ELSE @,
            !.piece = @ \/ l = "done"]

Parse(p, l, s) ==
  CASE run.harness = "claude"   -> ClaudeParse(p, l, s)
    [] run.harness = "grok"     -> GrokParse(p, l, s)
    [] run.harness = "cursor"   -> CursorParse(p, l, s)
    [] run.harness = "muse"     -> MuseParse(p, l, s)
    [] run.harness = "opencode" -> OpenCodeParse(p, l, s)
    [] run.harness = "agy"      -> AgyParse(p, l, s)
    [] run.harness = "dsh"      -> DshParse(p, l, s)
    [] run.harness = "hermes"   -> HermesParse(p, l, s)
    [] OTHER                    -> p

------------------------------------------------------------------------
(* The harness.  Outside the repository: what it may do.                   *)

Running == child.state = "running"

\* Only Cursor's transcript matters: the turn's end is in it before the result line.
Write(l) ==
  /\ Running /\ child.lines < MaxLines
  /\ child.said = None \/ run.harness \in EndsMoreThanOnce
  /\ l \in Terminal /\ run.harness = "cursor" => child.ends > EarlierEnds
  /\ pipe' = Append(pipe, l)
  /\ child' = [child EXCEPT !.lines = @ + 1, !.errors = @ \/ l = "error",
                            !.said = IF l \in Terminal THEN l ELSE @]
  /\ UNCHANGED <<run, reader, parsed, late, pc, capture, noticed, waits, store, result>>

\* Cursor notes the end of its turn in its transcript, and then that of a follow-up turn.
TurnEnded ==
  /\ Running /\ run.harness = "cursor" /\ child.ends < EarlierEnds + 2
  /\ child' = [child EXCEPT !.ends = @ + 1]
  /\ UNCHANGED <<run, pipe, reader, parsed, late, pc, capture, noticed, waits, store, result>>

\* It exits; Devin may do so at a usage limit, whose reset stderr tells.
Exit(status, limit) ==
  /\ Running
  /\ limit => run.harness = "devin" /\ status = 1
  /\ child' = [child EXCEPT !.state = "gone", !.code = status, !.limit = limit]
  /\ UNCHANGED <<run, pipe, reader, parsed, late, pc, capture, noticed, waits, store, result>>

Tick ==
  /\ run.deadline /\ ~late /\ pc \notin {"launch", "done"}
  /\ late' = TRUE
  /\ UNCHANGED <<run, child, pipe, reader, parsed, pc, capture, noticed, waits, store, result>>

------------------------------------------------------------------------
(* _capture_process                                                        *)

Launch ==
  /\ pc = "launch"
  /\ \/ /\ pc' = "wait"
        /\ child' = [child EXCEPT !.state = "running"]
     \/ /\ pc' = "join"       \* command not found
        /\ child' = [child EXCEPT !.state = "gone", !.code = 127]
  /\ UNCHANGED <<run, pipe, reader, parsed, late, capture, noticed, waits, store, result>>

\* Claude's _is_response asks every line for its type until one answers, and Cursor's an
\* assistant's for its message's content; a line that has none ends the thread there.
Fatal(l) == l = "bare" /\ run.harness \in {"claude", "cursor"} /\ ~reader.answered
ReadLine ==
  /\ pipe # <<>> /\ ~reader.dead
  /\ LET l == Head(pipe)
     IN  /\ reader' = [dead |-> Fatal(l), answered |-> reader.answered \/ l = "text",
                       taken |-> IF Fatal(l) THEN reader.taken ELSE reader.taken + 1]
         /\ parsed' = IF Fatal(l) THEN parsed ELSE Parse(parsed, l, child.session)
  /\ pipe' = Tail(pipe)
  /\ UNCHANGED <<run, child, late, pc, capture, noticed, waits, store, result>>

Waited ==
  /\ pc = "wait" /\ child.state = "gone"
  /\ pc' = "join"
  /\ UNCHANGED <<run, child, pipe, reader, parsed, late, capture, noticed, waits, store, result>>

Deadline ==
  /\ pc = "wait" /\ late /\ Running
  /\ pc' = "stop"
  /\ capture' = [capture EXCEPT !.timedOut = TRUE]
  /\ UNCHANGED <<run, child, pipe, reader, parsed, late, noticed, waits, store, result>>

\* Does the transcript hold an end of this run's turn?  It is found by the chat's
\* identity, given by the request or read from the lines.
\* Slip: the ends of earlier turns are not subtracted.
TurnEndSeenSlip == run.resume \/ (parsed.session # None /\ child.ends > 0)
TurnEndSeen == (run.resume \/ parsed.session # None) /\ child.ends > EndedBefore

\* Every few seconds: note the silence, or stop a harness that has kept it long enough.
StopCheck ==
  /\ pc = "wait" /\ Running /\ run.harness = "cursor"
  /\ ~parsed.terminal /\ TurnEndSeen
  /\ \/ /\ noticed # reader.taken
        /\ noticed' = reader.taken
        /\ UNCHANGED <<pc, capture>>
     \/ /\ noticed = reader.taken
        /\ pc' = "stop"
        /\ capture' = [capture EXCEPT !.stopped = TRUE]
        /\ UNCHANGED noticed
  /\ UNCHANGED <<run, child, pipe, reader, parsed, late, waits, store, result>>

\* sandbox_launch.stop: SIGTERM to the harness, which may be gone already.
Stop ==
  /\ pc = "stop"
  /\ pc' = "killing"
  /\ child' = [child EXCEPT !.told = Running]
  /\ UNCHANGED <<run, pipe, reader, parsed, late, capture, noticed, waits, store, result>>

\* Slip: what remains is left running.
KillSlip ==
  /\ pc = "killing"
  /\ pc' = "join"
  /\ UNCHANGED <<run, child, pipe, reader, parsed, late, capture, noticed, waits, store, result>>
\* SIGKILL to what remains when the grace period is over.
Kill ==
  /\ pc = "killing"
  /\ pc' = "join"
  /\ child' = IF Running THEN [child EXCEPT !.state = "gone", !.code = 1] ELSE child
  /\ UNCHANGED <<run, pipe, reader, parsed, late, capture, noticed, waits, store, result>>

------------------------------------------------------------------------
(* What the adapter makes of it                                            *)

Drained == pipe = <<>> \/ reader.dead

\* Devin writes its export when it ends well, and none otherwise; the session is
\* then the one that was resumed, or looked up by the prompt.
DevinSession == IF run.resume THEN "asked" ELSE child.session
DevinParse ==
  IF child.code = 0 /\ child.said # None
  THEN [Unparsed EXCEPT !.session = child.session, !.terminal = TRUE,
                        !.final = IF child.said = "done" THEN "answer" ELSE None]
  ELSE [Unparsed EXCEPT !.session = DevinSession, !.err = TRUE]

\* The session that is exported: the one Hermes told of.
Strange == parsed.session = "other"
\* Slip: the last assistant message, whenever it was written.
HermesFinalSlip(after) ==
  IF after = "failed" THEN None
  ELSE IF parsed.piece THEN "answer" ELSE IF run.resume THEN "old" ELSE None
\* The last assistant message, if it is not the one the session had before: by its id,
\* or by its text where there is none.  What was not read before, and in a session that
\* is not the one asked for, it differs from what is there.
HermesFinal(after) ==
  IF after = "failed" THEN None
  ELSE IF run.resume /\ store.before
       THEN IF after = "same_text" THEN None
            ELSE IF parsed.piece THEN "answer" ELSE IF Strange THEN "old" ELSE None
       ELSE IF parsed.piece THEN "answer" ELSE IF run.resume THEN "old" ELSE None

\* A stopped Cursor's answer is the last text in its transcript.
CursorFinal ==
  IF parsed.final # None THEN parsed.final
  ELSE IF ~capture.stopped THEN None
  ELSE IF child.ends > EarlierEnds THEN "answer" ELSE "old"

Seen(after) ==
  CASE run.harness = "devin"  -> DevinParse
    [] run.harness = "hermes" ->
         [parsed EXCEPT !.final = HermesFinal(after),
                        !.session = IF @ = None /\ run.resume THEN "asked" ELSE @]
    [] run.harness = "cursor" -> [parsed EXCEPT !.final = CursorFinal]
    [] run.harness = "grok" /\ parsed.piece -> [parsed EXCEPT !.final = "piece"]
    [] OTHER -> parsed

\* Slip: any session will do.
MismatchSlip(p) == FALSE
\* _check_resumed_session, which Hermes is not put to.
Mismatch(p) == run.resume /\ run.harness # "hermes" /\ p.session # "asked"

\* The conditions under which each adapter sets an error beyond those all share.
ClaudeRejects(p)   == p.err \/ ~p.terminal
GrokRejects(p)     == ~p.terminal \/ p.final = None
CursorRejects(p)   == capture.stopped \/ ~p.terminal \/ p.final = None
DevinRejects(p)    == p.err \/ p.final = None
MuseRejects(p)     == p.err \/ ~p.terminal
OpenCodeRejects(p) == ~p.terminal \/ p.final = None
AgyRejects(p)      == ~p.terminal \/ p.final = None
HermesRejects(p)   == p.final = None
DshRejects(p)      == ~p.terminal \/ p.final = None

Rejects(p) ==
  CASE run.harness = "claude"   -> ClaudeRejects(p)
    [] run.harness = "grok"     -> GrokRejects(p)
    [] run.harness = "cursor"   -> CursorRejects(p)
    [] run.harness = "devin"    -> DevinRejects(p)
    [] run.harness = "muse"     -> MuseRejects(p)
    [] run.harness = "opencode" -> OpenCodeRejects(p)
    [] run.harness = "agy"      -> AgyRejects(p)
    [] run.harness = "hermes"   -> HermesRejects(p)
    [] OTHER                    -> DshRejects(p)

\* An empty answer is one only if the run delivers artifacts.
Unanswered(p) == p.final = "" /\ ~run.artifacts

Failed(p) ==
  \/ capture.timedOut \/ child.code # 0
  \/ Mismatch(p) \/ p.session = None
  \/ Rejects(p) \/ Unanswered(p)

\* The adapters that report an error of the turn beside its answer.
ProviderError(p) == p.err /\ run.harness \in {"grok", "cursor", "opencode", "agy", "dsh"}

\* RunResult.status; a session that is not the one asked for is not recorded.
StatusOf(p) ==
  LET completed == child.code = 0 /\ ~capture.timedOut /\ p.session # None /\ ~Mismatch(p)
  IN  IF ~completed \/ p.final = None \/ Failed(p) THEN "failed"
      ELSE IF ProviderError(p) THEN "response_available_with_provider_error"
      ELSE "succeeded"

\* Slip: no bound on the waits of a run without a deadline.
WaitsForLimitSlip == run.harness = "devin" /\ child.limit /\ ~capture.timedOut
\* Is there a limit to wait for, and time or waits left?
WaitsForLimit ==
  /\ run.harness = "devin" /\ child.limit /\ ~capture.timedOut
  /\ run.deadline \/ waits < MaxWaits

\* Hermes' session is exported once more when it has ended.
Joined ==
  /\ pc = "join" /\ Drained
  /\ pipe' = <<>>
  /\ UNCHANGED <<run, child, reader, parsed, late, capture, noticed>>
  /\ \/ /\ WaitsForLimit
        /\ pc' = "limit"
        /\ UNCHANGED <<waits, store, result>>
     \/ /\ ~WaitsForLimit
        /\ pc' = "done"
        /\ \E after \in (IF run.harness = "hermes" THEN Exports ELSE {None}) :
             LET p == Seen(after)
             IN  /\ store' = [store EXCEPT !.after = after]
                 /\ result' = [status |-> StatusOf(p), timedOut |-> capture.timedOut, final |-> p.final,
                               session |-> IF Mismatch(p) THEN None ELSE p.session]
        /\ UNCHANGED waits

\* The reset is waited for, or it comes too late for the deadline, or no session of a
\* fresh run is found to go on with.
LimitWait ==
  /\ pc = "limit"
  /\ \/ /\ ~late
        /\ pc' = "asleep"
        /\ waits' = IF waits < MaxWaits THEN waits + 1 ELSE waits
        /\ UNCHANGED result
     \/ \E session \in {None, DevinSession} :
          /\ IF session = None THEN ~run.resume ELSE run.deadline
          /\ pc' = "done"
          /\ result' = [status |-> "failed", timedOut |-> FALSE, final |-> None, session |-> session]
          /\ UNCHANGED waits
  /\ UNCHANGED <<run, child, pipe, reader, parsed, late, capture, noticed, store>>

\* The session goes on in a new process, which adds to the output and the log.
Retry ==
  /\ pc = "asleep"
  /\ pc' = "wait"
  /\ child' = [IdleChild(child.session, 0) EXCEPT !.state = "running", !.ends = child.ends]
  /\ reader' = [dead |-> FALSE, answered |-> FALSE, taken |-> 0]
  /\ UNCHANGED <<run, pipe, parsed, late, capture, noticed, waits, store, result>>

Over == pc = "done" /\ UNCHANGED vars

HarnessStep ==
  \/ \E l \in LinesOf(run.harness) : Write(l)
  \/ TurnEnded
  \/ \E status \in {0, 1}, limit \in BOOLEAN : Exit(status, limit)

Aop ==
  \/ Launch \/ ReadLine \/ Waited \/ Deadline \/ StopCheck \/ Stop \/ Kill
  \/ Joined \/ LimitWait \/ Retry

Next == HarnessStep \/ Tick \/ Aop \/ Over

Spec == Init /\ [][Next]_vars

\* AOP's steps and time go on.  A harness with no deadline is taken to end, if it is
\* read: one that is not may fill its pipe and wait for ever.
FairSpec ==
  /\ Spec
  /\ WF_vars(Aop) /\ WF_vars(Tick)
  /\ WF_vars(/\ ~run.deadline /\ ~reader.dead
             /\ \E status \in {0, 1}, limit \in BOOLEAN : Exit(status, limit))

------------------------------------------------------------------------
(* Properties                                                              *)

\* A run that is reported to have succeeded has: its harness ended by itself, with
\* status 0 and before AOP gave up on it, in the session that was asked for, and the
\* last thing it said of its turn was that it had gone well.  (A Hermes that said nothing
\* succeeds with an old answer where AnswerIsNew lets one pass.)
SuccessIsReal ==
  result.status = "succeeded" =>
    /\ child.code = 0 /\ ~capture.timedOut /\ ~capture.stopped
    /\ run.resume /\ run.harness # "hermes" => child.session = "asked"
    /\ result.final # "old" => child.said \in {"done", "empty"}

\* The answer of a run is never one from before it: what a resumed session ends with is
\* compared with what it ended with before.  Where that was not found before the turn,
\* or Hermes went on in another session, an old answer passes for new.
AnswerIsNew ==
  result.final = "old" =>
    run.resume /\ (~store.before \/ (run.harness = "hermes" /\ child.session = "other"))

\* A harness that ended well and in time, and was read to its end, is not reported as
\* failed: no event, order of events or retry loses an answer.  Hermes' answer is in an
\* export that succeeded, where it can be told from the one before.
AnswerIsReported ==
  (/\ pc = "done" /\ child.code = 0 /\ child.said = "done" /\ ~child.errors
   /\ ~child.told /\ ~capture.timedOut /\ ~capture.stopped /\ ~reader.dead
   /\ ~run.resume \/ child.session = "asked"
   /\ run.harness = "hermes" => parsed.session # None /\ store.after \in {"ids", "other_text"})
  => result.status = "succeeded"

\* A Cursor that is stopped for its silence has ended its turn: one at work in silence, as
\* in a long build, is left alone, in a resumed chat too, unless its transcript was not
\* found when the turn started and the ends of earlier turns were not counted.
SilenceIsNotTheEnd ==
  capture.stopped => child.ends > EarlierEnds \/ (run.resume /\ ~store.before)

\* When the run is over its harness is gone: a deadline or a stop that passes as it
\* exits, or that it does not heed, never leaves it running.
NothingLeftRunning == pc \in {"limit", "asleep", "done"} => child.state = "gone"

\* A run ends: the deadline, the grace period, the waits for a usage limit and the
\* watching of a silent Cursor all come to an end.  Only a harness without a deadline,
\* and whose output is no longer read, may never exit.
TurnEnds == <>(pc = "done" \/ (~run.deadline /\ reader.dead))
========================================================================
