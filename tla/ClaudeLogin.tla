----------------------------- MODULE ClaudeLogin -----------------------------
(***************************************************************************)
(* _ClaudeLogin (runner.py): one user's Claude sign-in and the private     *)
(* copies of it that sandboxed runs use.  A sign-in is renewed with a      *)
(* rotating refresh token, so only the newest generation of it works, and  *)
(* AOP copies whichever side refreshed onto the other.  Reading the two    *)
(* files, copying one and noting their stamps are separate steps, between  *)
(* which either side may refresh; a copy may fail (a full disk, a file     *)
(* taken away), which a sync passes over.                                  *)
(*                                                                         *)
(* A file is the generation of the refresh token in it, 0 for none, and    *)
(* its stamp is taken to change exactly when that does: rewriting the same *)
(* token only makes AOP look once more.                                    *)
(***************************************************************************)
EXTENDS Naturals

CONSTANTS
  Homes,        \* tasks with a private Claude home
  MaxRefresh,   \* bound: refreshes
  MaxCrashes,   \* bound: runs killed
  MaxFailures   \* bound: copies that fail

ASSUME LoginAssumption == {MaxRefresh, MaxCrashes, MaxFailures} \subseteq Nat

VARIABLES
  live,      \* the generation the server accepts
  source,    \* the user's credentials file
  private,   \* private[t]: the copy in t's private home
  shared,    \* shared[t]: the token AOP last knew both sides to hold
  got,       \* got[t]: the tokens a sync has read
  seen,      \* seen[t]: the stamps after the last sync
  pc,        \* pc[t]: where t's run is
  crashes,   \* runs killed so far
  failures,  \* copies that failed so far
  stranded   \* a run's refresh, made or to come, will not reach the user's file

loginVars ==
  <<live, source, private, shared, got, seen, pc, crashes, failures, stranded>>
trouble == <<crashes, failures, stranded>>

Tokens == 0 .. MaxRefresh + 1
Pair == [source : Tokens, private : Tokens]
Nothing == [source |-> 0, private |-> 0]   \* also: no stamp taken yet
Watching == {"poll", "copy", "stamp"}
Points == {"idle", "start", "start_copy", "final", "final_copy"} \union Watching

LoginTypeOK ==
  /\ live \in Tokens /\ source \in Tokens
  /\ private \in [Homes -> Tokens] /\ shared \in [Homes -> Tokens]
  /\ got \in [Homes -> Pair] /\ seen \in [Homes -> Pair]
  /\ pc \in [Homes -> Points]
  /\ crashes \in 0 .. MaxCrashes /\ failures \in 0 .. MaxFailures
  /\ stranded \in BOOLEAN

LoginInit ==
  /\ live = 1 /\ source = 1
  /\ private = [t \in Homes |-> 0]
  /\ shared = [t \in Homes |-> 0]
  /\ got = [t \in Homes |-> Nothing]
  /\ seen = [t \in Homes |-> Nothing]
  /\ pc = [t \in Homes |-> "idle"]
  /\ crashes = 0 /\ failures = 0 /\ stranded = FALSE

-----------------------------------------------------------------------------
At(t, point) == pc[t] = point
Goto(t, point) == pc' = [pc EXCEPT ![t] = point]
Files(t) == [source |-> source, private |-> private[t]]

\* The two sign-ins are looked at when the run starts.
Begin(t) ==
  /\ At(t, "idle")
  /\ got' = [got EXCEPT ![t] = Files(t)]
  /\ shared' = [shared EXCEPT ![t] = 0]
  /\ seen' = [seen EXCEPT ![t] = Nothing]
  /\ Goto(t, "start")
  /\ UNCHANGED <<live, source, private, trouble>>

\* The user's sign-in is taken unless the private one expires later; the expiry
\* is read from the files once more.
Decide(t) ==
  /\ At(t, "start")
  /\ IF got[t].source # 0 /\ (got[t].private = 0 \/ source > private[t])
     THEN Goto(t, "start_copy") /\ UNCHANGED shared
     ELSE Goto(t, "poll") /\ shared' = [shared EXCEPT ![t] = got[t].private]
  /\ UNCHANGED <<live, source, private, got, seen, trouble>>

\* The file is copied as it is by now; what was read is what is remembered.
StartCopy(t) ==
  /\ At(t, "start_copy")
  /\ private' = [private EXCEPT ![t] = source]
  /\ shared' = [shared EXCEPT ![t] = got[t].source]
  /\ Goto(t, "poll")
  /\ UNCHANGED <<live, source, got, seen, trouble>>

\* The first copy is the one whose failure is not passed over: there is no run.
StartCopyFails(t) ==
  /\ At(t, "start_copy")
  /\ failures < MaxFailures
  /\ failures' = failures + 1
  /\ Goto(t, "idle")
  /\ UNCHANGED <<live, source, private, shared, got, seen, crashes, stranded>>

\* Every tenth of a second: a sync if a stamp changed since the last one.
Poll(t) ==
  /\ At(t, "poll")
  /\ Files(t) # seen[t]
  /\ got' = [got EXCEPT ![t] = Files(t)]
  /\ Goto(t, "copy")
  /\ UNCHANGED <<live, source, private, shared, seen, trouble>>

\* Slip: the watcher is stopped, and nothing looks once more.
RunEndsAtOnce(t) ==
  /\ At(t, "poll")
  /\ Goto(t, "idle")
  /\ UNCHANGED <<live, source, private, shared, got, seen, trouble>>

\* The harness has ended and the watcher is joined; the last sync reads.
RunEnds(t) ==
  /\ At(t, "poll")
  /\ Goto(t, "final")
  /\ UNCHANGED <<live, source, private, shared, got, seen, trouble>>

FinalRead(t) ==
  /\ At(t, "final")
  /\ got' = [got EXCEPT ![t] = Files(t)]
  /\ Goto(t, "final_copy")
  /\ UNCHANGED <<live, source, private, shared, seen, trouble>>

\* Slip: a copy that Claude wiped counts as changed.
WipedIsAhead(t) ==
  /\ shared[t] # 0
  /\ got[t].private # shared[t]
  /\ got[t].source = shared[t]

\* Slip: the user's file is written back whether or not the run refreshed.
AlwaysAhead(t) ==
  /\ shared[t] # 0
  /\ got[t].private # 0
  /\ got[t].source = shared[t]

\* The run refreshed, and the user's side still holds what both held before.
RunIsAhead(t) ==
  /\ shared[t] # 0
  /\ got[t].private \notin {0, shared[t]}
  /\ got[t].source = shared[t]
UserIsAhead(t) == shared[t] # 0 /\ got[t].source \notin {0, shared[t]}

Copy(t) ==
  /\ pc[t] \in {"copy", "final_copy"}
  /\ source' = IF RunIsAhead(t) THEN private[t] ELSE source
  /\ private' = IF ~RunIsAhead(t) /\ UserIsAhead(t)
                THEN [private EXCEPT ![t] = source] ELSE private
  /\ shared' = IF RunIsAhead(t) THEN [shared EXCEPT ![t] = got[t].private]
               ELSE IF UserIsAhead(t) THEN [shared EXCEPT ![t] = got[t].source]
               ELSE shared
  /\ Goto(t, IF At(t, "copy") THEN "stamp" ELSE "idle")
  /\ UNCHANGED <<live, got, seen, trouble>>

\* The token the server accepts is in t's private copy, and not in the user's.
OnlyPrivate(t) == private[t] = live /\ source # live

\* A sync passes over a failed copy: neither file changes, nor what AOP takes
\* both sides to hold, and no other copy is tried before a stamp changes or the
\* run ends.  The last sync has nothing after it.
CopyFails(t) ==
  /\ pc[t] \in {"copy", "final_copy"}
  /\ RunIsAhead(t) \/ UserIsAhead(t)
  /\ failures < MaxFailures
  /\ failures' = failures + 1
  /\ stranded' = (stranded \/ (At(t, "final_copy") /\ OnlyPrivate(t))
                            \/ (At(t, "copy") /\ private[t] = source))
  /\ Goto(t, IF At(t, "copy") THEN "stamp" ELSE "idle")
  /\ UNCHANGED <<live, source, private, shared, got, seen, crashes>>

\* Only now are the stamps noted.
Stamp(t) ==
  /\ At(t, "stamp")
  /\ seen' = [seen EXCEPT ![t] = Files(t)]
  /\ Goto(t, "poll")
  /\ UNCHANGED <<live, source, private, shared, got, trouble>>

Crash(t) ==
  /\ ~At(t, "idle")
  /\ crashes < MaxCrashes
  /\ crashes' = crashes + 1
  /\ Goto(t, "idle")
  /\ stranded' = (stranded \/ OnlyPrivate(t))
  /\ UNCHANGED <<live, source, private, shared, got, seen, failures>>

-----------------------------------------------------------------------------
(* Claude itself, in the user's sessions and in the runs.  Refreshes are hours
   apart and AOP looks every tenth of a second, so one is taken to find every
   watched run settled: its copy in step with the user's, or a failed copy
   behind it and nothing that AOP would look at once more. *)
InStep(t) == {private[t], shared[t], source} = {live}
Settled ==
  \A t \in Homes :
    pc[t] \in Watching => InStep(t) \/ (At(t, "poll") /\ seen[t] = Files(t))

UserRefreshes ==
  /\ live <= MaxRefresh /\ source = live /\ Settled
  /\ live' = live + 1
  /\ source' = live + 1
  /\ UNCHANGED <<private, shared, got, seen, pc, trouble>>

\* A refresh with a revoked token fails, and Claude wipes the copy.
UserRefreshFails ==
  /\ source \notin {0, live} /\ Settled
  /\ source' = 0
  /\ UNCHANGED <<live, private, shared, got, seen, pc, trouble>>

\* A copy takes the file as it is by then, but what was read before is noted; and
\* a copy that failed notes nothing.  So both sides can hold a token when AOP still
\* compares with an older one: it takes the run's next refresh for the user's.
Unnoted(t) == source = live /\ shared[t] # live

RunRefreshes(t) ==
  /\ pc[t] \in Watching
  /\ live <= MaxRefresh /\ private[t] = live /\ Settled
  /\ live' = live + 1
  /\ private' = [private EXCEPT ![t] = live + 1]
  /\ stranded' = (stranded \/ Unnoted(t))
  /\ UNCHANGED <<source, shared, got, seen, pc, crashes, failures>>

RunRefreshFails(t) ==
  /\ pc[t] \in Watching
  /\ private[t] \notin {0, live}
  /\ private' = [private EXCEPT ![t] = 0]
  /\ UNCHANGED <<live, source, shared, got, seen, pc, trouble>>

Watch(t) ==
  \/ Decide(t) \/ StartCopy(t) \/ StartCopyFails(t)
  \/ Poll(t) \/ Copy(t) \/ CopyFails(t) \/ Stamp(t) \/ FinalRead(t)

LoginNext ==
  \/ UserRefreshes \/ UserRefreshFails
  \/ \E t \in Homes :
       Begin(t) \/ Watch(t) \/ RunEnds(t) \/ Crash(t) \/ RunRefreshes(t) \/ RunRefreshFails(t)

LoginSpec == LoginInit /\ [][LoginNext]_loginVars

-----------------------------------------------------------------------------
(* Properties *)

\* The sign-in is never lost: some file holds the token the server accepts,
\* whatever copies failed while the runs went on.  The exceptions are the two
\* this code has: a run is over, killed or failing its very last copy, with a
\* refresh that is in its own copy only; or it refreshed a token both sides held
\* when AOP still compared with an older one.
SomeoneIsSignedIn ==
  stranded \/ source = live \/ \E t \in Homes : private[t] = live

\* When no run is under way the user's file holds no token that a run's refresh
\* revoked, with the same exceptions.  (It is empty only if the user's own
\* session wiped it, after the failed copy of a run's refresh.)
UserIsSignedIn ==
  (\A t \in Homes : At(t, "idle")) => stranded \/ source \in {0, live}

\* A copy Claude wiped after a failed refresh is never copied over the user's
\* sign-in: only a session of the user's own empties that file.
WipedStaysPrivate ==
  [][source # 0 /\ source' = 0 => UserRefreshFails]_loginVars

\* What the comment on a sync's failures says, "A later check, or the next run,
\* tries again" (runner.py:6315): whatever failed, and even after a kill, some
\* file holds the token the server accepts.
SignInSurvives == source = live \/ \E t \in Homes : private[t] = live
=============================================================================
