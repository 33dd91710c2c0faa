----------------------- MODULE HermesCredentials -----------------------
(* The sign-in tokens of Hermes, each good for one refresh, which answers  *)
(* with the next.  The user's home has them, every task has a home of its  *)
(* own with a copy, and a state directory a shared one.  A turn holds the  *)
(* directory's lock from before it gathers the freshest of them until it   *)
(* has put what Hermes left back.  A turn may be killed at any point, its  *)
(* task cleaned up at any time it has no turn, and the user and the tasks  *)
(* of other state directories use the same sign-in meanwhile.              *)
EXTENDS Naturals, FiniteSets

CONSTANTS
  Dirs,         \* state directories of projects that share the user's home
  Tasks,        \* tasks that Hermes runs in
  Dir,          \* [Tasks -> Dirs]: the state directory of each
  Unseen,       \* tasks whose home the search for killed turns does not reach
  Providers,    \* providers with a token each
  MaxTime       \* bound: refreshes and failures, which are what has a time

ASSUME HermesCredentialsAssumption ==
  /\ Dir \in [Tasks -> Dirs] /\ Unseen \subseteq Tasks
  /\ MaxTime \in Nat /\ "free" \notin Tasks /\ "user" \notin Dirs

VARIABLES
  time,     \* the time of the latest change
  accepted, \* per provider, the one token it accepts, named by when it was obtained
  user,     \* the user's store
  common,   \* each state directory's, which its tasks share
  home,     \* each task's
  at,       \* where each task's turn is
  lock,     \* per state directory, the task that holds its lock
  (* What happened to the accepted token of a provider: *)
  by,       \* who obtained it: the user, or a turn in a state directory
  gathered, \* per state directory, when its last turn gathered its tokens
  lost      \* those whose only copy was left, or removed, where nothing looks

whereabouts == <<by, gathered, lost>>
hermesVars == <<time, accepted, user, common, home, at, lock, by, gathered, lost>>

Free == "free"
User == "user"
Times == 0 .. MaxTime
Stores == [has: BOOLEAN, token: [Providers -> Times], updated: Times]
NoStore == [has |-> FALSE, token |-> [p \in Providers |-> 0], updated |-> 0]
SignedIn == [NoStore EXCEPT !.has = TRUE]
Places == {"idle", "waiting", "locked", "shared", "running", "stopped"}
InTurn == {t \in Tasks : at[t] \in {"shared", "locked", "running", "stopped"}}

HermesTypeOK ==
  /\ time \in Times /\ accepted \in [Providers -> Times]
  /\ user \in Stores /\ common \in [Dirs -> Stores] /\ home \in [Tasks -> Stores]
  /\ at \in [Tasks -> Places] /\ lock \in [Dirs -> Tasks \cup {Free}]
  /\ by \in [Providers -> Dirs \cup {User}] /\ gathered \in [Dirs -> Times]
  /\ lost \in SUBSET Providers

HermesInit ==
  /\ time = 0 /\ accepted = [p \in Providers |-> 0]
  /\ user = SignedIn
  /\ common = [d \in Dirs |-> NoStore]
  /\ home = [t \in Tasks |-> NoStore]
  /\ at = [t \in Tasks |-> "idle"]
  /\ lock = [d \in Dirs |-> Free]
  /\ by = [p \in Providers |-> User] /\ gathered = [d \in Dirs |-> 0] /\ lost = {}

Goes(t, place) == at' = [at EXCEPT ![t] = place]

\* How fresh a token is: when it was obtained, then when its store was written.
Freshness(store, p) == <<store.token[p], store.updated>>
AtLeast(a, b) == a[1] > b[1] \/ (a[1] = b[1] /\ a[2] >= b[2])

\* _merge_hermes_auth_stores: each provider's token from the store that has it freshest.
Merge(stores) ==
  [has |-> TRUE,
   token |-> [p \in Providers |->
     (CHOOSE s \in stores : \A o \in stores : AtLeast(Freshness(s, p), Freshness(o, p))).token[p]],
   updated |-> (CHOOSE s \in stores : \A o \in stores : s.updated >= o.updated).updated]

\* Slip: what killed turns left is not looked for.
CandidatesSlip(d) == {s \in {user, common[d]} : s.has}
\* The user's store, the common one and those of the tasks that the search reaches.
Candidates(d) ==
  {s \in {user, common[d]} \cup {home[t] : t \in {u \in Tasks \ Unseen : Dir[u] = d}} : s.has}

------------------------------------------------------------------------
(* A turn.                                                                 *)

\* The stores that some turn in t's directory would find without t's own; those of
\* running turns are put back.
Elsewhere(t) ==
  {s \in {user, common[Dir[t]]}
         \cup {home[u] : u \in {v \in Tasks \ {t} :
                            Dir[v] = Dir[t] /\ (v \in Unseen => at[v] \in {"running", "stopped"})}}
      : s.has}
\* The providers whose accepted token t's home alone has.
OnlyIn(t) ==
  {p \in Providers : home[t].has /\ home[t].token[p] = accepted[p]
                        /\ \A s \in Elsewhere(t) : s.token[p] # accepted[p]}

\* A task that has no home gets one, with a copy of the user's store.
BeginTurn(t) ==
  /\ at[t] = "idle" /\ Goes(t, "waiting")
  /\ home' = [home EXCEPT ![t] = IF @.has THEN @ ELSE user]
  /\ UNCHANGED <<time, accepted, user, common, lock, whereabouts>>
\* Slip: the lock is the task's.
LockSlip(t) ==
  /\ at[t] = "waiting" /\ lock' = [lock EXCEPT ![Dir[t]] = t] /\ Goes(t, "locked")
  /\ UNCHANGED <<time, accepted, user, common, home, whereabouts>>
Lock(t) ==
  /\ at[t] = "waiting" /\ lock[Dir[t]] = Free
  /\ lock' = [lock EXCEPT ![Dir[t]] = t] /\ Goes(t, "locked")
  /\ UNCHANGED <<time, accepted, user, common, home, whereabouts>>
\* The freshest of all goes to the common store, then to the task's.
Gather(t) ==
  /\ at[t] = "locked" /\ Goes(t, "shared")
  /\ common' = [common EXCEPT ![Dir[t]] = Merge(Candidates(Dir[t]))]
  /\ gathered' = [gathered EXCEPT ![Dir[t]] = time]
  /\ UNCHANGED <<time, accepted, user, home, lock, by, lost>>
Hand(t) ==
  /\ at[t] = "shared" /\ Goes(t, "running")
  /\ home' = [home EXCEPT ![t] = common[Dir[t]]]
  /\ UNCHANGED <<time, accepted, user, common, lock, whereabouts>>
\* Hermes refreshes a token.  One that is no longer good leaves its store rewritten.
Refreshed(store, p) ==
  [store EXCEPT !.token[p] = IF store.token[p] = accepted[p] THEN time + 1 ELSE @, !.updated = time + 1]
Use(who, store, p) ==
  /\ time < MaxTime /\ time' = time + 1
  /\ IF store.token[p] = accepted[p]
     THEN /\ accepted' = [accepted EXCEPT ![p] = time + 1]
          /\ by' = [by EXCEPT ![p] = who] /\ lost' = lost \ {p}
     ELSE UNCHANGED <<accepted, by, lost>>
Refresh(t, p) ==
  /\ at[t] = "running"
  /\ Use(Dir[t], home[t], p) /\ home' = [home EXCEPT ![t] = Refreshed(home[t], p)]
  /\ UNCHANGED <<user, common, at, lock, gathered>>
End(t) ==
  /\ at[t] = "running" /\ Goes(t, "stopped")
  /\ UNCHANGED <<time, accepted, user, common, home, lock, whereabouts>>
\* The task's store becomes the common one, and the lock is free.
PutBack(t) ==
  /\ at[t] = "stopped" /\ Goes(t, "idle")
  /\ common' = [common EXCEPT ![Dir[t]] = home[t]]
  /\ lock' = [lock EXCEPT ![Dir[t]] = Free]
  /\ UNCHANGED <<time, accepted, user, home, whereabouts>>
\* The process dies, and the lock with it; what it wrote stays, and is looked for in
\* the homes that the search reaches.
KillTurn(t) ==
  /\ t \in InTurn /\ Goes(t, "idle")
  /\ lock' = [lock EXCEPT ![Dir[t]] = IF @ = t THEN Free ELSE @]
  /\ lost' = IF t \in Unseen THEN lost \cup OnlyIn(t) ELSE lost
  /\ UNCHANGED <<time, accepted, user, common, home, by, gathered>>
\* `aop cleanup` removes the private directories of a task that has no turn.
Cleanup(t) ==
  /\ at[t] = "idle" /\ home[t].has
  /\ home' = [home EXCEPT ![t] = NoStore]
  /\ lost' = lost \cup OnlyIn(t)
  /\ UNCHANGED <<time, accepted, user, common, at, lock, by, gathered>>

------------------------------------------------------------------------
(* The user, at any time.                                                  *)

\* The user runs Hermes by hand: a token is refreshed, or one that a task used up fails.
UserRefresh(p) ==
  /\ Use(User, user, p) /\ user' = Refreshed(user, p)
  /\ UNCHANGED <<common, home, at, lock, gathered>>
\* Signing in anew gives a token of its own, and the old one is not used again.
SignIn(p) ==
  /\ time < MaxTime /\ time' = time + 1
  /\ accepted' = [accepted EXCEPT ![p] = time + 1]
  /\ by' = [by EXCEPT ![p] = User] /\ lost' = lost \ {p}
  /\ user' = [user EXCEPT !.token[p] = time + 1, !.updated = time + 1]
  /\ UNCHANGED <<common, home, at, lock, gathered>>

TurnStep(t) == \/ BeginTurn(t) \/ Lock(t) \/ Gather(t) \/ Hand(t) \/ (\E p \in Providers : Refresh(t, p))
               \/ End(t) \/ PutBack(t)
HermesNext ==
  \/ \E t \in Tasks : TurnStep(t) \/ KillTurn(t) \/ Cleanup(t)
  \/ \E p \in Providers : UserRefresh(p) \/ SignIn(p)
HermesSpec == HermesInit /\ [][HermesNext]_hermesVars

------------------------------------------------------------------------

\* A provider whose token is a turn's in d to have: obtained by the user or by a turn
\* in d, and not lost.  (What another state directory's turn obtains stays in that one.)
Within(d, p) == by[p] \in {User, d} /\ p \notin lost

\* While Hermes runs in a task every token it has is the one its provider accepts,
\* unless the user's own Hermes got a newer one after the turn had gathered it: no two
\* tasks of a state directory use up the same one, nor does one use up what the user
\* still has (runner.py:6840-6899, docs/harnesses.md:209-211).
TokensAreLive ==
  \A t \in Tasks, p \in Providers :
    at[t] = "running" /\ Within(Dir[t], p) /\ (by[p] = User => accepted[p] <= gathered[Dir[t]])
      => home[t].token[p] = accepted[p]

\* However a turn was killed, what the user and other state directories did and which
\* tasks were cleaned up, the token a provider accepts is in a store that the next turn
\* of any of its state directory's tasks will look at (runner.py:6846), but for one that
\* a killed turn left where nothing looks or a cleanup removed.
LiveTokenIsFound ==
  \A d \in Dirs, p \in Providers :
    LET reached == Candidates(d)
          \cup {home[t] : t \in {u \in Tasks : Dir[u] = d /\ at[u] \in {"running", "stopped"}}}
    IN Within(d, p) => \E s \in reached : s.token[p] = accepted[p]

\* What the comment at the search says, "Recover a rotation even if AOP was interrupted
\* before committing it": no token a provider accepts is ever lost.
RotationsAreRecovered == lost = {}
=============================================================================
