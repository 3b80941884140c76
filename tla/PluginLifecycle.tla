--------------------------- MODULE PluginLifecycle ---------------------------
(***************************************************************************)
(* One Instance of the Postgres Plugin: its factory, the prepare and       *)
(* deactivate hooks, and the calls between them, all sharing the cell      *)
(* "state" that holds the pool being served.                               *)
(*                                                                         *)
(* Hooks and calls are futures of one thread: they interleave at their     *)
(* awaits, and whoever polls one may drop it there instead (a deadline, a  *)
(* shutdown).  Each takes what it needs of "state" when it is CALLED and   *)
(* works on it when it is first polled.  The kernel is external: it may    *)
(* call any hook at any time once the Instance exists.                     *)
(***************************************************************************)
EXTENDS Integers, FiniteSets

CONSTANTS
  Prepares,     \* prepare futures; each opens a pool and gives it its name
  Calls,        \* capability calls
  Deactivates,  \* deactivate futures
  NoPool,       \* None
  Connections,  \* max_connections of a pool
  Configs       \* configurations the composition may give the Instance

ASSUME LifecycleAssumption ==
  /\ NoPool \notin Prepares
  /\ Connections \in Nat \ {0}

\* What is asked of a configuration: the entrypoint and the JSON, then
\* OrganizationConfig::validate.  An empty list of admin callers is refused;
\* the others may be empty, and then admit nobody.
ConfigChecks == {"entrypoint", "json", "schema", "secret", "admin_given",
                 "admin_valid", "directory_valid", "membership_admin_valid"}

ASSUME ConfigsAssumption == Configs \subseteq [ConfigChecks -> BOOLEAN]

VARIABLES
  config,
  instance,  \* "none", "rejected" or "ready": the outcome of instantiate
  state,     \* the pool in the shared cell, or NoPool
  closed,    \* pools whose close() has begun: nothing is acquired from them
  prepare,   \* where each prepare stands
  call,      \* where each call stands
  callPool,  \* what each call captured of state
  deactivate,
  taken,     \* what each deactivate took out of state
  current    \* history: prepares unfinished at, or begun after, the last take

lifeVars == <<config, instance, state, closed, prepare, call, callPool,
              deactivate, taken, current>>

Pool == Prepares \cup {NoPool}

-----------------------------------------------------------------------------
(* instantiate *)

\* OrganizationConfig::validate
Validates(c) ==
  /\ c["schema"] /\ c["secret"]
  /\ c["admin_given"] /\ c["admin_valid"]
  /\ c["directory_valid"] /\ c["membership_admin_valid"]

Instantiate ==
  /\ instance = "none"
  /\ instance' = IF config["entrypoint"] /\ config["json"] /\ Validates(config)
                   THEN "ready" ELSE "rejected"
  /\ UNCHANGED <<config, state, closed, prepare, call, callPool, deactivate, taken, current>>

-----------------------------------------------------------------------------
(* prepare: resolve the secret, open the pool and verify the schema; publish. *)

Preparing(p) == prepare[p] \in {"resolving", "connecting"}

BeginPrepare(p) ==
  /\ instance = "ready" /\ prepare[p] = "idle"
  /\ prepare' = [prepare EXCEPT ![p] = "resolving"]
  /\ current' = current \cup {p}
  /\ UNCHANGED <<config, instance, state, closed, call, callPool, deactivate, taken>>

ResolveSecret(p) ==
  /\ prepare[p] = "resolving"
  /\ \E next \in {"connecting", "failed"} : prepare' = [prepare EXCEPT ![p] = next]
  /\ UNCHANGED <<config, instance, state, closed, call, callPool, deactivate, taken, current>>

\* The schema was verified and the pool is published in the same poll.  A pool
\* that was there is replaced without being closed: the calls that hold it go
\* on.
Publish(p) ==
  /\ prepare[p] = "connecting"
  /\ prepare' = [prepare EXCEPT ![p] = "prepared"]
  /\ state' = p
  /\ UNCHANGED <<config, instance, closed, call, callPool, deactivate, taken, current>>

\* No connection, another schema than the plan's, or the future is dropped.
FailPrepare(p) ==
  /\ Preparing(p)
  /\ \E next \in {"failed", "dropped"} : prepare' = [prepare EXCEPT ![p] = next]
  /\ UNCHANGED <<config, instance, state, closed, call, callPool, deactivate, taken, current>>

-----------------------------------------------------------------------------
(* A call: prepared() when it is made, everything else when it is polled. *)

Users(p) == {c \in Calls : call[c] = "using" /\ callPool[c] = p}

Invoke(c) ==
  /\ instance = "ready" /\ call[c] = "idle"
  /\ call' = [call EXCEPT ![c] = "made"]
  /\ callPool' = [callPool EXCEPT ![c] = state]
  /\ UNCHANGED <<config, instance, state, closed, prepare, deactivate, taken, current>>

\* Refused for what it asks, prepared or not; then the captured state counts.
PollCall(c) ==
  /\ call[c] = "made"
  /\ \E next \in {"refused", IF callPool[c] = NoPool THEN "failed" ELSE "waiting"} :
       call' = [call EXCEPT ![c] = next]
  /\ UNCHANGED <<config, instance, state, closed, prepare, callPool, deactivate, taken, current>>

\* Mutant: a closing pool still lends what it has.
AcquireAnyway(c) ==
  /\ call[c] = "waiting"
  /\ Cardinality(Users(callPool[c])) < Connections
  /\ call' = [call EXCEPT ![c] = "using"]
  /\ UNCHANGED <<config, instance, state, closed, prepare, callPool, deactivate, taken, current>>

Acquire(c) ==
  /\ call[c] = "waiting"
  /\ callPool[c] \notin closed
  /\ Cardinality(Users(callPool[c])) < Connections
  /\ call' = [call EXCEPT ![c] = "using"]
  /\ UNCHANGED <<config, instance, state, closed, prepare, callPool, deactivate, taken, current>>

\* Mutant: a call waits for a connection without a deadline.
FailUsing(c) ==
  /\ call[c] = "using"
  /\ call' = [call EXCEPT ![c] = "failed"]
  /\ UNCHANGED <<config, instance, state, closed, prepare, callPool, deactivate, taken, current>>

\* The pool is closed, the wait for a connection times out, or the database
\* fails.
FailCall(c) ==
  /\ call[c] \in {"waiting", "using"}
  /\ call' = [call EXCEPT ![c] = "failed"]
  /\ UNCHANGED <<config, instance, state, closed, prepare, callPool, deactivate, taken, current>>

Finish(c) ==
  /\ call[c] = "using"
  /\ call' = [call EXCEPT ![c] = "answered"]
  /\ UNCHANGED <<config, instance, state, closed, prepare, callPool, deactivate, taken, current>>

DropCall(c) ==
  /\ call[c] \in {"made", "waiting", "using"}
  /\ call' = [call EXCEPT ![c] = "dropped"]
  /\ UNCHANGED <<config, instance, state, closed, prepare, callPool, deactivate, taken, current>>

-----------------------------------------------------------------------------
(* deactivate: take the state when called; close its pool when polled.      *)

\* Mutant: deactivate clones the state and leaves it in place.
TakeClone(d) ==
  /\ instance = "ready" /\ deactivate[d] = "idle"
  /\ deactivate' = [deactivate EXCEPT ![d] = "taken"]
  /\ taken' = [taken EXCEPT ![d] = state]
  /\ current' = {p \in Prepares : Preparing(p)}
  /\ UNCHANGED <<config, instance, state, closed, prepare, call, callPool>>

Take(d) ==
  /\ instance = "ready" /\ deactivate[d] = "idle"
  /\ deactivate' = [deactivate EXCEPT ![d] = "taken"]
  /\ taken' = [taken EXCEPT ![d] = state]
  /\ state' = NoPool
  /\ current' = {p \in Prepares : Preparing(p)}
  /\ UNCHANGED <<config, instance, closed, prepare, call, callPool>>

\* Mutant: a deactivate of what was never prepared has nothing to close, and
\* does not end.
CloseTaken(d) ==
  /\ deactivate[d] = "taken" /\ taken[d] # NoPool
  /\ deactivate' = [deactivate EXCEPT ![d] = "closing"]
  /\ closed' = closed \cup {taken[d]}
  /\ UNCHANGED <<config, instance, state, prepare, call, callPool, taken, current>>

Close(d) ==
  /\ deactivate[d] = "taken"
  /\ deactivate' = [deactivate EXCEPT ![d] = "closing"]
  /\ closed' = closed \cup ({taken[d]} \ {NoPool})
  /\ UNCHANGED <<config, instance, state, prepare, call, callPool, taken, current>>

\* Mutant: close() is begun and not awaited.
EndUnawaited(d) ==
  /\ deactivate[d] = "closing"
  /\ deactivate' = [deactivate EXCEPT ![d] = "done"]
  /\ UNCHANGED <<config, instance, state, closed, prepare, call, callPool, taken, current>>

\* close().await ends when every connection has come back.
EndDeactivate(d) ==
  /\ deactivate[d] = "closing"
  /\ Users(taken[d]) = {}
  /\ deactivate' = [deactivate EXCEPT ![d] = "done"]
  /\ UNCHANGED <<config, instance, state, closed, prepare, call, callPool, taken, current>>

DropDeactivate(d) ==
  /\ deactivate[d] \in {"taken", "closing"}
  /\ deactivate' = [deactivate EXCEPT ![d] = "dropped"]
  /\ UNCHANGED <<config, instance, state, closed, prepare, call, callPool, taken, current>>

-----------------------------------------------------------------------------
LifeInit ==
  /\ config \in Configs /\ instance = "none"
  /\ state = NoPool /\ closed = {}
  /\ prepare = [p \in Prepares |-> "idle"]
  /\ call = [c \in Calls |-> "idle"] /\ callPool = [c \in Calls |-> NoPool]
  /\ deactivate = [d \in Deactivates |-> "idle"] /\ taken = [d \in Deactivates |-> NoPool]
  /\ current = {}

PrepareNext(p) == BeginPrepare(p) \/ ResolveSecret(p) \/ Publish(p) \/ FailPrepare(p)

\* What polling a call comes to.
PolledCall(c) == PollCall(c) \/ Acquire(c) \/ FailCall(c) \/ Finish(c)
CallNext(c) == Invoke(c) \/ PolledCall(c) \/ DropCall(c)

PolledDeactivate(d) == Close(d) \/ EndDeactivate(d)
DeactivateNext(d) == Take(d) \/ PolledDeactivate(d) \/ DropDeactivate(d)

LifeNext ==
  \/ Instantiate
  \/ \E p \in Prepares : PrepareNext(p)
  \/ \E c \in Calls : CallNext(c)
  \/ \E d \in Deactivates : DeactivateNext(d)

\* The runtime polls the futures it was given until they end; the database
\* answers or its connection breaks.
LifeFairness ==
  /\ \A c \in Calls : WF_lifeVars(PolledCall(c))
  /\ \A d \in Deactivates : WF_lifeVars(PolledDeactivate(d))

LifeSpec == LifeInit /\ [][LifeNext]_lifeVars
FairLifeSpec == LifeSpec /\ LifeFairness

-----------------------------------------------------------------------------
(* Properties. *)

\* The cells of the Instance keep their types.
LifeTypeOK ==
  /\ state \in Pool
  /\ closed \subseteq Prepares
  /\ prepare \in [Prepares -> {"idle", "resolving", "connecting", "prepared", "failed", "dropped"}]
  /\ call \in [Calls -> {"idle", "made", "waiting", "using", "answered", "refused",
                         "failed", "dropped"}]
  /\ callPool \in [Calls -> Pool]
  /\ deactivate \in [Deactivates -> {"idle", "taken", "closing", "done", "dropped"}]
  /\ taken \in [Deactivates -> Pool]
  /\ current \subseteq Prepares

\* A new call is never handed a pool that is being closed, or is about to be:
\* what deactivate took is out of reach before its close is even polled. And
\* after a deactivate the Plugin serves only what a prepare published that was
\* unfinished then or came later: nothing prepared before comes back, although
\* a prepare caught in the middle does.
ServedIsCurrent ==
  state # NoPool => /\ state \in current
                    /\ state \notin closed
                    /\ \A d \in Deactivates : taken[d] # state

\* When deactivate has ended, no call is inside the pool it took, and none of
\* those that still hold it will get there.
Quiesced ==
  \A d \in Deactivates :
    deactivate[d] = "done" /\ taken[d] # NoPool
      => Users(taken[d]) = {} /\ taken[d] \in closed

\* A call made before a deactivate and polled after its close gets a failure,
\* never an answer out of the closed pool.
StaleCallsFail ==
  [][\A c \in Calls, d \in Deactivates :
       /\ deactivate[d] = "done" /\ taken[d] # NoPool /\ callPool[c] = taken[d]
       /\ call[c] # "answered"
       => call'[c] # "answered"]_lifeVars

\* Every call made ends, although its pool may be full or closing.
CallsSettle ==
  \A c \in Calls :
    call[c] = "made" ~> call[c] \in {"answered", "refused", "failed", "dropped"}

\* deactivate ends, although calls hold connections of its pool.
DeactivateEnds ==
  \A d \in Deactivates : deactivate[d] = "taken" ~> deactivate[d] \in {"done", "dropped"}

=============================================================================
