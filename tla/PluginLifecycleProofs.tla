------------------------ MODULE PluginLifecycleProofs ------------------------
(* Theorems about the life of the Postgres Plugin's Instance. *)
EXTENDS PluginLifecycle, TLAPS

\* A prepare that has not published yet is new to everyone, and will count
\* as current when it does.
PreparingIsNew ==
  \A p \in Prepares :
    prepare[p] \in {"idle", "resolving", "connecting"} =>
      /\ state # p /\ p \notin closed
      /\ \A d \in Deactivates : taken[d] # p
      /\ prepare[p] # "idle" => p \in current

\* A call past its first poll holds a pool.
CallsHoldPools == \A c \in Calls : call[c] \in {"waiting", "using"} => callPool[c] # NoPool

ClosingIsClosed ==
  \A d \in Deactivates :
    deactivate[d] \in {"closing", "done"} /\ taken[d] # NoPool => taken[d] \in closed

LifeInv ==
  /\ LifeTypeOK
  /\ PreparingIsNew
  /\ CallsHoldPools
  /\ ClosingIsClosed
  /\ ServedIsCurrent
  /\ Quiesced

LEMMA LifeStart == ASSUME LifeInit PROVE LifeInv
BY LifecycleAssumption
   DEF LifeInit, LifeInv, LifeTypeOK, PreparingIsNew, CallsHoldPools, ClosingIsClosed,
       ServedIsCurrent, Quiesced, Pool

LEMMA PrepareStep ==
  ASSUME LifeInv, NEW p \in Prepares, PrepareNext(p)
  PROVE  LifeInv'
<1>0. LifeTypeOK /\ NoPool \notin Prepares
  BY LifecycleAssumption DEF LifeInv
<1>1. UNCHANGED <<closed, call, callPool, deactivate, taken>>
  BY DEF PrepareNext, BeginPrepare, ResolveSecret, Publish, FailPrepare
<1>2. \A q \in Prepares \ {p} : prepare'[q] = prepare[q]
  BY <1>0 DEF LifeTypeOK, PrepareNext, BeginPrepare, ResolveSecret, Publish, FailPrepare
<1>3. LifeTypeOK'
  BY <1>0, <1>1 DEF LifeTypeOK, Pool, PrepareNext, BeginPrepare, ResolveSecret, Publish, FailPrepare
<1>4. CallsHoldPools' /\ ClosingIsClosed' /\ Quiesced'
  BY <1>1 DEF LifeInv, CallsHoldPools, ClosingIsClosed, Quiesced, Users
<1>5. CASE Publish(p)
  <2>1. state' = p /\ prepare'[p] = "prepared" /\ prepare[p] = "connecting" /\ current' = current
    BY <1>0, <1>5 DEF Publish, LifeTypeOK
  <2>2. PreparingIsNew'
    BY <1>1, <1>2, <2>1 DEF LifeInv, PreparingIsNew
  <2>3. ServedIsCurrent'
    BY <1>1, <2>1 DEF LifeInv, PreparingIsNew, ServedIsCurrent
  <2> QED BY <1>3, <1>4, <2>2, <2>3 DEF LifeInv
<1>6. CASE BeginPrepare(p) \/ ResolveSecret(p) \/ FailPrepare(p)
  <2>1. /\ state' = state /\ current \subseteq current'
        /\ prepare'[p] \in {"resolving", "connecting"} => p \in current'
        /\ prepare[p] \in {"idle", "resolving", "connecting"}
    BY <1>0, <1>6 DEF LifeInv, PreparingIsNew, BeginPrepare, ResolveSecret, FailPrepare,
                      Preparing, LifeTypeOK
  <2>3. prepare'[p] # "idle"
    BY <1>0, <1>6 DEF BeginPrepare, ResolveSecret, FailPrepare, LifeTypeOK
  <2>2. PreparingIsNew' /\ ServedIsCurrent'
    BY <1>1, <1>2, <2>1, <2>3 DEF LifeInv, PreparingIsNew, ServedIsCurrent
  <2> QED BY <1>3, <1>4, <2>2 DEF LifeInv
<1> QED BY <1>5, <1>6 DEF PrepareNext

LEMMA CallStep ==
  ASSUME LifeInv, NEW c \in Calls, CallNext(c)
  PROVE  LifeInv'
<1>0. LifeTypeOK /\ NoPool \notin Prepares
  BY LifecycleAssumption DEF LifeInv
<1>1. UNCHANGED <<state, closed, prepare, deactivate, taken, current>>
  BY DEF CallNext, PolledCall, Invoke, PollCall, Acquire, FailCall, Finish, DropCall
<1>2. /\ \A b \in Calls \ {c} : call'[b] = call[b] /\ callPool'[b] = callPool[b]
      /\ LifeTypeOK'
  <2>1. CASE Invoke(c)
    BY <1>0, <1>1, <2>1 DEF LifeTypeOK, Invoke
  <2>2. CASE PollCall(c) \/ Acquire(c) \/ FailCall(c) \/ Finish(c) \/ DropCall(c)
    BY <1>0, <1>1, <2>2 DEF LifeTypeOK, PollCall, Acquire, FailCall, Finish, DropCall
  <2> QED BY <2>1, <2>2 DEF CallNext, PolledCall
<1>3. /\ call'[c] \in {"waiting", "using"} => callPool'[c] # NoPool
      /\ call'[c] = "using" => callPool'[c] \notin closed
  BY <1>0 DEF LifeInv, CallsHoldPools, LifeTypeOK, CallNext, PolledCall, Invoke, PollCall, Acquire,
              FailCall, Finish, DropCall
<1>4. CallsHoldPools'
  BY <1>2, <1>3 DEF LifeInv, CallsHoldPools
<1>5. Quiesced'
  <2>1. SUFFICES ASSUME NEW d \in Deactivates, deactivate[d] = "done", taken[d] # NoPool
                 PROVE  Users(taken[d])' = {} /\ taken[d] \in closed
    BY <1>1 DEF Quiesced
  <2>2. Users(taken[d]) = {} /\ taken[d] \in closed
    BY <2>1 DEF LifeInv, Quiesced
  <2>3. c \notin Users(taken[d])'
    BY <1>1, <1>3, <2>2 DEF Users
  <2>4. Users(taken[d])' \subseteq Users(taken[d]) \cup {c}
    BY <1>1, <1>2 DEF Users
  <2> QED BY <2>2, <2>3, <2>4
<1> QED BY <1>1, <1>2, <1>4, <1>5
        DEF LifeInv, PreparingIsNew, ClosingIsClosed, ServedIsCurrent

LEMMA DeactivateStep ==
  ASSUME LifeInv, NEW d \in Deactivates, DeactivateNext(d)
  PROVE  LifeInv'
<1>0. LifeTypeOK /\ NoPool \notin Prepares
  BY LifecycleAssumption DEF LifeInv
<1>1. UNCHANGED <<prepare, call, callPool>>
  BY DEF DeactivateNext, PolledDeactivate, Take, Close, EndDeactivate, DropDeactivate
<1>2. CallsHoldPools'
  BY <1>1 DEF LifeInv, CallsHoldPools
<1>3. CASE Take(d)
  <2>1. /\ state' = NoPool /\ taken'[d] = state /\ deactivate'[d] = "taken"
        /\ \A e \in Deactivates \ {d} : taken'[e] = taken[e] /\ deactivate'[e] = deactivate[e]
        /\ closed' = closed /\ current' = {p \in Prepares : Preparing(p)}
    BY <1>0, <1>3 DEF Take, LifeTypeOK
  <2>2. LifeTypeOK'
    BY <1>0, <1>1, <1>3 DEF LifeTypeOK, Take, Pool
  <2>3. PreparingIsNew'
    BY <1>0, <1>1, <2>1 DEF LifeInv, PreparingIsNew, Preparing
  <2>4. ClosingIsClosed' /\ ServedIsCurrent'
    BY <2>1 DEF LifeInv, ClosingIsClosed, ServedIsCurrent
  <2>5. Quiesced'
    BY <1>1, <2>1 DEF LifeInv, Quiesced, Users
  <2> QED BY <1>2, <2>2, <2>3, <2>4, <2>5 DEF LifeInv
<1>4. CASE Close(d)
  <2>1. /\ UNCHANGED <<state, taken, current>> /\ deactivate'[d] = "closing"
        /\ \A e \in Deactivates \ {d} : deactivate'[e] = deactivate[e]
        /\ closed' = closed \cup ({taken[d]} \ {NoPool})
    BY <1>0, <1>4 DEF Close, LifeTypeOK
  <2>2. LifeTypeOK'
    BY <1>0, <1>1, <1>4 DEF LifeTypeOK, Close, Pool
  <2>3. PreparingIsNew' /\ ClosingIsClosed' /\ ServedIsCurrent'
    BY <1>1, <2>1 DEF LifeInv, PreparingIsNew, ClosingIsClosed, ServedIsCurrent
  <2>4. Quiesced'
    BY <1>1, <2>1 DEF LifeInv, Quiesced, Users
  <2> QED BY <1>2, <2>2, <2>3, <2>4 DEF LifeInv
<1>5. CASE EndDeactivate(d) \/ DropDeactivate(d)
  <2>1. /\ UNCHANGED <<state, closed, taken, current>>
        /\ \A e \in Deactivates \ {d} : deactivate'[e] = deactivate[e]
        /\ \/ /\ deactivate[d] = "closing" /\ deactivate'[d] = "done" /\ Users(taken[d]) = {}
           \/ deactivate'[d] = "dropped"
    BY <1>0, <1>5 DEF EndDeactivate, DropDeactivate, LifeTypeOK
  <2>2. LifeTypeOK'
    BY <1>0, <1>1, <1>5 DEF LifeTypeOK, EndDeactivate, DropDeactivate
  <2>3. PreparingIsNew' /\ ClosingIsClosed' /\ ServedIsCurrent'
    BY <1>1, <2>1 DEF LifeInv, PreparingIsNew, ClosingIsClosed, ServedIsCurrent
  <2>4. Quiesced'
    BY <1>1, <2>1 DEF LifeInv, Quiesced, ClosingIsClosed, Users
  <2> QED BY <1>2, <2>2, <2>3, <2>4 DEF LifeInv
<1> QED BY <1>3, <1>4, <1>5 DEF DeactivateNext, PolledDeactivate

LEMMA LifeStep ==
  ASSUME LifeInv, [LifeNext]_lifeVars
  PROVE  LifeInv'
<1>1. CASE Instantiate \/ UNCHANGED lifeVars
  BY <1>1 DEF Instantiate, lifeVars, LifeInv, LifeTypeOK, PreparingIsNew, CallsHoldPools,
              ClosingIsClosed, ServedIsCurrent, Quiesced, Users
<1> QED BY <1>1, PrepareStep, CallStep, DeactivateStep DEF LifeNext

LEMMA LifeInvCorrect == LifeSpec => []LifeInv
BY LifeStart, LifeStep, PTL DEF LifeSpec

\* The cells of the Instance keep their types.
THEOREM LifeTypesKept == LifeSpec => []LifeTypeOK
<1>1. LifeInv => LifeTypeOK
  BY DEF LifeInv
<1> QED BY <1>1, LifeInvCorrect, PTL

\* However prepares, calls and deactivates interleave and are dropped, a new
\* call is given a pool that nobody closes or has taken to close, and that was
\* published by a prepare no deactivate came after.
THEOREM ServedPoolsCurrent == LifeSpec => []ServedIsCurrent
<1>1. LifeInv => ServedIsCurrent
  BY DEF LifeInv
<1> QED BY <1>1, LifeInvCorrect, PTL

\* A deactivate that has ended leaves the pool it took to nobody.
THEOREM DeactivatesQuiesce == LifeSpec => []Quiesced
<1>1. LifeInv => Quiesced
  BY DEF LifeInv
<1> QED BY <1>1, LifeInvCorrect, PTL

\* A call that captured its pool before a deactivate is never answered out of
\* it once the deactivate has ended.
THEOREM StaleCallsNeverAnswered == LifeSpec => StaleCallsFail
<1>1. LifeInv /\ [LifeNext]_lifeVars =>
        [\A c \in Calls, d \in Deactivates :
           /\ deactivate[d] = "done" /\ taken[d] # NoPool /\ callPool[c] = taken[d]
           /\ call[c] # "answered"
           => call'[c] # "answered"]_lifeVars
  <2>1. SUFFICES ASSUME LifeInv, [LifeNext]_lifeVars, NEW c \in Calls, NEW d \in Deactivates,
                        deactivate[d] = "done", taken[d] # NoPool, callPool[c] = taken[d],
                        call[c] # "answered"
                 PROVE  call'[c] # "answered"
    OBVIOUS
  <2>2. call[c] # "using" /\ LifeTypeOK
    BY <2>1 DEF LifeInv, Quiesced, Users
  <2>3. ASSUME NEW b \in Calls, CallNext(b) PROVE call'[c] # "answered"
    BY <2>1, <2>2, <2>3 DEF LifeTypeOK, CallNext, PolledCall, Invoke, PollCall, Acquire,
                            FailCall, Finish, DropCall
  <2>4. CASE UNCHANGED call
    BY <2>1, <2>4
  <2>5. \/ \E b \in Calls : CallNext(b)
        \/ UNCHANGED call
    BY <2>1 DEF LifeNext, lifeVars, Instantiate, PrepareNext, BeginPrepare, ResolveSecret, Publish,
                FailPrepare, DeactivateNext, PolledDeactivate, Take, Close, EndDeactivate,
                DropDeactivate
  <2> QED BY <2>3, <2>4, <2>5
<1> QED BY <1>1, LifeInvCorrect, PTL DEF LifeSpec, StaleCallsFail

=============================================================================
