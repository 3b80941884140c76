------------------------ MODULE CapabilityCallsProofs ------------------------
(* A theorem about the answers of Capability calls. *)
EXTENDS CapabilityCalls, TLAPS

\* Up to where the call has got, its lanes were ones it could cross.
LanesFit == \A i \in 1..(at - 1) : Lane(i) # "portable" => Node(i) = Node(i + 1)

Handled ==
  \/ handled \in {Unanswered, Response, Runtime("plugin_failure")}
  \/ \E code : handled = Domain(TRUE, code)

CallInv ==
  /\ route \in Route
  /\ at \in 1..Len(route.nodes)
  /\ phase \in {"down", "up"}
  /\ phase = "down" => handled = Unanswered
  /\ LanesFit /\ Handled /\ AnswerArrives

LEMMA AnswerKinds ==
  /\ Response.kind = "response" /\ Unanswered.kind = "none"
  /\ \A why : Runtime(why).kind = "runtime" /\ Runtime(why).code = why
  /\ \A known, code : /\ Domain(known, code).kind = "domain"
                      /\ Domain(known, code).known = known
                      /\ Domain(known, code).code = code
  /\ \A code : Domain(TRUE, code).kind = "domain" /\ Domain(TRUE, code).code = code
BY DEF Response, Unanswered, Runtime, Domain

LEMMA SameDomain ==
  ASSUME NEW p \in BOOLEAN, NEW q \in BOOLEAN, p <=> q, NEW code
  PROVE  Domain(p, code) = Domain(q, code)
<1>1. p = q
  OBVIOUS
<1> QED BY <1>1

LEMMA RouteLength ==
  ASSUME route \in Route
  PROVE  Len(route.nodes) \in Nat /\ Len(route.nodes) >= 1
BY DEF Route

LEMMA CallStart == ASSUME CallInit PROVE CallInv
<1>1. route \in Route
  BY RoutesAssumption DEF CallInit
<1>2. at = 1 /\ phase = "down" /\ handled = Unanswered
  BY DEF CallInit
<1> QED BY <1>1, <1>2, RouteLength DEF CallInv, LanesFit, Handled, AnswerArrives

\* Crossing a lane that is not portable, a request meets its own build.
LEMMA DescendStep == ASSUME CallInv, Descend PROVE CallInv'
<1>1. /\ at' = at + 1 /\ at < Len(route.nodes) /\ phase = "down"
      /\ UNCHANGED <<operation, route, phase, answer, handled>>
      /\ ~UnknownOperation(at) /\ ~ProtocolViolation(at)
  BY DEF Descend
<1>2. Lane(at) # "portable" => Node(at) = Node(at + 1)
  BY <1>1 DEF UnknownOperation, ProtocolViolation, Typed
<1>3. at \in Nat /\ at >= 1 /\ at' \in 1..Len(route.nodes)
  BY <1>1, RouteLength DEF CallInv
<1>4. \A i \in 1..at : Lane(i)' = Lane(i) /\ Node(i)' = Node(i) /\ Node(i + 1)' = Node(i + 1)
  BY <1>1 DEF Lane, Node
<1>5. LanesFit'
  <2> SUFFICES ASSUME NEW i \in 1..at, Lane(i) # "portable"
               PROVE  Node(i) = Node(i + 1)
    BY <1>1, <1>3, <1>4 DEF LanesFit
  <2>1. CASE i = at
    BY <1>2, <2>1
  <2>2. CASE i # at
    BY <1>3, <2>2 DEF CallInv, LanesFit
  <2> QED BY <2>1, <2>2
<1> QED BY <1>1, <1>3, <1>5 DEF CallInv, Handled, AnswerArrives

LEMMA RejectStep == ASSUME CallInv, Reject PROVE CallInv'
<1>1. /\ phase = "down" /\ phase' = "up"
      /\ answer' \in {Runtime("unknown_operation"), Runtime("protocol_violation")}
      /\ UNCHANGED <<operation, route, at, handled>>
  BY DEF Reject
<1> QED BY <1>1 DEF CallInv, LanesFit, Lane, Node, Handled, AnswerArrives

LEMMA HandleStep == ASSUME CallInv, Handle PROVE CallInv'
<1>1. /\ phase' = "up" /\ at = Len(route.nodes) /\ handled' = answer'
      /\ answer' \in {Response, Runtime("plugin_failure")}
                     \cup {Domain(TRUE, e) : e \in Knows(Node(at), operation)}
      /\ UNCHANGED <<operation, route, at>>
  BY DEF Handle
<1>2. at \in Nat
  BY RouteLength DEF CallInv
<1>3. ASSUME NEW e \in Knows(Node(at), operation), answer' = Domain(TRUE, e)
      PROVE  AnswerArrives'
  <2>1. KnownSoFar(e)'
    BY <1>1, <1>2, <1>3 DEF KnownSoFar, Node, Knows
  <2>2. handled'.kind = "domain" /\ handled'.code = e
    BY <1>1, <1>3, AnswerKinds
  <2>3. KnownSoFar(e)' \in BOOLEAN
    BY DEF KnownSoFar
  <2>4. answer' = Domain(KnownSoFar(e)', e)
    BY <1>3, <2>1, <2>3, SameDomain
  <2> QED BY <2>2, <2>4 DEF AnswerArrives
<1>4. ASSUME answer' \in {Response, Runtime("plugin_failure")}
      PROVE  AnswerArrives'
  BY <1>1, <1>4, AnswerKinds DEF AnswerArrives
<1>5. Handled'
  BY <1>1 DEF Handled
<1>6. AnswerArrives'
  BY <1>1, <1>3, <1>4
<1> QED BY <1>1, <1>5, <1>6 DEF CallInv, LanesFit, Lane, Node

LEMMA LoseStep == ASSUME CallInv, Lose PROVE CallInv'
<1>1. /\ at' = at - 1 /\ at > 1 /\ phase' = "up" /\ answer' = Runtime("lost")
      /\ UNCHANGED <<operation, route, handled>>
  BY DEF Lose
<1>2. at' \in 1..Len(route.nodes) /\ LanesFit'
  BY <1>1, RouteLength DEF CallInv, LanesFit, Lane, Node
<1> QED BY <1>1, <1>2 DEF CallInv, Handled, AnswerArrives

\* The code is known so far if it was, and the next build knows it too.
LEMMA KnownNext ==
  ASSUME CallInv, Ascend, NEW code
  PROVE  KnownSoFar(code)' <=> KnownSoFar(code) /\ code \in Knows(Node(at - 1), operation)
<1>1. at' = at - 1 /\ at > 1 /\ UNCHANGED <<operation, route>>
  BY DEF Ascend
<1>2. at \in Nat /\ Len(route.nodes) \in Nat /\ at <= Len(route.nodes)
  BY RouteLength DEF CallInv
<1>3. \A i : Knows(Node(i), operation)' = Knows(Node(i), operation)
  BY <1>1 DEF Knows, Node
<1>4. (at - 1)..Len(route.nodes) = {at - 1} \cup (at..Len(route.nodes))
  BY <1>1, <1>2
<1> QED BY <1>1, <1>3, <1>4 DEF KnownSoFar

LEMMA AscendAnswer == ASSUME CallInv, Ascend PROVE AnswerArrives'
<1>1. /\ phase = "up" /\ phase' = "up" /\ at' = at - 1 /\ at > 1
      /\ answer' = Received(at - 1)
      /\ UNCHANGED <<operation, route, phase, handled>>
  BY DEF Ascend
<1>2. at \in Nat /\ at - 1 \in 1..(at - 1) /\ (at - 1) + 1 = at
  BY <1>1, RouteLength DEF CallInv
<1>3. CASE answer.kind = "domain"
  <2>1. PICK code : code = handled.code
    OBVIOUS
  <2>2. handled.kind = "domain" /\ answer = Domain(KnownSoFar(code), code)
    BY <1>1, <1>3, <2>1, AnswerKinds DEF CallInv, AnswerArrives
  <2>3. handled'.kind = "domain" /\ handled'.code = code
    BY <1>1, <2>1, <2>2
  <2>4. SUFFICES answer' = Domain(KnownSoFar(code)', code)
    BY <1>1, <2>3 DEF AnswerArrives
  <2>5. KnownSoFar(code) \in BOOLEAN /\ KnownSoFar(code)' \in BOOLEAN
    BY DEF KnownSoFar
  <2>6. CASE Lane(at - 1) = "portable"
    <3>1. answer' = Deserialize(Serialize(answer), Knows(Node(at - 1), operation))
      BY <1>1, <1>3, <2>6 DEF Received
    <3>2. Serialize(answer).code = code
      BY <2>2, AnswerKinds DEF Serialize
    <3>3. Serialize(answer).form = "string" <=> KnownSoFar(code)
      BY <2>2, AnswerKinds DEF Serialize
    <3>4. (Serialize(answer).form = "string" /\ code \in Knows(Node(at - 1), operation))
            <=> KnownSoFar(code)'
      BY <3>3, KnownNext
    <3>5. answer' = Domain(Serialize(answer).form = "string"
                            /\ code \in Knows(Node(at - 1), operation), code)
      BY <3>1, <3>2 DEF Deserialize
    <3> QED BY <2>5, <3>4, <3>5, SameDomain
  <2>7. CASE Lane(at - 1) # "portable"
    <3>1. answer' = answer
      BY <1>1, <2>7 DEF Received
    <3>2. Node(at - 1) = Node(at)
      BY <1>2, <2>7 DEF CallInv, LanesFit
    <3>3. at \in at..Len(route.nodes)
      BY <1>2, RouteLength DEF CallInv
    <3>4. KnownSoFar(code)' <=> KnownSoFar(code)
      BY <3>2, <3>3, KnownNext DEF KnownSoFar
    <3> QED BY <2>5, <2>2, <3>1, <3>4, SameDomain
  <2> QED BY <2>6, <2>7
<1>4. CASE answer.kind # "domain"
  <2>1. answer' = answer \/ (answer' = Runtime("undecodable") /\ answer.kind = "response")
    BY <1>1, <1>4 DEF Received
  <2>2. \A code : Domain(KnownSoFar(code), code).kind = "domain"
    BY DEF Domain
  <2>3. answer.kind = "response" => handled = Response
    BY <1>1, <1>4, <2>2, AnswerKinds DEF CallInv, Handled, AnswerArrives
  <2> QED BY <1>1, <1>4, <2>1, <2>2, <2>3, AnswerKinds DEF CallInv, AnswerArrives
<1> QED BY <1>3, <1>4

LEMMA AscendStep == ASSUME CallInv, Ascend PROVE CallInv'
<1>1. at' = at - 1 /\ at > 1 /\ UNCHANGED <<operation, route, phase, handled>>
  BY DEF Ascend
<1>2. at' \in 1..Len(route.nodes) /\ LanesFit'
  BY <1>1, RouteLength DEF CallInv, LanesFit, Lane, Node
<1> QED BY <1>1, <1>2, AscendAnswer DEF CallInv, Handled

LEMMA CallStutter == ASSUME CallInv, UNCHANGED callVars PROVE CallInv'
BY DEF CallInv, callVars, LanesFit, Lane, Node, Handled, AnswerArrives, KnownSoFar, Knows

\* Over routes of every length, through whatever builds and lanes: the client
\* is answered what the Provider answered, or a RuntimeFailure (the generated
\* Serialize and Deserialize, endpoints and clients).
THEOREM AnswersArrive == CallSpec => []AnswerArrives
<1>1. CallInit => CallInv
  BY CallStart
<1>2. CallInv /\ [CallNext]_callVars => CallInv'
  BY DescendStep, RejectStep, HandleStep, AscendStep, LoseStep, CallStutter DEF CallNext
<1>3. CallInv => AnswerArrives
  BY DEF CallInv
<1> QED BY <1>1, <1>2, <1>3, PTL DEF CallSpec

-----------------------------------------------------------------------------
(* Between builds that are the same. *)

SameBuild == \A i \in 1..Len(route.nodes) : Node(i) = Node(1)

\* The client can name the operation; what is passed on has the fields of the
\* contract it was passed on by; the Provider answers errors of its contract.
FieldsFit ==
  /\ operation \in Serves(Node(1))
  /\ phase = "down" => answer = Unanswered /\ fields = Requires(Node(at), operation)
  /\ answer.kind = "response" => fields = Returns(Node(at), operation)
  /\ handled.kind = "domain" =>
       handled.code \in Knows(Node(Len(route.nodes)), operation)

\* The first half of SameBuildUnderstands: the RuntimeFailures there are.
NothingRefused ==
  SameBuild /\ answer.kind = "runtime" => answer.code \in {"lost", "plugin_failure"}

LEMMA FieldsStart == ASSUME CallInit PROVE FieldsFit /\ NothingRefused
<1>1. Node(at) = route.nodes[1] /\ Node(1) = route.nodes[1]
  BY DEF CallInit, Node
<1> QED BY <1>1, AnswerKinds DEF CallInit, FieldsFit, NothingRefused

\* Of one build, the next one serves the operation and has the fields it needs.
LEMMA NextServes ==
  ASSUME CallInv, FieldsFit, SameBuild, phase = "down", at < Len(route.nodes)
  PROVE  ~UnknownOperation(at) /\ ~ProtocolViolation(at)
<1>1. at \in 1..Len(route.nodes) /\ at + 1 \in 1..Len(route.nodes)
  BY RouteLength DEF CallInv
<1>2. Node(at) = Node(1) /\ Node(at + 1) = Node(1)
  BY <1>1 DEF SameBuild
<1> QED BY <1>2 DEF FieldsFit, UnknownOperation, ProtocolViolation

LEMMA FieldsStep ==
  ASSUME CallInv, FieldsFit, NothingRefused, [CallNext]_callVars
  PROVE  FieldsFit' /\ NothingRefused'
<1>1. UNCHANGED <<operation, route>>
  BY DEF CallNext, Descend, Reject, Handle, Ascend, Lose, callVars
<1>2. /\ \A i : Node(i)' = Node(i) /\ SameBuild' = SameBuild /\ Serves(Node(1))' = Serves(Node(1))
      /\ \A i : Returns(Node(i), operation)' = Returns(Node(i), operation)
      /\ \A i : Requires(Node(i), operation)' = Requires(Node(i), operation)
      /\ \A i : Knows(Node(i), operation)' = Knows(Node(i), operation)
  BY <1>1 DEF Node, SameBuild, Serves, Returns, Requires, Knows
<1>3. CASE Descend
  BY <1>1, <1>2, <1>3, AnswerKinds DEF Descend, FieldsFit, NothingRefused, Requires, Node
<1>4. CASE Reject
  <2>1. ~SameBuild
    BY <1>4, NextServes DEF Reject
  <2>2. /\ answer' \in {Runtime("unknown_operation"), Runtime("protocol_violation")}
        /\ phase' = "up" /\ UNCHANGED <<at, fields, handled>>
    BY <1>4 DEF Reject
  <2> QED BY <1>1, <1>2, <2>1, <2>2, AnswerKinds DEF FieldsFit, NothingRefused
<1>5. CASE Handle
  <2>1. /\ phase' = "up" /\ at' = at /\ at = Len(route.nodes) /\ handled' = answer'
        /\ fields' = Returns(Node(at), operation)
        /\ \/ answer' = Response \/ answer' = Runtime("plugin_failure")
           \/ \E e \in Knows(Node(at), operation) : answer' = Domain(TRUE, e)
    BY <1>5 DEF Handle
  <2>2. fields' = Returns(Node(at), operation)'
    BY <1>1, <2>1 DEF Returns, Node
  <2>3. handled'.kind = "domain" => handled'.code \in Knows(Node(at), operation)
    BY <2>1, AnswerKinds
  <2>4. answer'.kind = "runtime" => answer'.code = "plugin_failure"
    BY <2>1, AnswerKinds
  <2> QED BY <1>1, <1>2, <2>1, <2>2, <2>3, <2>4 DEF FieldsFit, NothingRefused, Returns, Knows, Node
<1>6. CASE Ascend
  <2>1. /\ phase' = "up" /\ at' = at - 1 /\ at > 1 /\ handled' = handled
        /\ answer' = Received(at - 1)
        /\ fields' = Returns(Node(at - 1), operation)
    BY <1>6 DEF Ascend
  <2>2. fields' = Returns(Node(at), operation)'
    BY <1>1, <2>1 DEF Returns, Node
  <2>3. \/ answer' = answer \/ answer'.kind = "domain"
        \/ /\ answer' = Runtime("undecodable") /\ answer.kind = "response"
           /\ ~(Returns(Node(at - 1), operation) \subseteq fields)
    BY <2>1, AnswerKinds DEF Received, Deserialize
  <2>4. SameBuild => Node(at - 1) = Node(at)
    <3>1. at \in 1..Len(route.nodes) /\ at - 1 \in 1..Len(route.nodes)
      BY <2>1, RouteLength DEF CallInv
    <3> QED BY <3>1 DEF SameBuild
  <2>5. NothingRefused'
    BY <1>2, <2>3, <2>4, AnswerKinds DEF FieldsFit, NothingRefused
  <2> QED BY <1>1, <1>2, <2>1, <2>2, <2>5 DEF FieldsFit, Knows, Node
<1>7. CASE Lose
  <2>1. phase' = "up" /\ handled' = handled /\ answer' = Runtime("lost")
    BY <1>7 DEF Lose
  <2> QED BY <1>1, <1>2, <2>1, AnswerKinds DEF FieldsFit, NothingRefused, Knows, Node
<1>8. CASE UNCHANGED callVars
  BY <1>1, <1>2, <1>8 DEF callVars, FieldsFit, NothingRefused, Requires, Returns, Knows, Node
<1> QED BY <1>3, <1>4, <1>5, <1>6, <1>7, <1>8 DEF CallNext

\* An error of the Provider's contract is one of everybody's on the way.
LEMMA SameBuildKnows ==
  ASSUME CallInv, FieldsFit, SameBuild, answer.kind = "domain"
  PROVE  answer.known
<1>1. phase = "up"
  BY AnswerKinds DEF CallInv, FieldsFit
<1>2. handled.kind = "domain" /\ answer = Domain(KnownSoFar(handled.code), handled.code)
  BY <1>1, AnswerKinds DEF CallInv, AnswerArrives
<1>3. \A i \in at..Len(route.nodes) : Node(i) = Node(Len(route.nodes))
  BY RouteLength DEF CallInv, SameBuild
<1>4. KnownSoFar(handled.code)
  BY <1>2, <1>3 DEF FieldsFit, KnownSoFar
<1> QED BY <1>2, <1>4, AnswerKinds

\* Built alike, however long the route and whatever its lanes: no endpoint
\* refuses the operation or its request, no client fails to decode the answer,
\* and every Domain Error arrives as a variant of its own.
THEOREM SameBuildsUnderstand == CallSpec => []SameBuildUnderstands
<1>1. CallInit => CallInv /\ FieldsFit /\ NothingRefused
  BY CallStart, FieldsStart
<1>2. CallInv /\ FieldsFit /\ NothingRefused /\ [CallNext]_callVars
        => (CallInv /\ FieldsFit /\ NothingRefused)'
  BY DescendStep, RejectStep, HandleStep, AscendStep, LoseStep, CallStutter, FieldsStep DEF CallNext
<1>3. CallInv /\ FieldsFit /\ NothingRefused => SameBuildUnderstands
  BY SameBuildKnows DEF NothingRefused, SameBuild, SameBuildUnderstands
<1> QED BY <1>1, <1>2, <1>3, PTL DEF CallSpec

=============================================================================
