--------------------------- MODULE CapabilityCalls ---------------------------
(***************************************************************************)
(* One call of a Capability operation, from a client over any number of    *)
(* Plugins that forward it to the Provider that handles it, and back.      *)
(* Each of them may be built with the contracts of this repository or with *)
(* a later, extended version of them; neighbours of one build can be bound *)
(* natively, directly or through an endpoint of the kernel, and all over a *)
(* portable lane.  The kernel and the lanes are external.                  *)
(***************************************************************************)
EXTENDS CapabilityContract, Naturals, Sequences

CONSTANTS
  Routes,        \* what the client may be bound to
  NewOperations, \* what the later build adds: operations, and to operations
  NewErrors,     \* Domain Errors,
  NewRequired,   \* required fields of the request
  NewReturned    \* and of the response

Builds == {"current", "later"}
Lanes == {"direct", "wrapped", "portable"}

Route ==
  {r \in [nodes : Seq(Builds), lanes : Seq(Lanes)] :
     Len(r.nodes) >= 1 /\ Len(r.lanes) = Len(r.nodes) - 1}

ASSUME RoutesAssumption == Routes \subseteq Route

VARIABLES
  operation,
  route,    \* who the call passes, from the client to the Provider, and how
  at,       \* where it is
  phase,    \* "down" or "up"
  fields,   \* of the request, or of the response, as it is passed on
  answer,
  handled   \* history: what the Provider answered

callVars == <<operation, route, at, phase, fields, answer, handled>>

-----------------------------------------------------------------------------
Serves(b) == Operations \cup (IF b = "later" THEN NewOperations ELSE {})

Requires(b, op) ==
  (IF op \in Operations THEN Shape[op].request ELSE {})
  \cup (IF b = "later" THEN NewRequired[op] ELSE {})

Returns(b, op) ==
  (IF op \in Operations THEN Shape[op].response ELSE {})
  \cup (IF b = "later" THEN NewReturned[op] ELSE {})

Knows(b, op) ==
  (IF op \in Operations THEN DomainErrors[op] ELSE {})
  \cup (IF b = "later" THEN NewErrors[op] ELSE {})

Response == [kind |-> "response", known |-> TRUE, code |-> "response"]
Runtime(why) == [kind |-> "runtime", known |-> TRUE, code |-> why]
Unanswered == [kind |-> "none", known |-> TRUE, code |-> "none"]

Node(i) == route.nodes[i]
Lane(i) == route.lanes[i]

\* The endpoint downcasts to the typed one: of this build, not wrapped.
Typed(i) == Lane(i) = "direct" /\ Node(i) = Node(i + 1)

\* The erased endpoint has no arm for the operation, or the request is not
\* of its type; a portable request lacks a field that is required there.
UnknownOperation(i) == ~Typed(i) /\ operation \notin Serves(Node(i + 1))

ProtocolViolation(i) ==
  /\ operation \in Serves(Node(i + 1))
  /\ IF Lane(i) = "portable" THEN ~(Requires(Node(i + 1), operation) \subseteq fields)
                             ELSE ~Typed(i) /\ Node(i) # Node(i + 1)

\* What comes back over the lane: Box<dyn Any>, or wire text decoded.
Received(i) ==
  IF Lane(i) # "portable" THEN answer
  ELSE IF answer.kind = "domain" THEN Deserialize(Serialize(answer), Knows(Node(i), operation))
  ELSE IF answer.kind = "response" /\ ~(Returns(Node(i), operation) \subseteq fields)
    THEN Runtime("undecodable")
  ELSE answer

-----------------------------------------------------------------------------
\* The request is passed on as a request of the next one's contract, which
\* drops the fields it does not know.
Descend ==
  /\ phase = "down" /\ at < Len(route.nodes)
  /\ ~UnknownOperation(at) /\ ~ProtocolViolation(at)
  /\ at' = at + 1
  /\ fields' = Requires(Node(at + 1), operation)
  /\ UNCHANGED <<operation, route, phase, answer, handled>>

\* Mutant: the Provider runs before its request is found to be wrong.
RejectLate ==
  /\ phase = "down" /\ at < Len(route.nodes)
  /\ \/ UnknownOperation(at) /\ answer' = Runtime("unknown_operation")
     \/ ProtocolViolation(at) /\ answer' = Runtime("protocol_violation")
  /\ handled' = Response
  /\ phase' = "up"
  /\ UNCHANGED <<operation, route, at, fields>>

Reject ==
  /\ phase = "down" /\ at < Len(route.nodes)
  /\ \/ UnknownOperation(at) /\ answer' = Runtime("unknown_operation")
     \/ ProtocolViolation(at) /\ answer' = Runtime("protocol_violation")
  /\ phase' = "up"
  /\ UNCHANGED <<operation, route, at, fields, handled>>

\* __lenso_into_result: a response, a Domain Error of the contract, or a
\* RuntimeFailure.
Handle ==
  /\ phase = "down" /\ at = Len(route.nodes)
  /\ answer' \in {Response, Runtime("plugin_failure")}
                 \cup {Domain(TRUE, e) : e \in Knows(Node(at), operation)}
  /\ handled' = answer'
  /\ fields' = Returns(Node(at), operation)
  /\ phase' = "up"
  /\ UNCHANGED <<operation, route, at>>

\* The client's result, passed on as the forwarding Plugin's own.
Ascend ==
  /\ phase = "up" /\ at > 1
  /\ at' = at - 1
  /\ answer' = Received(at - 1)
  /\ fields' = Returns(Node(at - 1), operation)
  /\ UNCHANGED <<operation, route, phase, handled>>

\* The connection of a lane fails, before or after the call was handled.
Lose ==
  /\ at > 1
  /\ phase' = "up" /\ at' = at - 1
  /\ answer' = Runtime("lost")
  /\ UNCHANGED <<operation, route, fields, handled>>

CallInit ==
  /\ route \in Routes
  /\ operation \in Serves(route.nodes[1])
  /\ at = 1 /\ phase = "down"
  /\ fields = Requires(route.nodes[1], operation)
  /\ answer = Unanswered /\ handled = Unanswered

CallNext == Descend \/ Reject \/ Handle \/ Ascend \/ Lose

CallSpec == CallInit /\ [][CallNext]_callVars

-----------------------------------------------------------------------------
(* Properties. *)

\* Every build the answer has come past knows the code.
KnownSoFar(code) == \A i \in at..Len(route.nodes) : code \in Knows(Node(i), operation)

\* Over whatever builds and lanes: what the client is answered is what the
\* Provider answered, but for a RuntimeFailure that admits not to know it. A
\* Domain Error stays one and keeps its code; it is Unknown just where a build
\* on its way did not know it.  A call that is rejected was not handled.
AnswerArrives ==
  phase = "up" =>
    \/ answer = Runtime("lost")
    \/ answer = Runtime("undecodable") /\ handled = Response
    \/ /\ answer \in {Runtime("unknown_operation"), Runtime("protocol_violation")}
       /\ handled = Unanswered
    \/ answer = handled /\ handled.kind \in {"response", "runtime"}
    \/ /\ handled.kind = "domain"
       /\ answer = Domain(KnownSoFar(handled.code), handled.code)

\* Between neighbours of one build nothing is refused on the way: an operation
\* that the client can name is handled, and its answer understood.
SameBuildUnderstands ==
  (\A i \in 1..Len(route.nodes) : Node(i) = Node(1)) =>
    /\ answer.kind = "runtime" => answer.code \in {"lost", "plugin_failure"}
    /\ answer.kind = "domain" => answer.known

=============================================================================
