----------------------------- MODULE AgentTools ------------------------------
(***************************************************************************)
(* The Agent Tools Plugin between an Agent and the Organization Plugin:    *)
(* ToolProvider::execute, with the Agent following what the Tools tell it, *)
(* to reuse the idempotency key when retrying one intent.                  *)
(*                                                                         *)
(* An execution of a mutation is a call of OrganizationService, a try of   *)
(* an intent.  What becomes of an answer between the two Plugins is the    *)
(* subject of CapabilityCalls: here a Domain Error arrives as Unknown if   *)
(* its code is not known, and a lost answer is a failure of the call.  A    *)
(* failure may also be told while the call is still under way, or has not  *)
(* reached the Organization Plugin yet: what it does then comes later.     *)
(***************************************************************************)
EXTENDS OrganizationReads, CapabilityContract

CONSTANTS
  Read,      \* executions of Tools that read
  Reading,   \* what they may ask for
  Earlier,   \* the tries of its intent an execution comes after
  Faults,    \* ways an Agent may put its executions wrong
  Forgotten  \* sets of codes a contract on the way may not know

Execution == Call \cup Read

ASSUME ReadAssumption == Read \cap Call = {}
ASSUME ReadingAssumption ==
  \A w \in Reading : w \in ListRequest /\ w.list # "workspaces"
ASSUME EarlierAssumption ==
  /\ Earlier \in [Call -> SUBSET Call]
  /\ \A c \in Call : c \notin Earlier[c]
  /\ \A c, d \in Call : d \in Earlier[c] => Earlier[d] \subseteq Earlier[c]
ASSUME FaultsAssumption == Faults \subseteq [Execution -> {"none", "name", "arguments"}]

VARIABLES
  reading,    \* what each read asks for
  fault,      \* what is wrong with an execution: the Tool's name or its arguments
  forgotten,  \* the codes that arrive as Unknown
  stage,      \* "asked", "sent", "answered" and "replied", or "abandoned"
  answer,     \* what the bound Capability answered
  reply,      \* what the Tool replies
  effective,  \* history: the calls that changed a table
  told        \* history: Organizations the replies had named when an
              \* execution was sent

toolVars == <<reading, fault, forgotten, stage, answer, reply, effective, told>>
agentVars == <<serviceVars, toolVars>>

-----------------------------------------------------------------------------
(* The Tools. *)

ToolOf(e) ==
  IF e \in Call THEN Op(e)
  ELSE IF reading[e].list = "organizations" THEN "list_organizations"
  ELSE IF reading[e].list = "members" THEN "list_members" ELSE "get_organization"

Success(id) == [kind |-> "success", code |-> "ok", id |-> id]
ToolError(code) == [kind |-> "error", code |-> code, id |-> {}]
RuntimeFailure == [kind |-> "runtime", code |-> "runtime_failure", id |-> {}]
NoReply == [kind |-> "none", code |-> "none", id |-> {}]

rejected(reason) == ToolError(reason)

map_get_organization_error(v) ==
  IF ~v.known THEN rejected("unknown_domain_error")
  ELSE IF v.code = "forbidden" THEN ToolError("permission_denied")
  ELSE IF v.code = "invalid_request" THEN ToolError("invalid_arguments")
  ELSE ToolError("not_found")

map_list_organizations_error(v) ==
  IF ~v.known THEN rejected("unknown_domain_error")
  ELSE IF v.code = "forbidden" THEN ToolError("permission_denied")
  ELSE ToolError("invalid_arguments")

map_create_organization_error(v) ==
  IF ~v.known THEN rejected("unknown_domain_error")
  ELSE IF v.code = "forbidden" THEN ToolError("permission_denied")
  ELSE IF v.code = "invalid_organization" THEN ToolError("invalid_arguments")
  ELSE rejected(v.code)

map_list_members_error(v) ==
  IF v.known /\ v.code = "organization_not_found" THEN ToolError("not_found")
  ELSE map_list_organizations_error(v)

\* Mutant: an error that is not known falls through to the last one.
map_add_member_error_last(v) ==
  IF v.code = "idempotency_conflict" THEN rejected(v.code)
  ELSE IF v.code = "forbidden" THEN ToolError("permission_denied")
  ELSE IF v.known /\ v.code = "invalid_request" THEN ToolError("invalid_arguments")
  ELSE ToolError("not_found")

map_add_member_error(v) ==
  IF v.known /\ v.code = "idempotency_conflict" THEN rejected(v.code)
  ELSE map_get_organization_error(v)

map_remove_member_error(v) ==
  IF v.known /\ v.code = "owner_protected" THEN rejected(v.code)
  ELSE map_add_member_error(v)

MapError(tool, v) ==
  IF tool = "get_organization" THEN map_get_organization_error(v)
  ELSE IF tool = "list_organizations" THEN map_list_organizations_error(v)
  ELSE IF tool = "create_organization" THEN map_create_organization_error(v)
  ELSE IF tool = "list_members" THEN map_list_members_error(v)
  ELSE IF tool = "add_member" THEN map_add_member_error(v)
  ELSE map_remove_member_error(v)

-----------------------------------------------------------------------------
(* Answers of the Capabilities. *)

Ok(id) == [kind |-> "response", known |-> TRUE, code |-> "ok", id |-> id]
Failure == [kind |-> "runtime", known |-> TRUE, code |-> "runtime_failure", id |-> {}]
NoAnswer == [kind |-> "none", known |-> TRUE, code |-> "none", id |-> {}]
Arrived(code) ==
  [kind |-> "domain", known |-> code \notin forgotten, code |-> code, id |-> {}]

\* "invalid" is invalid_organization or invalid_request.
CodeOf(c, e) ==
  IF e # "invalid" THEN e
  ELSE IF IsCreate(c) THEN "invalid_organization" ELSE "invalid_request"

\* A call's answer in terms of its Capability.
AnswerOf(c, r) ==
  IF r.code = "ok" THEN Ok(IF IsCreate(c) THEN {r.id} ELSE {})
  ELSE IF r.code = "runtime_failure" THEN Failure
  ELSE Arrived(CodeOf(c, r.code))

-----------------------------------------------------------------------------
(* ToolProvider::execute. *)

\* An Agent tries an intent again when it was told that it failed, whether or
\* not the Organization Plugin is done with it.
MayStart(e) ==
  stage[e] = "asked" /\ (e \in Call => \A c \in Earlier[e] : reply[c] = RuntimeFailure)

\* No Tool of that name, or arguments that lack a field or are of another type.
Misuse(e) ==
  /\ MayStart(e) /\ fault[e] # "none"
  /\ stage' = [stage EXCEPT ![e] = "replied"]
  /\ reply' = [reply EXCEPT ![e] =
                 ToolError(IF fault[e] = "name" THEN "not_found" ELSE "invalid_arguments")]
  /\ UNCHANGED <<serviceVars, reading, fault, forgotten, answer, effective, told>>

\* The Capability is invoked with the arguments, in the caller's context.
Send(e) ==
  /\ MayStart(e) /\ fault[e] = "none"
  /\ stage' = [stage EXCEPT ![e] = "sent"]
  /\ told' = [told EXCEPT ![e] = UNION {reply[x].id : x \in Execution}]
  /\ UNCHANGED <<serviceVars, reading, fault, forgotten, answer, reply, effective>>

\* The lane of a call is lost, its await dropped or expired, before there is an
\* answer: that is a failure to the Agent, and the call goes on without it.
Abandon(c) ==
  /\ stage[c] = "sent"
  /\ stage' = [stage EXCEPT ![c] = "abandoned"]
  /\ reply' = [reply EXCEPT ![c] = RuntimeFailure]
  /\ UNCHANGED <<serviceVars, reading, fault, forgotten, answer, effective, told>>

\* The Organization Plugin answers a call that was sent, though nobody may be
\* there to be told, or the Operator archives an Organization.
Answered(c) == result'[c] # result[c]
Arrives(e) == e \in Call /\ Answered(e) /\ stage[e] = "sent"

Serve ==
  /\ ServiceNext
  /\ \A c \in Call : Answered(c) => stage[c] \in {"sent", "abandoned"}
  /\ stage' = [e \in Execution |-> IF Arrives(e) THEN "answered" ELSE stage[e]]
  /\ answer' = [e \in Execution |-> IF Arrives(e) THEN AnswerOf(e, result'[e]) ELSE answer[e]]
  /\ effective' = effective \cup
       {c \in Call : Answered(c) /\ <<members, receipts>>' # <<members, receipts>>}
  /\ UNCHANGED <<reading, fault, forgotten, reply, told>>

ServeRead(e) ==
  /\ stage[e] = "sent"
  /\ stage' = [stage EXCEPT ![e] = "answered"]
  /\ \/ \E code \in ListRefusals :
          Refuses(reading[e], code) /\ answer' = [answer EXCEPT ![e] = Arrived(code)]
     \/ /\ \A code \in ListRefusals : ~Refuses(reading[e], code)
        /\ answer' = [answer EXCEPT ![e] = Ok({})]
     \/ answer' = [answer EXCEPT ![e] = Failure]
  /\ UNCHANGED <<serviceVars, reading, fault, forgotten, reply, effective, told>>

\* Mutant: a failure is told like any other error.
TellError(e) ==
  /\ stage[e] = "answered"
  /\ stage' = [stage EXCEPT ![e] = "replied"]
  /\ reply' = [reply EXCEPT ![e] =
                 IF answer[e].kind = "response" THEN Success(answer[e].id)
                 ELSE IF answer[e].kind = "domain" THEN MapError(ToolOf(e), answer[e])
                 ELSE rejected("unknown_domain_error")]
  /\ UNCHANGED <<serviceVars, reading, fault, forgotten, answer, effective, told>>

\* invoke!: a response, a Domain Error mapped, or the failure passed on.
Tell(e) ==
  /\ stage[e] = "answered"
  /\ stage' = [stage EXCEPT ![e] = "replied"]
  /\ reply' = [reply EXCEPT ![e] =
                 IF answer[e].kind = "response" THEN Success(answer[e].id)
                 ELSE IF answer[e].kind = "domain" THEN MapError(ToolOf(e), answer[e])
                 ELSE RuntimeFailure]
  /\ UNCHANGED <<serviceVars, reading, fault, forgotten, answer, effective, told>>

ToolInit ==
  /\ TablesInit
  /\ reading \in [Read -> Reading] /\ fault \in Faults /\ forgotten \in Forgotten
  /\ \A c \in Call : \A d \in Earlier[c] : request[c] = request[d] /\ fault[c] = fault[d]
  /\ stage = [e \in Execution |-> "asked"]
  /\ answer = [e \in Execution |-> NoAnswer]
  /\ reply = [e \in Execution |-> NoReply]
  /\ effective = {} /\ told = [e \in Execution |-> {}]

ToolNext ==
  \/ \E e \in Execution : Misuse(e) \/ Send(e) \/ Tell(e)
  \/ \E c \in Call : Abandon(c)
  \/ \E e \in Read : ServeRead(e)
  \/ Serve

ToolSpec == ToolInit /\ [][ToolNext]_agentVars

-----------------------------------------------------------------------------
(* Properties. *)

\* Errors whose cause does not pass.
Standing == {"permission_denied", "invalid_arguments", "idempotency_conflict", "owner_protected"}

\* When an Agent is told an error, then neither this try of the intent nor one
\* that failed before with its answer lost has changed anything, nor ever will.
\* Only a try that was abandoned under way may have taken effect after the one
\* made in its place was refused, and only if the cause can have passed since.
ErrorsMeanNothingDone ==
  \A d \in Call : \A c \in Earlier[d] \cup {d} :
    reply[d].kind = "error" /\ c \in effective
      => stage[c] = "abandoned" /\ reply[d].code \notin Standing

\* Whichever try of an intent comes first, the one abandoned or the one made in
\* its place: once one has taken effect, no other does, and none is refused.
IntentsTakeEffectOnce ==
  [][\A c, d \in Call :
       Answered(d) /\ c \in effective /\ c # d /\ request[c] = request[d]
         => d \notin effective' /\ result'[d].code \notin Refusals]_agentVars

\* What the Organization Plugin refused and an execution was there to tell, it
\* tells as an error, never as a failure to try again, and under no cause but
\* its own; and under its own where every contract on the way knows it.
CausesAreTrue ==
  \A c \in Call :
    stage[c] = "replied" /\ result[c].code \in Refusals =>
      /\ reply[c].kind = "error"
      /\ CASE reply[c].code = "permission_denied" -> result[c].code = "forbidden"
           [] reply[c].code = "invalid_arguments" -> result[c].code = "invalid"
           [] reply[c].code = "not_found" ->
                result[c].code \in {"organization_not_found", "membership_not_found"}
           [] reply[c].code = "unknown_domain_error" -> CodeOf(c, result[c].code) \in forgotten
           [] OTHER -> reply[c].code = result[c].code

\* An Organization that an Agent was told of can be read from then on: the
\* Tools that read do not reply not_found, though it may be archived.
AcknowledgedIsFound ==
  \A e \in Read : reply[e].code = "not_found" => reading[e].org \notin told[e]

\* What docs/plugin-card-agent-tools.md says: the adapter "preserves Domain
\* Errors".  Refused for different reasons, two executions of a Tool are told
\* so, all contracts being the same.
DomainErrorsPreserved ==
  \A c, d \in Call :
    /\ stage[c] = "replied" /\ stage[d] = "replied" /\ forgotten = {}
    /\ ToolOf(c) = ToolOf(d)
    /\ result[c].code \in Refusals /\ result[d].code \in Refusals
    /\ reply[c] = reply[d]
    => result[c].code = result[d].code

=============================================================================
