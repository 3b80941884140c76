--------------------------- MODULE AgentToolsProofs ---------------------------
(* Theorems about what the Agent Tools tell an Agent. *)
EXTENDS AgentTools, OrganizationServiceProofs

-----------------------------------------------------------------------------
(* The service's steps, as an answer to a call. *)

\* A refusal leaves the tables alone, and its call was not admitted, or has
\* no receipt of its own intent; what else is answered was admitted, finding
\* no receipt under its key, or leaves the tables alone.
Outcome(c) ==
  \/ /\ result'[c].code \in Refusals
     /\ UNCHANGED <<members, receipts>>
     /\ \/ ~Admitted(c)
        \/ Matching(c) = {}
        \/ \E r \in Matching(c) : r.intent # Intent(c)
  \/ /\ result'[c].code \in {"ok", "runtime_failure"}
     /\ \/ UNCHANGED <<members, receipts>>
        \/ Admitted(c) /\ Matching(c) = {} /\ \E i, n : ReceiptOf(c, i, n) \in receipts'

LEMMA ConfirmCodes ==
  ASSUME TablesTypeOK, NEW c \in Call, NEW b, NEW i, NEW n, Confirm(c, Done(b, i, n))
  PROVE  result'[c].code \in {"ok", "runtime_failure"}
BY DEF Confirm, Answer, Done, Failed, TablesTypeOK

LEMMA RefuseCodes ==
  ASSUME TablesTypeOK, NEW c \in Call, NEW e \in Refusals, Refuse(c, e)
  PROVE  result'[c].code \in Refusals /\ UNCHANGED <<members, receipts>>
BY DEF Refuse, Answer, Refused, TablesTypeOK

LEMMA OutcomeOfRefusal ==
  ASSUME TablesTypeOK, NEW c \in Call,
         \/ AnswerForbidden(c) \/ AnswerInvalid(c) \/ AnswerKeyConflict(c)
         \/ AnswerSlugConflict(c) \/ AnswerOrganizationNotFound(c)
         \/ AnswerMembershipNotFound(c) \/ AnswerOwnerProtected(c)
  PROVE  Outcome(c)
<1>1. \E e \in Refusals : Refuse(c, e)
  BY DEF AnswerForbidden, AnswerInvalid, AnswerKeyConflict, AnswerSlugConflict,
         AnswerOrganizationNotFound, AnswerMembershipNotFound, AnswerOwnerProtected, Refusals
<1>2. \/ ~Admitted(c) \/ Matching(c) = {} \/ \E r \in Matching(c) : r.intent # Intent(c)
  BY DEF AnswerForbidden, AnswerInvalid, AnswerKeyConflict, AnswerSlugConflict,
         AnswerOrganizationNotFound, AnswerMembershipNotFound, AnswerOwnerProtected,
         Enters, Fresh, Admitted
<1> QED BY <1>1, <1>2, RefuseCodes DEF Outcome

LEMMA OutcomeOfEffect ==
  ASSUME TablesTypeOK, NEW c \in Call,
         \/ Create(c) \/ AddNew(c) \/ AddExisting(c) \/ Remove(c)
         \/ AnswerReplay(c) \/ AnswerFailure(c)
  PROVE  Outcome(c)
<1>1. CASE Create(c)
  <2>1. Admitted(c) /\ Matching(c) = {} /\ ReceiptOf(c, c, 1) \in receipts'
    BY <1>1 DEF Create, Fresh
  <2> QED BY <1>1, <2>1, ConfirmCodes DEF Create, Outcome
<1>2. CASE AddNew(c)
  <2>1. Admitted(c) /\ Matching(c) = {} /\ ReceiptOf(c, c, 1) \in receipts'
    BY <1>2 DEF AddNew, Enters, Fresh
  <2> QED BY <1>2, <2>1, ConfirmCodes DEF AddNew, Outcome
<1>3. CASE AddExisting(c)
  <2>1. PICK m \in Found(c) : /\ receipts' = receipts \cup {ReceiptOf(c, m.id, m.revision)}
                              /\ Confirm(c, Done(FALSE, m.id, m.revision))
    BY <1>3 DEF AddExisting
  <2>2. Admitted(c) /\ Matching(c) = {} /\ ReceiptOf(c, m.id, m.revision) \in receipts'
    BY <1>3, <2>1 DEF AddExisting, Enters, Fresh
  <2> QED BY <2>1, <2>2, ConfirmCodes DEF Outcome
<1>4. CASE Remove(c)
  <2>1. PICK m \in Found(c) : /\ receipts' = receipts \cup {ReceiptOf(c, m.id, m.revision + 1)}
                              /\ Confirm(c, Done(TRUE, m.id, m.revision + 1))
    BY <1>4 DEF Remove
  <2>2. Admitted(c) /\ Matching(c) = {} /\ ReceiptOf(c, m.id, m.revision + 1) \in receipts'
    BY <1>4, <2>1 DEF Remove, Enters, Fresh
  <2> QED BY <2>1, <2>2, ConfirmCodes DEF Outcome
<1>5. CASE AnswerReplay(c)
  BY <1>5, ConfirmCodes DEF AnswerReplay, Outcome
<1>6. CASE AnswerFailure(c)
  BY <1>6 DEF AnswerFailure, Answer, Failed, Outcome, TablesTypeOK
<1> QED BY <1>1, <1>2, <1>3, <1>4, <1>5, <1>6

\* One call at most is answered in a step: one that waited.
LEMMA CallStep ==
  ASSUME TablesTypeOK, ServiceNext
  PROVE  /\ request' = request /\ receipts \subseteq receipts'
         /\ \/ \E c \in Call : /\ Waiting(c) /\ Outcome(c)
                               /\ \A d \in Call \ {c} : result'[d] = result[d]
            \/ result' = result
<1>1. ASSUME NEW c \in Call,
             \/ AnswerForbidden(c) \/ AnswerInvalid(c) \/ AnswerKeyConflict(c)
             \/ AnswerSlugConflict(c) \/ AnswerOrganizationNotFound(c)
             \/ AnswerMembershipNotFound(c) \/ AnswerOwnerProtected(c)
      PROVE  /\ Waiting(c) /\ UNCHANGED <<request, receipts>>
             /\ \E r : Answer(c, r)
  BY <1>1 DEF AnswerForbidden, AnswerInvalid, AnswerKeyConflict, AnswerSlugConflict,
       AnswerOrganizationNotFound, AnswerMembershipNotFound, AnswerOwnerProtected,
       Enters, Fresh, Refuse
<1>2. ASSUME NEW c \in Call,
             \/ Create(c) \/ AddNew(c) \/ AddExisting(c) \/ Remove(c)
             \/ AnswerReplay(c) \/ AnswerFailure(c)
      PROVE  /\ Waiting(c) /\ request' = request /\ receipts \subseteq receipts'
             /\ \E r : Answer(c, r)
  BY <1>2 DEF Create, AddNew, AddExisting, Remove, AnswerReplay, AnswerFailure,
       Enters, Fresh, Confirm
<1>3. ASSUME NEW c \in Call, \E r : Answer(c, r)
      PROVE  \A d \in Call \ {c} : result'[d] = result[d]
  BY <1>3 DEF Answer, TablesTypeOK
<1>4. CASE \E o \in Call : ArchiveOrg(o)
  BY <1>4 DEF ArchiveOrg
<1> QED BY <1>1, <1>2, <1>3, <1>4, OutcomeOfRefusal, OutcomeOfEffect DEF ServiceNext

-----------------------------------------------------------------------------
(* The invariant. *)

\* How far an execution is, in the state of its call.
StagesTell ==
  \A c \in Call :
    /\ stage[c] \in {"asked", "sent"} => Waiting(c)
    /\ stage[c] = "answered" => ~Waiting(c)
    /\ stage[c] \in {"asked", "sent", "answered"} => reply[c] = NoReply
    /\ stage[c] = "abandoned" => reply[c] = RuntimeFailure
    /\ fault[c] # "none" => Waiting(c) /\ stage[c] \in {"asked", "replied"}
    /\ answer[c].kind = "domain" => result[c].code \in Refusals
    /\ reply[c].kind = "error" => fault[c] # "none" \/ result[c].code \in Refusals
    /\ reply[c] = RuntimeFailure => ~Waiting(c) \/ stage[c] = "abandoned"

\* The tries of an intent are the same call, made one after the other.
TriesFollow ==
  \A d \in Call : \A c \in Earlier[d] :
    /\ request[c] = request[d] /\ fault[c] = fault[d]
    /\ stage[d] # "asked" => reply[c] = RuntimeFailure

\* A call that changed anything left the receipt of its intent.
EffectsLeaveReceipts ==
  \A c \in effective :
    /\ c \in Call /\ ~Waiting(c) /\ Admitted(c)
    /\ \E r \in Matching(c) : r.intent = Intent(c)

\* The goal, at the service's answer.
RefusalsMeanNothingDone ==
  \A d \in Call : \A c \in Earlier[d] \cup {d} :
    result[d].code \in Refusals /\ c \in effective => stage[c] = "abandoned"

Stages == {"asked", "sent", "answered", "replied", "abandoned"}

ToolInv ==
  /\ ServiceInv
  /\ stage \in [Execution -> Stages]
  /\ DOMAIN reply = Execution /\ DOMAIN answer = Execution
  /\ StagesTell /\ TriesFollow /\ EffectsLeaveReceipts /\ RefusalsMeanNothingDone

LEMMA Shapes ==
  /\ NoReply.kind = "none" /\ NoAnswer.kind = "none"
  /\ Failure.kind = "runtime" /\ RuntimeFailure.kind = "runtime"
  /\ \A id : Ok(id).kind = "response" /\ Success(id).kind = "success"
  /\ \A code : ToolError(code).kind = "error" /\ Arrived(code).kind = "domain"
BY DEF NoReply, NoAnswer, Failure, RuntimeFailure, Ok, Success, ToolError, Arrived

LEMMA MappedErrors ==
  ASSUME NEW tool, NEW v
  PROVE  MapError(tool, v).kind = "error"
<1>1. \A code : ToolError(code).kind = "error" /\ rejected(code).kind = "error"
  BY Shapes DEF rejected
<1>2. /\ map_get_organization_error(v).kind = "error"
      /\ map_list_organizations_error(v).kind = "error"
      /\ map_create_organization_error(v).kind = "error"
  BY <1>1 DEF map_get_organization_error, map_list_organizations_error, map_create_organization_error
<1>3. map_add_member_error(v).kind = "error" /\ map_list_members_error(v).kind = "error"
  BY <1>1, <1>2 DEF map_add_member_error, map_list_members_error
<1>4. map_remove_member_error(v).kind = "error"
  BY <1>1, <1>3 DEF map_remove_member_error
<1> QED BY <1>2, <1>3, <1>4 DEF MapError

LEMMA ToolStart == ASSUME ToolInit PROVE ToolInv
<1>1. \A c \in Call : result[c] = Pending /\ c \in Execution
  BY DEF ToolInit, TablesInit, Execution
<1>2. Pending.code \notin Refusals
  BY DEF Pending, Refusals
<1>3. NoReply # RuntimeFailure
  BY Shapes
<1> QED
  BY <1>1, <1>2, <1>3, ServiceStart, Shapes, EarlierAssumption
     DEF ToolInit, ToolInv, Stages, StagesTell, TriesFollow, EffectsLeaveReceipts,
         RefusalsMeanNothingDone, Waiting

\* Whatever one execution does by itself leaves the tables and the calls.
LEMMA ServiceKept ==
  ASSUME ToolInv, UNCHANGED <<serviceVars, fault, effective>>,
         \A c \in Call : stage[c] = "abandoned" => stage'[c] = "abandoned"
  PROVE  ServiceInv' /\ EffectsLeaveReceipts' /\ RefusalsMeanNothingDone'
         /\ \A c \in Call : Waiting(c)' <=> Waiting(c)
<1>1. ServiceInv'
  BY ServiceStep DEF ToolInv
<1>2. UNCHANGED <<orgs, members, receipts, request, result>>
  BY DEF serviceVars
<1>3. \A c \in Call : /\ Waiting(c)' <=> Waiting(c)
                      /\ Admitted(c)' <=> Admitted(c)
                      /\ Matching(c)' = Matching(c) /\ Intent(c)' = Intent(c)
  BY <1>2 DEF Waiting, Admitted, Authorized, Matching, Family, Intent, IsCreate, Op
<1> QED
  BY <1>1, <1>2, <1>3 DEF ToolInv, EffectsLeaveReceipts, RefusalsMeanNothingDone

LEMMA MisuseStep ==
  ASSUME ToolInv, NEW e \in Execution, Misuse(e)
  PROVE  ToolInv'
<1>1. /\ stage' = [stage EXCEPT ![e] = "replied"] /\ stage[e] = "asked"
      /\ fault[e] # "none"
      /\ e \in Call => \A c \in Earlier[e] : reply[c] = RuntimeFailure
      /\ \E code : reply' = [reply EXCEPT ![e] = ToolError(code)]
      /\ UNCHANGED <<serviceVars, reading, fault, forgotten, answer, effective, told>>
  BY DEF Misuse, MayStart
<1>2. UNCHANGED <<request, result>>
  BY <1>1 DEF serviceVars
<1>3. \A c \in Call : c \in Execution /\ (c \in Earlier[c] => FALSE)
  BY EarlierAssumption DEF Execution
<1>4. reply'[e].kind = "error" /\ reply'[e] # RuntimeFailure /\ reply'[e] # NoReply
      /\ \A x \in Execution \ {e} : reply'[x] = reply[x] /\ stage'[x] = stage[x]
      /\ stage'[e] = "replied" /\ DOMAIN reply' = Execution
  BY <1>1, Shapes DEF ToolInv
<1>5. StagesTell'
  BY <1>1, <1>2, <1>3, <1>4, ServiceKept DEF ToolInv, StagesTell
<1>6. TriesFollow'
  BY <1>1, <1>2, <1>3, <1>4, Shapes, EarlierAssumption DEF ToolInv, TriesFollow, StagesTell, NoReply
<1> QED BY <1>1, <1>3, <1>4, <1>5, <1>6, ServiceKept DEF ToolInv, Stages

LEMMA SendStep ==
  ASSUME ToolInv, NEW e \in Execution, Send(e)
  PROVE  ToolInv'
<1>1. /\ stage' = [stage EXCEPT ![e] = "sent"] /\ stage[e] = "asked"
      /\ fault[e] = "none"
      /\ e \in Call => \A c \in Earlier[e] : reply[c] = RuntimeFailure
      /\ UNCHANGED <<serviceVars, reading, fault, forgotten, answer, reply, effective>>
  BY DEF Send, MayStart
<1>2. UNCHANGED <<request, result>>
  BY <1>1 DEF serviceVars
<1>3. \A c \in Call : c \in Execution
  BY DEF Execution
<1>4. StagesTell'
  BY <1>1, <1>2, <1>3, ServiceKept DEF ToolInv, StagesTell
<1>5. TriesFollow'
  BY <1>1, <1>2, <1>3, EarlierAssumption DEF ToolInv, TriesFollow
<1> QED BY <1>1, <1>3, <1>4, <1>5, ServiceKept DEF ToolInv, Stages

\* The Agent is told of a failure, and nothing else changes: the call waits on.
LEMMA AbandonStep ==
  ASSUME ToolInv, NEW c \in Call, Abandon(c)
  PROVE  ToolInv'
<1>1. /\ stage' = [stage EXCEPT ![c] = "abandoned"] /\ stage[c] = "sent"
      /\ reply' = [reply EXCEPT ![c] = RuntimeFailure]
      /\ UNCHANGED <<serviceVars, reading, fault, forgotten, answer, effective, told>>
  BY DEF Abandon
<1>2. UNCHANGED <<request, result>>
  BY <1>1 DEF serviceVars
<1>3. \A d \in Call : d \in Execution
  BY DEF Execution
<1>4. StagesTell'
  BY <1>1, <1>2, <1>3, Shapes, ServiceKept DEF ToolInv, StagesTell
<1>5. TriesFollow'
  BY <1>1, <1>2, <1>3, EarlierAssumption DEF ToolInv, TriesFollow
<1> QED BY <1>1, <1>3, <1>4, <1>5, ServiceKept DEF ToolInv, Stages

LEMMA TellStep ==
  ASSUME ToolInv, NEW e \in Execution, Tell(e)
  PROVE  ToolInv'
<1>1. /\ stage' = [stage EXCEPT ![e] = "replied"] /\ stage[e] = "answered"
      /\ UNCHANGED <<serviceVars, reading, fault, forgotten, answer, effective, told>>
  BY DEF Tell
<1>2. UNCHANGED <<request, result>>
  BY <1>1 DEF serviceVars
<1>3. \A c \in Call : c \in Execution
  BY DEF Execution
<1>4. /\ \A x \in Execution \ {e} : reply'[x] = reply[x]
      /\ DOMAIN reply' = Execution
      /\ reply'[e].kind = "error" => answer[e].kind = "domain"
      /\ reply'[e] # NoReply
  BY MappedErrors, Shapes DEF Tell, ToolInv
<1>5. e \in Call => ~Waiting(e)
  BY <1>1 DEF ToolInv, StagesTell
<1>6. StagesTell'
  BY <1>1, <1>2, <1>3, <1>4, <1>5, ServiceKept DEF ToolInv, StagesTell
<1>7. TriesFollow'
  BY <1>1, <1>2, <1>3, <1>4, Shapes, EarlierAssumption DEF ToolInv, TriesFollow, StagesTell
<1> QED BY <1>1, <1>3, <1>4, <1>6, <1>7, ServiceKept DEF ToolInv, Stages

\* A read has no call: only its own stage and answer change.
LEMMA ServeReadStep ==
  ASSUME ToolInv, NEW e \in Read, ServeRead(e)
  PROVE  ToolInv'
<1>1. /\ stage' = [stage EXCEPT ![e] = "answered"]
      /\ UNCHANGED <<serviceVars, reading, fault, forgotten, reply, effective, told>>
      /\ \E a : answer' = [answer EXCEPT ![e] = a]
  BY DEF ServeRead
<1>2. UNCHANGED <<request, result>>
  BY <1>1 DEF serviceVars
<1>3. e \in Execution /\ e \notin Call /\ \A c \in Call : c \in Execution
  BY ReadAssumption DEF Execution
<1>4. StagesTell'
  BY <1>1, <1>2, <1>3, ServiceKept DEF ToolInv, StagesTell
<1>5. TriesFollow'
  BY <1>1, <1>2, <1>3, EarlierAssumption DEF ToolInv, TriesFollow
<1> QED BY <1>1, <1>3, <1>4, <1>5, ServiceKept DEF ToolInv, Stages

-----------------------------------------------------------------------------
(* The step of the Organization Plugin. *)

\* What the step does to the executions: w is the call it answers.
Serves(w) ==
  /\ w \in Call /\ Waiting(w) /\ Outcome(w) /\ stage[w] \in {"sent", "abandoned"}
  /\ ~Waiting(w)'
  /\ \A d \in Call \ {w} : /\ result'[d] = result[d] /\ stage'[d] = stage[d]
                           /\ answer'[d] = answer[d]
  /\ stage[w] = "sent" => stage'[w] = "answered" /\ answer'[w] = AnswerOf(w, result'[w])
  /\ stage[w] = "abandoned" => stage'[w] = "abandoned" /\ answer'[w] = answer[w]
  /\ effective' = IF UNCHANGED <<members, receipts>> THEN effective ELSE effective \cup {w}

ServesNone ==
  /\ result' = result /\ effective' = effective
  /\ \A d \in Call : stage'[d] = stage[d] /\ answer'[d] = answer[d]

LEMMA ServeCases ==
  ASSUME ToolInv, Serve
  PROVE  ServesNone \/ \E w \in Call : Serves(w)
<1>1. TablesTypeOK /\ ServiceNext
  BY DEF ToolInv, ServiceInv, RowInv, Serve
<1>2. \A c \in Call : c \in Execution
  BY DEF Execution
<1>3. CASE result' = result
  BY <1>2, <1>3 DEF Serve, ServesNone, Arrives, Answered
<1>4. ASSUME NEW w \in Call, Waiting(w), Outcome(w),
             \A d \in Call \ {w} : result'[d] = result[d]
      PROVE  Serves(w)
  <2>1. result'[w].code # "pending"
    BY <1>4 DEF Outcome, Refusals
  <2>2. result'[w] # Pending
    BY <2>1, Codes
  <2>3. Answered(w) /\ \A d \in Call \ {w} : ~Answered(d)
    BY <1>4, <2>2 DEF Answered, Waiting
  <2>4. /\ stage[w] \in {"sent", "abandoned"}
        /\ stage[w] = "sent" => stage'[w] = "answered" /\ answer'[w] = AnswerOf(w, result'[w])
        /\ stage[w] = "abandoned" => stage'[w] = "abandoned" /\ answer'[w] = answer[w]
    BY <1>2, <2>3 DEF Serve, Arrives
  <2>5. \A d \in Call \ {w} : stage'[d] = stage[d] /\ answer'[d] = answer[d]
    BY <1>2, <2>3 DEF Serve, Arrives
  <2>6. {c \in Call : Answered(c) /\ <<members, receipts>>' # <<members, receipts>>}
          = IF UNCHANGED <<members, receipts>> THEN {} ELSE {w}
    BY <2>3
  <2>7. effective' = IF UNCHANGED <<members, receipts>> THEN effective ELSE effective \cup {w}
    BY <2>6 DEF Serve
  <2> QED BY <1>4, <2>2, <2>4, <2>5, <2>7 DEF Serves, Waiting
<1> QED BY <1>1, <1>3, <1>4, CallStep

LEMMA ServeStages ==
  ASSUME ToolInv, Serve
  PROVE  StagesTell' /\ TriesFollow'
<1>1. request' = request /\ fault' = fault /\ reply' = reply
  BY CallStep DEF Serve, ToolInv, ServiceInv, RowInv
<1>2. CASE ServesNone
  BY <1>1, <1>2 DEF ServesNone, ToolInv, StagesTell, TriesFollow, Waiting
<1>3. ASSUME NEW w \in Call, Serves(w)
      PROVE  StagesTell' /\ TriesFollow'
  <2>1. stage[w] = "sent" /\ answer'[w].kind = "domain" => result'[w].code \in Refusals
    BY <1>3, Shapes DEF Serves, Outcome, AnswerOf
  <2>2. reply[w] \in {NoReply, RuntimeFailure} /\ fault[w] = "none"
        /\ answer[w].kind # "domain"
    BY <1>3, Codes DEF Serves, ToolInv, StagesTell, Waiting, Refusals
  <2>3. \A d \in Call \ {w} : Waiting(d)' <=> Waiting(d)
    BY <1>3 DEF Serves, Waiting
  <2>4. StagesTell'
    BY <1>1, <1>3, <2>1, <2>2, <2>3, Shapes DEF Serves, ToolInv, StagesTell
  <2>5. TriesFollow'
    BY <1>1, <1>3, EarlierAssumption DEF Serves, ToolInv, TriesFollow
  <2> QED BY <2>4, <2>5
<1> QED BY <1>2, <1>3, ServeCases

\* The call that is answered leaves its receipt; those of others stay.
LEMMA ServeEffects ==
  ASSUME ToolInv, Serve
  PROVE  EffectsLeaveReceipts'
<1>1. request' = request /\ receipts \subseteq receipts'
  BY CallStep DEF Serve, ToolInv, ServiceInv, RowInv
<1>2. \A c \in Call : /\ Admitted(c)' <=> Admitted(c)
                      /\ Intent(c)' = Intent(c) /\ Matching(c) \subseteq Matching(c)'
  BY <1>1, RequestKept DEF Admitted, Authorized, Matching, IsCreate, Op
<1>3. CASE ServesNone
  BY <1>2, <1>3 DEF ServesNone, ToolInv, EffectsLeaveReceipts, Waiting
<1>4. ASSUME NEW w \in Call, Serves(w)
      PROVE  EffectsLeaveReceipts'
  <2>1. ASSUME NEW c \in effective
        PROVE  /\ c \in Call /\ ~Waiting(c)' /\ Admitted(c)'
               /\ \E r \in Matching(c)' : r.intent = Intent(c)'
    BY <1>2, <1>4, <2>1 DEF ToolInv, EffectsLeaveReceipts, Serves, Waiting
  <2>2. ASSUME ~UNCHANGED <<members, receipts>>
        PROVE  /\ ~Waiting(w)' /\ Admitted(w)'
               /\ \E r \in Matching(w)' : r.intent = Intent(w)'
    <3>1. PICK i, n : ReceiptOf(w, i, n) \in receipts'
      BY <1>4, <2>2 DEF Serves, Outcome
    <3>2. ReceiptOf(w, i, n) \in Matching(w)' /\ ReceiptOf(w, i, n).intent = Intent(w)'
      BY <1>1, <1>2, <3>1, RequestKept DEF ReceiptOf, Matching
    <3>3. Admitted(w)
      BY <1>4, <2>2 DEF Serves, Outcome
    <3> QED BY <1>2, <1>4, <3>2, <3>3 DEF Serves
  <2> QED BY <1>4, <2>1, <2>2 DEF Serves, EffectsLeaveReceipts
<1> QED BY <1>3, <1>4, ServeCases

\* The tries of one intent use one key: where one took effect, a later one
\* finds the receipt and is not refused; and none is made before the last has
\* settled or was abandoned.
LEMMA ServeRefusals ==
  ASSUME ToolInv, Serve
  PROVE  RefusalsMeanNothingDone'
<1>1. CASE ServesNone
  BY <1>1, EarlierAssumption DEF ServesNone, ToolInv, RefusalsMeanNothingDone
<1>2. ASSUME NEW w \in Call, Serves(w), NEW d \in Call, result'[d].code \in Refusals,
             NEW c \in Earlier[d] \cup {d}, c \in effective'
      PROVE  stage'[c] = "abandoned"
  <2>1. c \in Call /\ request[c] = request[d]
    BY <1>2, EarlierAssumption DEF ToolInv, TriesFollow
  <2>2. CASE d = w
    <3>1. UNCHANGED <<members, receipts>> /\ c \in effective
      BY <1>2, <2>2 DEF Serves, Outcome, Refusals
    <3>2. /\ Admitted(d) <=> Admitted(c)
          /\ Matching(d) = Matching(c) /\ Intent(d) = Intent(c)
      BY <2>1 DEF Admitted, Authorized, Matching, Family, Intent, IsCreate, Op
    <3>3. Admitted(d) /\ \E r \in Matching(d) : r.intent = Intent(d)
      BY <3>1, <3>2 DEF ToolInv, EffectsLeaveReceipts
    <3>4. \E r \in Matching(d) : r.intent # Intent(d)
      BY <1>2, <2>2, <3>3 DEF Serves, Outcome, Refusals
    <3>5. \A r, s \in Matching(d) : r = s
      BY DEF Matching, ToolInv, ServiceInv, ReceiptsSound
    <3> QED BY <3>3, <3>4, <3>5
  <2>3. CASE d # w
    <3>1. result[d].code \in Refusals
      BY <1>2, <2>3 DEF Serves
    <3>2. CASE c \in effective
      BY <1>2, <2>1, <3>1, <3>2 DEF Serves, ToolInv, RefusalsMeanNothingDone
    <3>3. CASE c \notin effective
      <4>1. c = w /\ w \in Earlier[d]
        BY <1>2, <2>3, <3>3 DEF Serves
      <4>2. ~Waiting(d)
        BY <3>1, Codes DEF Waiting, Refusals
      <4>3. reply[w] = RuntimeFailure
        BY <4>1, <4>2 DEF ToolInv, StagesTell, TriesFollow, Execution, Stages
      <4> QED BY <1>2, <4>1, <4>3 DEF Serves, ToolInv, StagesTell
    <3> QED BY <3>2, <3>3
  <2> QED BY <2>2, <2>3
<1> QED BY <1>1, <1>2, ServeCases DEF RefusalsMeanNothingDone

LEMMA ServeStep == ASSUME ToolInv, Serve PROVE ToolInv'
<1>1. ServiceInv'
  BY ServiceStep DEF ToolInv, Serve
<1>2. /\ stage' \in [Execution -> Stages]
      /\ DOMAIN reply' = Execution /\ DOMAIN answer' = Execution
  BY DEF Serve, ToolInv, Stages
<1> QED BY <1>1, <1>2, ServeStages, ServeEffects, ServeRefusals DEF ToolInv

-----------------------------------------------------------------------------
(* The theorem. *)

LEMMA ToolStep == ASSUME ToolInv, [ToolNext]_agentVars PROVE ToolInv'
<1>1. CASE UNCHANGED agentVars
  <2>1. UNCHANGED <<serviceVars, stage, answer, reply, fault, effective, request, result>>
    BY <1>1 DEF agentVars, toolVars, serviceVars
  <2>2. StagesTell' /\ TriesFollow'
    BY <2>1, ServiceKept DEF ToolInv, StagesTell, TriesFollow
  <2> QED BY <2>1, <2>2, ServiceKept DEF ToolInv
<1>2. CASE \E e \in Execution : Misuse(e)
  BY <1>2, MisuseStep
<1>3. CASE \E e \in Execution : Send(e)
  BY <1>3, SendStep
<1>4. CASE \E e \in Execution : Tell(e)
  BY <1>4, TellStep
<1>5. CASE \E e \in Read : ServeRead(e)
  BY <1>5, ServeReadStep
<1>6. CASE Serve
  BY <1>6, ServeStep
<1>7. CASE \E c \in Call : Abandon(c)
  BY <1>7, AbandonStep
<1> QED BY <1>1, <1>2, <1>3, <1>4, <1>5, <1>6, <1>7 DEF ToolNext

\* Another try that took effect left the receipt of the intent, and no call
\* that finds it changes a table or is refused.
LEMMA OnceStep ==
  ASSUME ToolInv, ToolNext,
         NEW c \in Call, NEW d \in Call, request[c] = request[d], c \in effective, Answered(d)
  PROVE  d \notin effective' /\ result'[d].code \notin Refusals
<1>1. Serve
  BY DEF ToolNext, Misuse, Send, Tell, Abandon, ServeRead, Answered, serviceVars
<1>2. PICK w \in Call : Serves(w)
  BY <1>1, ServeCases DEF ServesNone, Answered
<1>3. d = w /\ Waiting(d) /\ Outcome(d)
  BY <1>2 DEF Serves, Answered
<1>4. /\ Admitted(d) <=> Admitted(c)
      /\ Matching(d) = Matching(c) /\ Intent(d) = Intent(c)
  BY DEF Admitted, Authorized, Matching, Family, Intent, IsCreate, Op
<1>5. Admitted(d) /\ \E r \in Matching(d) : r.intent = Intent(d)
  BY <1>4 DEF ToolInv, EffectsLeaveReceipts
<1>6. \A r, s \in Matching(d) : r = s
  BY DEF Matching, ToolInv, ServiceInv, ReceiptsSound
<1>7. UNCHANGED <<members, receipts>> /\ result'[d].code \notin Refusals
  BY <1>3, <1>5, <1>6 DEF Outcome, Refusals
<1>8. d \notin effective
  BY <1>3 DEF ToolInv, EffectsLeaveReceipts
<1> QED BY <1>2, <1>7, <1>8 DEF Serves

\* However many tries of an intent are under way, abandoned or not, and
\* whichever is executed first: one takes effect at most, and after it none is
\* refused.  A retry is safe even while the try before it is still running.
THEOREM IntentsTakeEffectAtMostOnce == ToolSpec => IntentsTakeEffectOnce
<1>1. ToolInit => ToolInv
  BY ToolStart
<1>2. ToolInv /\ [ToolNext]_agentVars => ToolInv'
  BY ToolStep
<1>3. ToolInv /\ [ToolNext]_agentVars
        => [\A c, d \in Call :
              Answered(d) /\ c \in effective /\ c # d /\ request[c] = request[d]
                => d \notin effective' /\ result'[d].code \notin Refusals]_agentVars
  BY OnceStep
<1> QED BY <1>1, <1>2, <1>3, PTL DEF ToolSpec, IntentsTakeEffectOnce

-----------------------------------------------------------------------------
(* Under their own cause: what a reply says of the answer it stands for. *)

ErrorsOf(c) ==
  IF IsCreate(c) THEN CreateOrganizationError
  ELSE IF Op(c) = "add_member" THEN AddMemberError ELSE RemoveMemberError

\* What is refused is refused with an error of the operation's contract.
RefusalsInContract ==
  \A c \in Call :
    result[c].code \in Refusals => CodeOf(c, result[c].code) \in DomainErrors[Op(c)]

\* Tell, as a function of the answer.
ReplyTo(e, a) ==
  IF a.kind = "response" THEN Success(a.id)
  ELSE IF a.kind = "domain" THEN MapError(ToolOf(e), a) ELSE RuntimeFailure

\* An execution that was sent carries its call's result, then its reply.
AnswersPassOn ==
  \A c \in Call :
    /\ stage[c] = "answered" => answer[c] = AnswerOf(c, result[c])
    /\ stage[c] = "replied" /\ fault[c] = "none"
         => reply[c] = ReplyTo(c, AnswerOf(c, result[c]))

LEMMA ErrorsAreContracts ==
  ASSUME TablesTypeOK, NEW c \in Call
  PROVE  ErrorsOf(c) = DomainErrors[Op(c)]
<1>1. Op(c) \in {"create_organization", "add_member", "remove_member"}
  BY IntentType DEF TablesTypeOK, IsCreate
<1>2. /\ DomainErrors["create_organization"] = CreateOrganizationError
      /\ DomainErrors["add_member"] = AddMemberError
      /\ DomainErrors["remove_member"] = RemoveMemberError
  BY DEF DomainErrors
<1> QED BY <1>1, <1>2 DEF ErrorsOf, IsCreate

LEMMA ContractSteps ==
  ASSUME TablesTypeOK, RefusalsInContract, ServiceNext
  PROVE  RefusalsInContract'
<1>1. request' = request
  BY CallStep
<1>2. \A c \in Call : /\ \A code : CodeOf(c, code)' = CodeOf(c, code)
                      /\ DomainErrors[Op(c)]' = DomainErrors[Op(c)]
                      /\ ErrorsOf(c) = DomainErrors[Op(c)]
  BY <1>1, ErrorsAreContracts DEF CodeOf, DomainErrors, IsCreate, Op
<1>3. ASSUME NEW c \in Call, NEW r, Answer(c, r),
             r.code \in Refusals => CodeOf(c, r.code) \in ErrorsOf(c)
      PROVE  RefusalsInContract'
  BY <1>2, <1>3 DEF Answer, RefusalsInContract, TablesTypeOK
<1>4. ASSUME NEW c \in Call,
             \/ AnswerForbidden(c) \/ AnswerInvalid(c) \/ AnswerKeyConflict(c)
             \/ AnswerSlugConflict(c) \/ AnswerOrganizationNotFound(c)
             \/ AnswerMembershipNotFound(c) \/ AnswerOwnerProtected(c)
      PROVE  \E e : Answer(c, Refused(e)) /\ CodeOf(c, e) \in ErrorsOf(c)
  <2>1. ~IsCreate(c) <=> Op(c) \in {"add_member", "remove_member"}
    BY IntentType DEF TablesTypeOK
  <2>2. CASE AnswerForbidden(c)
    <3>1. CodeOf(c, "forbidden") \in ErrorsOf(c)
      BY DEF CodeOf, ErrorsOf, CreateOrganizationError, AddMemberError, RemoveMemberError
    <3> QED BY <2>2, <3>1 DEF AnswerForbidden, Refuse
  <2>3. CASE AnswerInvalid(c)
    <3>1. CodeOf(c, "invalid") \in ErrorsOf(c)
      BY DEF CodeOf, ErrorsOf, CreateOrganizationError, AddMemberError, RemoveMemberError
    <3> QED BY <2>3, <3>1 DEF AnswerInvalid, Refuse
  <2>4. CASE AnswerKeyConflict(c)
    <3>1. CodeOf(c, "idempotency_conflict") \in ErrorsOf(c)
      BY DEF CodeOf, ErrorsOf, CreateOrganizationError, AddMemberError, RemoveMemberError
    <3> QED BY <2>4, <3>1 DEF AnswerKeyConflict, Refuse
  <2>5. CASE AnswerSlugConflict(c)
    <3>1. CodeOf(c, "slug_conflict") \in ErrorsOf(c)
      BY <2>5 DEF AnswerSlugConflict, CodeOf, ErrorsOf, CreateOrganizationError
    <3> QED BY <2>5, <3>1 DEF AnswerSlugConflict, Refuse
  <2>6. CASE AnswerOrganizationNotFound(c)
    <3>1. CodeOf(c, "organization_not_found") \in ErrorsOf(c)
      BY <2>6 DEF AnswerOrganizationNotFound, CodeOf, ErrorsOf, AddMemberError, RemoveMemberError
    <3> QED BY <2>6, <3>1 DEF AnswerOrganizationNotFound, Refuse
  <2>7. CASE AnswerMembershipNotFound(c)
    <3>1. CodeOf(c, "membership_not_found") \in ErrorsOf(c)
      BY <2>1, <2>7 DEF AnswerMembershipNotFound, CodeOf, ErrorsOf, RemoveMemberError
    <3> QED BY <2>7, <3>1 DEF AnswerMembershipNotFound, Refuse
  <2>8. CASE AnswerOwnerProtected(c)
    <3>1. CodeOf(c, "owner_protected") \in ErrorsOf(c)
      BY <2>1, <2>8 DEF AnswerOwnerProtected, CodeOf, ErrorsOf, RemoveMemberError
    <3> QED BY <2>8, <3>1 DEF AnswerOwnerProtected, Refuse
  <2> QED BY <1>4, <2>2, <2>3, <2>4, <2>5, <2>6, <2>7, <2>8
<1>5. \A e : Refused(e).code = e
  BY DEF Refused
<1>6. ASSUME NEW c \in Call,
             \/ Create(c) \/ AddNew(c) \/ AddExisting(c) \/ Remove(c)
             \/ AnswerReplay(c) \/ AnswerFailure(c)
      PROVE  \E r : Answer(c, r) /\ r.code \notin Refusals
  <2>1. "ok" \notin Refusals /\ "runtime_failure" \notin Refusals
    BY DEF Refusals
  <2>2. \A b, j, n : Done(b, j, n).code = "ok" /\ Failed.code = "runtime_failure"
    BY DEF Done, Failed
  <2>3. (\E b, j, n : Confirm(c, Done(b, j, n))) \/ Answer(c, Failed)
    BY <1>6 DEF Create, AddNew, AddExisting, Remove, AnswerReplay, AnswerFailure
  <2> QED BY <2>1, <2>2, <2>3 DEF Confirm
<1>7. CASE \E o \in Call : ArchiveOrg(o)
  BY <1>2, <1>7 DEF ArchiveOrg, RefusalsInContract
<1> QED BY <1>3, <1>4, <1>5, <1>6, <1>7 DEF ServiceNext

\* The names the operators depend on are chosen at the start.
LEMMA ChosenKept ==
  ASSUME ToolInv, [ToolNext]_agentVars
  PROVE  /\ UNCHANGED <<request, reading, forgotten, fault>>
         /\ \A c \in Call : \A r : AnswerOf(c, r)' = AnswerOf(c, r)
         /\ \A e \in Execution : \A a : ReplyTo(e, a)' = ReplyTo(e, a)
<1>1. UNCHANGED <<request, reading, forgotten, fault>>
  <2>1. CASE Serve
    BY <2>1, CallStep DEF Serve, ToolInv, ServiceInv, RowInv
  <2>2. CASE ~Serve
    BY <2>2 DEF ToolNext, Misuse, Send, Tell, Abandon, ServeRead, agentVars, serviceVars,
                toolVars
  <2> QED BY <2>1, <2>2
<1>2. \A e \in Execution : ToolOf(e)' = ToolOf(e) /\ (e \in Call => IsCreate(e)' = IsCreate(e))
  BY <1>1 DEF IsCreate, Op, ToolOf
<1>3. \A c \in Call : c \in Execution
  BY DEF Execution
<1> QED BY <1>1, <1>2, <1>3 DEF AnswerOf, CodeOf, Arrived, ReplyTo

LEMMA PassStep ==
  ASSUME ToolInv, AnswersPassOn, [ToolNext]_agentVars
  PROVE  AnswersPassOn'
<1>1. \A c \in Call : c \in Execution
  BY DEF Execution
<1>2. /\ fault' = fault
      /\ \A c \in Call : \A r : /\ AnswerOf(c, r)' = AnswerOf(c, r)
                                /\ ReplyTo(c, r)' = ReplyTo(c, r)
  BY <1>1, ChosenKept
<1>3. CASE Serve
  <2>1. reply' = reply
    BY <1>3 DEF Serve
  <2>2. CASE ServesNone
    BY <1>2, <2>1, <2>2 DEF ServesNone, AnswersPassOn
  <2>3. ASSUME NEW w \in Call, Serves(w)
        PROVE  AnswersPassOn'
    BY <1>2, <2>1, <2>3 DEF Serves, AnswersPassOn
  <2> QED BY <1>3, <2>2, <2>3, ServeCases
<1>4. ASSUME UNCHANGED <<serviceVars, fault>>,
             NEW e \in Execution,
             \A x \in Execution \ {e} :
               stage'[x] = stage[x] /\ answer'[x] = answer[x] /\ reply'[x] = reply[x],
             e \in Call =>
               \/ stage'[e] \in {"sent", "abandoned"}
               \/ stage'[e] = "replied" /\ fault[e] # "none"
               \/ /\ stage[e] = "answered" /\ stage'[e] = "replied"
                  /\ reply'[e] = ReplyTo(e, answer[e])
      PROVE  AnswersPassOn'
  <2>1. result' = result
    BY <1>4 DEF serviceVars
  <2> QED BY <1>1, <1>2, <1>4, <2>1 DEF AnswersPassOn
<1>5. ASSUME NEW e \in Execution, Misuse(e)
      PROVE  AnswersPassOn'
  BY <1>4, <1>5 DEF Misuse, MayStart, ToolInv
<1>6. ASSUME NEW e \in Execution, Send(e)
      PROVE  AnswersPassOn'
  BY <1>4, <1>6 DEF Send, ToolInv
<1>7. ASSUME NEW e \in Execution, Tell(e)
      PROVE  AnswersPassOn'
  BY <1>4, <1>7 DEF Tell, ReplyTo, ToolInv
<1>8. ASSUME NEW e \in Read, ServeRead(e)
      PROVE  AnswersPassOn'
  <2>1. e \in Execution /\ e \notin Call
    BY ReadAssumption DEF Execution
  <2>2. /\ UNCHANGED <<serviceVars, fault, reply>>
        /\ stage' = [stage EXCEPT ![e] = "answered"]
        /\ \E a : answer' = [answer EXCEPT ![e] = a]
    BY <1>8 DEF ServeRead
  <2> QED BY <1>4, <2>1, <2>2 DEF ToolInv
<1>9. CASE UNCHANGED agentVars
  <2>1. UNCHANGED <<result, stage, answer, reply>>
    BY <1>9 DEF agentVars, toolVars, serviceVars
  <2> QED BY <1>2, <2>1 DEF AnswersPassOn
<1>10. ASSUME NEW c \in Call, Abandon(c)
       PROVE  AnswersPassOn'
  BY <1>1, <1>4, <1>10 DEF Abandon, ToolInv
<1> QED BY <1>3, <1>5, <1>6, <1>7, <1>8, <1>9, <1>10 DEF ToolNext

\* Each mapping, case by case over the errors of its contract.
LEMMA CausesOfErrors ==
  ASSUME TablesTypeOK, RefusalsInContract, NEW c \in Call, result[c].code \in Refusals,
         NEW r, r = MapError(ToolOf(c), Arrived(CodeOf(c, result[c].code)))
  PROVE  /\ r.kind = "error"
         /\ CASE r.code = "permission_denied" -> result[c].code = "forbidden"
              [] r.code = "invalid_arguments" -> result[c].code = "invalid"
              [] r.code = "not_found" ->
                   result[c].code \in {"organization_not_found", "membership_not_found"}
              [] r.code = "unknown_domain_error" -> CodeOf(c, result[c].code) \in forgotten
              [] OTHER -> r.code = result[c].code
<1> DEFINE code == CodeOf(c, result[c].code)
           v == Arrived(code)
<1>1. v.code = code /\ (v.known <=> code \notin forgotten)
  BY DEF Arrived
<1>2. \A k : ToolError(k).code = k /\ rejected(k).code = k
  BY DEF ToolError, rejected
<1>3. /\ code \in ErrorsOf(c)
      /\ IF result[c].code = "invalid" THEN code \in {"invalid_organization", "invalid_request"}
                                       ELSE code = result[c].code
      /\ result[c].code \notin {"invalid_organization", "invalid_request"}
  BY ErrorsAreContracts DEF RefusalsInContract, CodeOf, Refusals
<1>4. ToolOf(c) = Op(c) /\ Op(c) \in {"create_organization", "add_member", "remove_member"}
  BY IntentType DEF ToolOf, TablesTypeOK, IsCreate
<1>5. r.kind = "error"
  BY MappedErrors
<1> HIDE DEF code, v
<1>6. \/ r.code = "unknown_domain_error" /\ code \in forgotten
      \/ r.code = "permission_denied" /\ code = "forbidden"
      \/ r.code = "invalid_arguments" /\ code \in {"invalid_organization", "invalid_request"}
      \/ r.code = "not_found" /\ code \in {"organization_not_found", "membership_not_found"}
      \/ r.code = code /\ code \in {"idempotency_conflict", "slug_conflict", "owner_protected"}
  <2>1. CASE Op(c) = "create_organization"
    <3>1. r = map_create_organization_error(v)
      BY <1>4, <2>1 DEF MapError, v, code
    <3>2. code \in {"forbidden", "idempotency_conflict", "invalid_organization", "slug_conflict"}
      BY <1>3, <2>1 DEF ErrorsOf, CreateOrganizationError, IsCreate
    <3> QED BY <1>1, <1>2, <3>1, <3>2 DEF map_create_organization_error
  <2>2. CASE Op(c) = "add_member"
    <3>1. r = map_add_member_error(v)
      BY <1>4, <2>2 DEF MapError, v, code
    <3>2. code \in {"forbidden", "idempotency_conflict", "invalid_request", "organization_not_found"}
      BY <1>3, <2>2 DEF ErrorsOf, AddMemberError, IsCreate
    <3> QED BY <1>1, <1>2, <3>1, <3>2 DEF map_add_member_error, map_get_organization_error
  <2>3. CASE Op(c) = "remove_member"
    <3>1. r = map_remove_member_error(v)
      BY <1>4, <2>3 DEF MapError, v, code
    <3>2. code \in {"forbidden", "idempotency_conflict", "invalid_request",
                    "organization_not_found", "membership_not_found", "owner_protected"}
      BY <1>3, <2>3 DEF ErrorsOf, AddMemberError, RemoveMemberError, IsCreate
    <3> QED BY <1>1, <1>2, <3>1, <3>2
            DEF map_remove_member_error, map_add_member_error, map_get_organization_error
  <2> QED BY <1>4, <2>1, <2>2, <2>3
<1>7. code = CodeOf(c, result[c].code)
  BY DEF code
<1> QED BY <1>3, <1>5, <1>6, <1>7

LEMMA CausesFollow ==
  ASSUME ToolInv, RefusalsInContract, AnswersPassOn
  PROVE  CausesAreTrue
<1> SUFFICES ASSUME NEW c \in Call, stage[c] = "replied", result[c].code \in Refusals
             PROVE  reply[c] = MapError(ToolOf(c), Arrived(CodeOf(c, result[c].code)))
  BY CausesOfErrors DEF CausesAreTrue, ToolInv, ServiceInv, RowInv
<1>1. fault[c] = "none"
  BY Codes DEF ToolInv, StagesTell, Waiting, Refusals
<1>2. AnswerOf(c, result[c]) = Arrived(CodeOf(c, result[c].code))
  BY DEF AnswerOf, Refusals
<1>3. reply[c] = ReplyTo(c, Arrived(CodeOf(c, result[c].code)))
  BY <1>1, <1>2 DEF AnswersPassOn
<1> QED BY <1>3, Shapes DEF ReplyTo

LEMMA CauseStart == ASSUME ToolInit PROVE RefusalsInContract /\ AnswersPassOn
<1>1. \A c \in Call : result[c] = Pending /\ c \in Execution /\ stage[c] = "asked"
  BY DEF ToolInit, TablesInit, Execution
<1> QED BY <1>1 DEF RefusalsInContract, AnswersPassOn, Pending, Refusals

LEMMA ContractStep ==
  ASSUME ToolInv, RefusalsInContract, [ToolNext]_agentVars
  PROVE  RefusalsInContract'
<1>1. CASE Serve
  BY <1>1, ContractSteps DEF Serve, ToolInv, ServiceInv, RowInv
<1>2. CASE ~Serve
  <2>1. UNCHANGED <<request, result>>
    BY <1>2 DEF ToolNext, Misuse, Send, Tell, Abandon, ServeRead, agentVars, serviceVars
  <2> QED BY <2>1 DEF RefusalsInContract, CodeOf, DomainErrors, IsCreate, Op
<1> QED BY <1>1, <1>2

LEMMA CauseInvCorrect ==
  ToolSpec => [](ToolInv /\ RefusalsInContract /\ AnswersPassOn)
<1>1. ToolInit => ToolInv /\ RefusalsInContract /\ AnswersPassOn
  BY ToolStart, CauseStart
<1>2. ToolInv /\ RefusalsInContract /\ AnswersPassOn /\ [ToolNext]_agentVars
        => (ToolInv /\ RefusalsInContract /\ AnswersPassOn)'
  BY ToolStep, ContractStep, PassStep
<1> QED BY <1>1, <1>2, PTL DEF ToolSpec

\* The Tools tell every refusal as an error, and under its own cause: the
\* six error mappings of the adapter confuse none with another, and blame a
\* code they do not know on nothing else.
THEOREM ToolCausesAreTrue == ToolSpec => []CausesAreTrue
<1>1. ToolInv /\ RefusalsInContract /\ AnswersPassOn => CausesAreTrue
  BY CausesFollow
<1> QED BY <1>1, CauseInvCorrect, PTL

\* What an Organization Plugin refuses, it refuses with a Domain Error that the
\* contract of the operation knows.
THEOREM RefusalsKeepContract == ToolSpec => []RefusalsInContract
<1> QED BY CauseInvCorrect, PTL

-----------------------------------------------------------------------------
(* What an error says of an intent, for good. *)

\* Why a call is refused, in terms that no later step undoes.
Why(code, d) ==
  /\ code \in {"forbidden", "invalid"} => ~Admitted(d)
  /\ code = "idempotency_conflict" => \E r \in Matching(d) : r.intent # Intent(d)
  /\ code = "owner_protected" =>
       /\ Op(d) = "remove_member"
       /\ \E m \in members :
            m.owner /\ m.org = request[d].intent.org /\ m.subject = request[d].intent.subject

CausesStand == \A d \in Call : Why(result[d].code, d)

\* A removal records the revision it made, never the first.
RemovalsRevise == \A r \in receipts : r.intent.op = "remove_member" => r.revision >= 2

StandInv == ToolInv /\ CausesStand /\ RemovalsRevise /\ OwnersAlone

LEMMA WhyAnswered ==
  ASSUME TablesTypeOK, ServiceNext, NEW d \in Call, result'[d] # result[d]
  PROVE  Why(result'[d].code, d)
<1>1. ASSUME NEW c \in Call, NEW e \in Refusals, Refuse(c, e)
      PROVE  d = c /\ result'[d].code = e
  BY <1>1 DEF Refuse, Answer, Refused, TablesTypeOK
<1>2. ASSUME NEW c \in Call, AnswerForbidden(c) \/ AnswerInvalid(c)
      PROVE  Why(result'[d].code, d)
  BY <1>1, <1>2 DEF AnswerForbidden, AnswerInvalid, Admitted, Refusals, Why
<1>3. ASSUME NEW c \in Call, AnswerKeyConflict(c)
      PROVE  Why(result'[d].code, d)
  BY <1>1, <1>3 DEF AnswerKeyConflict, Refusals, Why
<1>4. ASSUME NEW c \in Call, AnswerOwnerProtected(c)
      PROVE  Why(result'[d].code, d)
  BY <1>1, <1>4 DEF AnswerOwnerProtected, Found, ActiveMembers, Refusals, Why
<1>5. ASSUME NEW c \in Call,
             \/ AnswerSlugConflict(c) \/ AnswerOrganizationNotFound(c)
             \/ AnswerMembershipNotFound(c)
      PROVE  Why(result'[d].code, d)
  BY <1>1, <1>5 DEF AnswerSlugConflict, AnswerOrganizationNotFound, AnswerMembershipNotFound,
       Refusals, Why
<1>6. ASSUME NEW c \in Call,
             \/ Create(c) \/ AddNew(c) \/ AddExisting(c) \/ Remove(c)
             \/ AnswerReplay(c) \/ AnswerFailure(c)
      PROVE  Why(result'[d].code, d)
  <2>1. \E r : Answer(c, r)
    BY <1>6 DEF Create, AddNew, AddExisting, Remove, AnswerReplay, AnswerFailure, Confirm
  <2>2. d = c
    BY <2>1 DEF Answer, TablesTypeOK
  <2>3. result'[d].code \in {"ok", "runtime_failure"}
    BY <1>6, <2>2, ConfirmCodes, Codes
       DEF Create, AddNew, AddExisting, Remove, AnswerReplay, AnswerFailure, Answer, TablesTypeOK
  <2> QED BY <2>3 DEF Why
<1>7. ASSUME NEW o \in Call, ArchiveOrg(o)
      PROVE  FALSE
  BY <1>7 DEF ArchiveOrg
<1> QED BY <1>2, <1>3, <1>4, <1>5, <1>6, <1>7 DEF ServiceNext

\* What was given as a cause is still there: intents are not exchanged,
\* receipts stay, an owner stays its Organization's owner.
LEMMA WhyStep ==
  ASSUME RowInv, CausesStand, [ServiceNext]_serviceVars
  PROVE  CausesStand'
<1>1. request' = request /\ TablesTypeOK
  BY CallStep DEF RowInv, serviceVars
<1>2. \A d \in Call : Why(result'[d].code, d)
  BY <1>1, WhyAnswered DEF CausesStand, serviceVars
<1>3. /\ \A m \in members : \E n \in members' : Follows(n, m)
      /\ receipts \subseteq receipts'
  BY RowsFollow
<1>4. \A d \in Call : /\ Admitted(d)' <=> Admitted(d)
                      /\ Intent(d)' = Intent(d) /\ Matching(d) \subseteq Matching(d)'
                      /\ Op(d)' = Op(d)
  BY <1>1, <1>3 DEF Admitted, Authorized, Matching, Family, Intent, IsCreate, Op
<1>5. ASSUME NEW d \in Call
      PROVE  Why(result[d].code, d)'
  <2>1. ASSUME NEW m \in members,
               m.owner /\ m.org = request[d].intent.org /\ m.subject = request[d].intent.subject
        PROVE  \E n \in members' : /\ n.owner /\ n.org = request'[d].intent.org
                                   /\ n.subject = request'[d].intent.subject
    BY <1>1, <1>3, <2>1 DEF Follows
  <2> QED BY <1>2, <1>4, <2>1 DEF Why
<1> QED BY <1>5 DEF CausesStand

LEMMA RevisedStep ==
  ASSUME RowInv, RemovalsRevise, [ServiceNext]_serviceVars
  PROVE  RemovalsRevise'
<1>1. TablesTypeOK /\ request \in [Call -> Request]
  BY DEF RowInv, TablesTypeOK
<1>2. ASSUME NEW c \in Call, NEW i, NEW n, receipts' = receipts \cup {ReceiptOf(c, i, n)},
             Op(c) # "remove_member" \/ n >= 2
      PROVE  RemovalsRevise'
  BY <1>1, <1>2, ReceiptFields, IntentFields DEF RemovalsRevise
<1>3. ASSUME NEW c \in Call, Create(c) \/ AddNew(c) \/ AddExisting(c)
      PROVE  RemovalsRevise'
  BY <1>2, <1>3 DEF Create, AddNew, AddExisting, IsCreate
<1>4. ASSUME NEW c \in Call, Remove(c)
      PROVE  RemovalsRevise'
  <2>1. PICK m \in Found(c) : receipts' = receipts \cup {ReceiptOf(c, m.id, m.revision + 1)}
    BY <1>4 DEF Remove
  <2>2. m.revision \in Nat \ {0}
    BY <1>1 DEF Found, ActiveMembers, TablesTypeOK, Member
  <2>3. m.revision + 1 >= 2
    BY <2>2
  <2> QED BY <1>2, <2>1, <2>3
<1>5. ASSUME receipts' = receipts
      PROVE  RemovalsRevise'
  BY <1>5 DEF RemovalsRevise
<1> QED BY <1>1, <1>3, <1>4, <1>5, StepKinds DEF Answers, ArchiveOrg, serviceVars

LEMMA StandStep ==
  ASSUME StandInv, [ToolNext]_agentVars
  PROVE  StandInv'
<1>1. [ServiceNext]_serviceVars
  BY DEF ToolNext, Misuse, Send, Tell, Abandon, ServeRead, Serve, agentVars
<1>2. RowInv
  BY DEF StandInv, ToolInv, ServiceInv
<1> QED BY <1>1, <1>2, ToolStep, WhyStep, RevisedStep, OwnersAloneStep DEF StandInv

\* No call of an intent takes effect, before or after another was refused for
\* such a cause: it would have left a receipt, of a row the cause rules out.
LEMMA StandingFollows ==
  ASSUME StandInv, NEW c \in Call, NEW d \in Call, request[c] = request[d], c \in effective
  PROVE  result[d].code \notin
           {"forbidden", "invalid", "idempotency_conflict", "owner_protected"}
<1>1. /\ Admitted(d) <=> Admitted(c)
      /\ Matching(d) = Matching(c) /\ Intent(d) = Intent(c)
  BY DEF Admitted, Authorized, Matching, Family, Intent, IsCreate, Op
<1>2. Admitted(d)
  BY <1>1 DEF StandInv, ToolInv, EffectsLeaveReceipts
<1>3. PICK r \in Matching(d) : r.intent = Intent(d)
  BY <1>1 DEF StandInv, ToolInv, EffectsLeaveReceipts
<1>4. \A s \in Matching(d) : s = r
  BY DEF Matching, StandInv, ToolInv, ServiceInv, ReceiptsSound
<1>5. Why(result[d].code, d)
  BY DEF StandInv, CausesStand
<1>6. CASE result[d].code = "owner_protected"
  <2>1. PICK m \in members :
          m.owner /\ m.org = request[d].intent.org /\ m.subject = request[d].intent.subject
    BY <1>5, <1>6 DEF Why
  <2>2. Op(d) = "remove_member" /\ ~IsCreate(d)
    BY <1>5, <1>6 DEF Why, IsCreate
  <2>3. RowInv /\ request \in [Call -> Request]
    BY DEF StandInv, ToolInv, ServiceInv, RowInv, TablesTypeOK
  <2>4. /\ Intent(d).op = "remove_member" /\ Intent(d).org = m.org
        /\ Intent(d).subject = m.subject
    BY <2>1, <2>2, <2>3, IntentFields
  <2>5. r \in receipts /\ r.family = "membership"
    BY <2>2 DEF Matching, Family
  <2>6. PICK n \in members : /\ n.id = r.id /\ r.revision \in 1..n.revision
                            /\ n.subject = m.subject /\ n.org = m.org
    BY <1>3, <2>4, <2>5 DEF StandInv, ToolInv, ServiceInv, ReceiptsSound
  <2>7. n = m /\ m.active
    BY <2>1, <2>3, <2>6, OwnersActive DEF StandInv, OwnersAlone
  <2>8. m.revision = 1
    BY <2>3, <2>7 DEF RowInv, RevisionTellsState
  <2>9. r.revision >= 2
    BY <1>3, <2>4, <2>5 DEF StandInv, RemovalsRevise
  <2> QED BY <2>6, <2>7, <2>8, <2>9
<1> QED BY <1>2, <1>3, <1>4, <1>5, <1>6 DEF Why

\* An error was told before anything was invoked, or is a refusal's.
LEMMA ErrorsFollow ==
  ASSUME StandInv, CausesAreTrue
  PROVE  ErrorsMeanNothingDone
<1> SUFFICES ASSUME NEW d \in Call, reply[d].kind = "error",
                    NEW c \in Earlier[d] \cup {d}, c \in effective
             PROVE  stage[c] = "abandoned" /\ reply[d].code \notin Standing
  BY DEF ErrorsMeanNothingDone
<1>1. c \in Call /\ request[c] = request[d] /\ fault[c] = fault[d] /\ fault[d] = "none"
  BY EarlierAssumption DEF StandInv, ToolInv, TriesFollow, StagesTell, EffectsLeaveReceipts
<1>2. result[d].code \in Refusals
  BY <1>1 DEF StandInv, ToolInv, StagesTell
<1>3. stage[d] = "replied"
  BY Shapes DEF StandInv, ToolInv, StagesTell, Stages, Execution
<1>4. stage[c] = "abandoned"
  BY <1>2 DEF StandInv, ToolInv, RefusalsMeanNothingDone
<1>5. reply[d].code \in Standing
        => result[d].code \in {"forbidden", "invalid", "idempotency_conflict", "owner_protected"}
  BY <1>2, <1>3 DEF CausesAreTrue, Standing
<1> QED BY <1>1, <1>4, <1>5, StandingFollows

\* However many Agents, executions and retries: a Tool that replies an error
\* to a mutation (MapError's, or of a name or arguments it does not accept)
\* has not changed a table, and neither has an earlier try of the intent, unless
\* it was abandoned under way and the error is of a cause that can pass.
THEOREM ToolErrorsMeanNothingDone == ToolSpec => []ErrorsMeanNothingDone
<1>1. ToolInit => StandInv
  <2> SUFFICES ASSUME ToolInit PROVE StandInv
    OBVIOUS
  <2>1. receipts = {} /\ members = {} /\ \A d \in Call : result[d].code = "pending"
    BY Codes DEF ToolInit, TablesInit
  <2> QED BY <2>1, ToolStart DEF StandInv, CausesStand, Why, RemovalsRevise, OwnersAlone
<1>2. StandInv /\ [ToolNext]_agentVars => StandInv'
  BY StandStep
<1>3. StandInv /\ CausesAreTrue => ErrorsMeanNothingDone
  BY ErrorsFollow
<1> QED BY <1>1, <1>2, <1>3, ToolCausesAreTrue, PTL DEF ToolSpec

-----------------------------------------------------------------------------
(* What an Agent was told of can be found. *)

OrgIds == {g.id : g \in orgs}

\* Organizations that answers and replies name, and that executions have been
\* told of, are in the table.
NamedExist ==
  /\ DOMAIN told = Execution
  /\ \A x \in Execution :
       answer[x].id \subseteq OrgIds /\ reply[x].id \subseteq OrgIds /\ told[x] \subseteq OrgIds

\* A read that is answered not_found looked for an Organization it had not
\* been told of; only reads that are sent have been told of any.
MissesAreNew ==
  \A e \in Read :
    /\ reading[e] \in Reading
    /\ stage[e] = "asked" \/ fault[e] # "none" => told[e] = {}
    /\ fault[e] # "none" => stage[e] \in {"asked", "replied"}
    /\ stage[e] # "replied" => reply[e] = NoReply
    /\ stage[e] = "answered" /\ ReplyTo(e, answer[e]).code = "not_found"
         => reading[e].org \notin told[e]
    /\ reply[e].code = "not_found" => reading[e].org \notin told[e]

LEMMA FoundStart == ASSUME ToolInit PROVE NamedExist /\ MissesAreNew
<1>1. /\ DOMAIN told = Execution
      /\ \A x \in Execution : /\ stage[x] = "asked" /\ answer[x] = NoAnswer
                              /\ reply[x] = NoReply /\ told[x] = {}
  BY DEF ToolInit
<1>2. NoAnswer.id = {} /\ NoReply.id = {} /\ NoReply.code = "none"
  BY DEF NoAnswer, NoReply
<1>3. \A e \in Read : e \in Execution /\ reading[e] \in Reading
  BY DEF Execution, ToolInit
<1> QED BY <1>1, <1>2, <1>3 DEF NamedExist, MissesAreNew

\* No Organization is ever deleted.
LEMMA OrgIdsKept ==
  ASSUME TablesTypeOK, [ServiceNext]_serviceVars
  PROVE  OrgIds \subseteq OrgIds'
<1>1. CASE ServiceNext
  <2>1. ASSUME NEW o \in Call, ArchiveOrg(o) PROVE OrgIds \subseteq OrgIds'
    <3>1. PICK g \in orgs : orgs' = (orgs \ {g}) \cup {ArchivedOrg(g)}
      BY <2>1 DEF ArchiveOrg
    <3> QED BY <3>1, ArchivedType DEF OrgIds, TablesTypeOK
  <2>2. (\A o \in Call : ~ArchiveOrg(o)) => orgs \subseteq orgs'
    BY <1>1, StepKinds DEF Answers, Create, AddNew, AddExisting, Remove
  <2> QED BY <2>1, <2>2 DEF OrgIds
<1>2. CASE UNCHANGED serviceVars
  BY <1>2 DEF serviceVars, OrgIds
<1> QED BY <1>1, <1>2

\* A confirmed creation's receipt tells that its Organization is in the table.
LEMMA ConfirmedExist ==
  ASSUME ServiceInv, NEW c \in Call, IsCreate(c), result[c].code = "ok"
  PROVE  result[c].id \in OrgIds
<1>1. PICK r \in receipts : r = ReceiptOf(c, result[c].id, result[c].revision)
  BY DEF ServiceInv, ConfirmedIsDurable, Confirmed
<1>2. r.id = result[c].id /\ r.family = "creation"
  BY <1>1 DEF ReceiptOf, Family
<1> QED BY <1>1, <1>2 DEF ServiceInv, ReceiptsSound, OrgIds

LEMMA AnswersName ==
  ASSUME ServiceInv, NEW c \in Call
  PROVE  AnswerOf(c, result[c]).id \subseteq OrgIds
<1>1. /\ \A i : Ok(i).id = i
      /\ Failure.id = {} /\ \A code : Arrived(code).id = {}
  BY DEF Ok, Failure, Arrived
<1> QED BY <1>1, ConfirmedExist DEF AnswerOf

LEMMA AnswersNameNext ==
  (ServiceInv => \A c \in Call : AnswerOf(c, result[c]).id \subseteq OrgIds)'
<1>1. ServiceInv => \A c \in Call : AnswerOf(c, result[c]).id \subseteq OrgIds
  BY AnswersName
<1> QED BY <1>1, PTL

LEMMA RepliesName ==
  ASSUME NEW e, NEW a
  PROVE  ReplyTo(e, a).id \in {{}, a.id}
<1>1. /\ \A code : ToolError(code).id = {} /\ rejected(code).id = {}
      /\ RuntimeFailure.id = {} /\ Success(a.id).id = a.id
  BY DEF ToolError, rejected, RuntimeFailure, Success
<1>2. MapError(ToolOf(e), a).id = {}
  BY <1>1 DEF MapError, map_get_organization_error, map_list_organizations_error,
              map_create_organization_error, map_list_members_error, map_add_member_error,
              map_remove_member_error
<1> QED BY <1>1, <1>2 DEF ReplyTo

LEMMA NamedStep ==
  ASSUME ToolInv, NamedExist, [ToolNext]_agentVars
  PROVE  NamedExist'
<1>1. OrgIds \subseteq OrgIds' /\ ServiceInv'
  <2>1. [ServiceNext]_serviceVars
    BY DEF ToolNext, Misuse, Send, Tell, Abandon, ServeRead, Serve, agentVars
  <2> QED BY <2>1, OrgIdsKept, ServiceStep DEF ToolInv, ServiceInv, RowInv
<1>2. ASSUME NEW x \in Execution
      PROVE  /\ answer'[x].id \subseteq OrgIds'
             /\ reply'[x].id \subseteq OrgIds'
             /\ told'[x] \subseteq OrgIds'
  <2>1. CASE Serve
    <3>1. reply' = reply /\ told' = told
      BY <2>1 DEF Serve
    <3>2. answer'[x] = answer[x] \/ (x \in Call /\ answer'[x] = AnswerOf(x, result'[x]))
      BY <2>1 DEF Serve, Arrives
    <3>3. x \in Call => AnswerOf(x, result'[x]) = AnswerOf(x, result[x])'
      BY <2>1, CallStep DEF Serve, ToolInv, ServiceInv, RowInv, AnswerOf, IsCreate, Op, CodeOf,
                            Arrived
    <3>4. x \in Call => (AnswerOf(x, result[x]).id \subseteq OrgIds)'
      BY <1>1, AnswersNameNext
    <3> QED BY <1>1, <3>1, <3>2, <3>3, <3>4 DEF NamedExist
  <2>2. ASSUME NEW e \in Execution, Misuse(e) \/ Tell(e)
        PROVE  reply'[x].id \subseteq OrgIds' /\ answer' = answer /\ told' = told
    <3>1. reply'[x] = reply[x] \/ (\E code : reply'[x] = ToolError(code))
          \/ reply'[x] = ReplyTo(x, answer[x])
      BY <2>2 DEF Misuse, Tell, ToolInv, ReplyTo
    <3>2. \A code : ToolError(code).id = {}
      BY DEF ToolError
    <3> QED BY <1>1, <2>2, <3>1, <3>2, RepliesName DEF NamedExist, Misuse, Tell
  <2>3. ASSUME NEW e \in Execution, Send(e)
        PROVE  told'[x] \subseteq OrgIds' /\ UNCHANGED <<answer, reply>>
    BY <1>1, <2>3 DEF Send, NamedExist
  <2>4. ASSUME NEW e \in Read, ServeRead(e)
        PROVE  answer'[x].id \subseteq OrgIds' /\ UNCHANGED <<reply, told>>
    <3>1. answer'[x] = answer[x] \/ (\E code : answer'[x] = Arrived(code))
          \/ answer'[x] \in {Ok({}), Failure}
      BY <2>4 DEF ServeRead, ToolInv
    <3>2. Ok({}).id = {} /\ Failure.id = {} /\ \A code : Arrived(code).id = {}
      BY DEF Ok, Failure, Arrived
    <3> QED BY <1>1, <2>4, <3>1, <3>2 DEF ServeRead, NamedExist
  <2>5. CASE UNCHANGED agentVars
    BY <1>1, <2>5 DEF agentVars, toolVars, NamedExist
  <2>6. ASSUME NEW c \in Call, Abandon(c)
        PROVE  reply'[x].id \subseteq OrgIds' /\ UNCHANGED <<answer, told>>
    <3>1. reply'[x] \in {reply[x], RuntimeFailure} /\ RuntimeFailure.id = {}
      BY <2>6 DEF Abandon, ToolInv, RuntimeFailure
    <3> QED BY <1>1, <2>6, <3>1 DEF NamedExist, Abandon
  <2> QED BY <1>1, <2>1, <2>2, <2>3, <2>4, <2>5, <2>6 DEF ToolNext, NamedExist
<1>3. DOMAIN told' = Execution
  BY DEF NamedExist, ToolNext, Misuse, Send, Tell, Abandon, ServeRead, Serve, agentVars, toolVars
<1> QED BY <1>2, <1>3 DEF NamedExist

\* A Tool that reads replies not_found for a missing Organization only.
LEMMA NotFoundMeansMissing ==
  ASSUME NEW e \in Read, reading[e] \in Reading, NEW code \in ListRefusals,
         Refuses(reading[e], code), ReplyTo(e, Arrived(code)).code = "not_found"
  PROVE  GetAnswer(reading[e].org) = {}
<1>1. e \notin Call /\ Arrived(code).kind = "domain" /\ Arrived(code).code = code
  BY ReadAssumption DEF Arrived
<1>2. \A k : ToolError(k).code = k /\ rejected(k).code = k
  BY DEF ToolError, rejected
<1>3. reading[e].list # "workspaces"
  BY ReadingAssumption
<1>4. ReplyTo(e, Arrived(code)) = MapError(ToolOf(e), Arrived(code))
  BY <1>1 DEF ReplyTo
<1>5. PICK v : v = Arrived(code)
  OBVIOUS
<1>6. CASE reading[e].list = "organizations"
  <2>1. MapError(ToolOf(e), v) = map_list_organizations_error(v)
    BY <1>1, <1>6 DEF ToolOf, MapError
  <2> QED BY <1>2, <1>4, <1>5, <2>1 DEF map_list_organizations_error
<1>7. CASE reading[e].list = "members"
  <2>1. MapError(ToolOf(e), v) = map_list_members_error(v)
    BY <1>1, <1>7 DEF ToolOf, MapError
  <2>2. code = "organization_not_found"
    BY <1>1, <1>2, <1>4, <1>5, <2>1 DEF map_list_members_error, map_list_organizations_error
  <2> QED BY <1>7, <2>2 DEF Refuses, RefusesMembers
<1>8. CASE reading[e].list \notin {"organizations", "members", "workspaces"}
  <2>1. MapError(ToolOf(e), v) = map_get_organization_error(v)
    BY <1>1, <1>8 DEF ToolOf, MapError
  <2>2. code \notin {"forbidden", "invalid_request"}
    BY <1>1, <1>2, <1>4, <1>5, <2>1 DEF map_get_organization_error
  <2>3. reading[e].list = "organization" /\ RefusesGet(reading[e], code)
    BY <1>8 DEF Refuses
  <2> QED BY <2>2, <2>3 DEF RefusesGet
<1> QED BY <1>3, <1>6, <1>7, <1>8

LEMMA MissesStep ==
  ASSUME ToolInv, NamedExist, MissesAreNew, [ToolNext]_agentVars
  PROVE  MissesAreNew'
<1>1. /\ UNCHANGED <<reading, fault>>
      /\ \A e \in Read : \A a : ReplyTo(e, a)' = ReplyTo(e, a)
  BY ChosenKept DEF Execution
<1>2. SUFFICES ASSUME NEW e \in Read,
                      ~UNCHANGED <<stage[e], answer[e], reply[e], told[e]>>
               PROVE  /\ stage'[e] = "asked" \/ fault[e] # "none" => told'[e] = {}
                      /\ fault[e] # "none" => stage'[e] \in {"asked", "replied"}
                      /\ stage'[e] # "replied" => reply'[e] = NoReply
                      /\ stage'[e] = "answered" /\ ReplyTo(e, answer'[e]).code = "not_found"
                           => reading[e].org \notin told'[e]
                      /\ reply'[e].code = "not_found" => reading[e].org \notin told'[e]
  <2>1. ASSUME NEW e \in Read
        PROVE  /\ (UNCHANGED <<stage[e], answer[e], reply[e], told[e]>>
                   \/ ~UNCHANGED <<stage[e], answer[e], reply[e], told[e]>>)
               /\ ReplyTo(e, answer[e])' = ReplyTo(e, answer'[e])
    BY <1>1
  <2> QED BY <1>1, <2>1 DEF MissesAreNew
<1>3. e \in Execution /\ e \notin Call
  BY ReadAssumption DEF Execution
<1>4. CASE \E x \in Execution : Misuse(x)
  <2>1. Misuse(e)
    BY <1>2, <1>3, <1>4 DEF Misuse, ToolInv
  <2> QED BY <1>3, <2>1 DEF Misuse, MayStart, MissesAreNew, ToolInv
<1>5. CASE \E x \in Execution : Send(x)
  <2>1. Send(e)
    BY <1>2, <1>3, <1>5 DEF Send, ToolInv, NamedExist
  <2>2. NoReply.code = "none"
    BY DEF NoReply
  <2> QED BY <1>3, <2>1, <2>2 DEF Send, MayStart, MissesAreNew, ToolInv
<1>6. CASE \E x \in Execution : Tell(x)
  <2>1. Tell(e)
    BY <1>2, <1>3, <1>6 DEF Tell, ToolInv
  <2>2. reply'[e] = ReplyTo(e, answer[e])
    BY <1>3, <2>1 DEF Tell, ReplyTo, ToolInv
  <2> QED BY <1>3, <2>1, <2>2 DEF Tell, MissesAreNew, ToolInv
<1>7. CASE \E x \in Read : ServeRead(x)
  <2>1. ServeRead(e)
    BY <1>2, <1>3, <1>7 DEF ServeRead, ToolInv
  <2>2. ASSUME ReplyTo(e, answer'[e]).code = "not_found"
        PROVE  GetAnswer(reading[e].org) = {}
    <3>1. \/ \E code \in ListRefusals :
                Refuses(reading[e], code) /\ answer'[e] = Arrived(code)
          \/ answer'[e] \in {Ok({}), Failure}
      BY <1>3, <2>1 DEF ServeRead, ToolInv
    <3>2. /\ ReplyTo(e, Ok({})).code = "ok"
          /\ ReplyTo(e, Failure).code = "runtime_failure"
      BY Shapes DEF ReplyTo, Success, RuntimeFailure
    <3> QED BY <2>2, <3>1, <3>2, NotFoundMeansMissing DEF MissesAreNew
  <2>3. told[e] \subseteq OrgIds
    BY <1>3 DEF NamedExist
  <2>4. ReplyTo(e, answer'[e]).code = "not_found" => reading[e].org \notin told[e]
    BY <2>2, <2>3 DEF GetAnswer, OrgIds
  <2>5. /\ stage[e] = "sent" /\ stage'[e] = "answered"
        /\ reply' = reply /\ told' = told
    BY <1>3, <2>1 DEF ServeRead, ToolInv
  <2> QED BY <2>4, <2>5 DEF MissesAreNew
<1>8. CASE Serve
  BY <1>2, <1>3, <1>8 DEF Serve, Arrives
<1>9. CASE UNCHANGED agentVars
  BY <1>2, <1>9 DEF agentVars, toolVars
<1>10. ~\E c \in Call : Abandon(c)
  BY <1>2, <1>3 DEF Abandon, ToolInv, Execution
<1> QED BY <1>4, <1>5, <1>6, <1>7, <1>8, <1>9, <1>10 DEF ToolNext

\* An Organization that a Tool has named, the Tools that read find in every
\* execution that was sent later.  It rests on confirmed creations being in the
\* table and on no Organization being deleted.
THEOREM ToolsFindWhatTheyTold == ToolSpec => []AcknowledgedIsFound
<1>1. ToolInit => ToolInv /\ NamedExist /\ MissesAreNew
  BY ToolStart, FoundStart
<1>2. ToolInv /\ NamedExist /\ MissesAreNew /\ [ToolNext]_agentVars
        => (ToolInv /\ NamedExist /\ MissesAreNew)'
  BY ToolStep, NamedStep, MissesStep
<1>3. MissesAreNew => AcknowledgedIsFound
  BY DEF MissesAreNew, AcknowledgedIsFound
<1> QED BY <1>1, <1>2, <1>3, PTL DEF ToolSpec

=============================================================================
