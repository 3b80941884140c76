----------------------- MODULE OrganizationServiceProofs -----------------------
(* Theorems about the storage-independent specification. *)
EXTENDS OrganizationService, OrganizationSafety, TLAPS

-----------------------------------------------------------------------------
(* Types of the operators. *)

LEMMA IntentType ==
  ASSUME request \in [Call -> Request], NEW c \in Call
  PROVE  /\ Intent(c) \in CreateIntent \cup MemberIntent
         /\ IsCreate(c) => request[c].intent \in CreateIntent
         /\ ~IsCreate(c) => request[c].intent \in MemberIntent
         /\ ~IsCreate(c) <=> Op(c) \in {"add_member", "remove_member"}
         /\ Family(c) \in {"creation", "membership"}
         /\ request[c].caller \in Caller
         /\ request[c].key \in Key
         /\ request[c].intent.subject \in Subject
<1>1. /\ request[c] \in Request
      /\ request[c].intent \in CreateIntent \cup MemberIntent
  BY DEF Request
<1>2. CASE IsCreate(c)
  <2>1. request[c].intent \in CreateIntent
    BY <1>1, <1>2 DEF IsCreate, Op, CreateIntent, MemberIntent
  <2>2. Intent(c) \in CreateIntent
    BY <2>1, <1>2, TrimAssumption DEF Intent, CreateIntent
  <2> QED
    BY <1>1, <1>2, <2>1, <2>2 DEF Op, Family, Request, CreateIntent, IsCreate
<1>3. CASE ~IsCreate(c)
  <2>1. request[c].intent \in MemberIntent
    BY <1>1, <1>3 DEF IsCreate, Op, CreateIntent, MemberIntent
  <2> QED
    BY <1>1, <1>3, <2>1 DEF Op, Family, Request, MemberIntent, IsCreate, Intent
<1> QED BY <1>2, <1>3

LEMMA ReceiptType ==
  ASSUME request \in [Call -> Request], NEW c \in Call, NEW i \in Call, NEW n \in Nat
  PROVE  ReceiptOf(c, i, n) \in Receipt
BY IntentType DEF ReceiptOf, Receipt

LEMMA NewRowTypes ==
  ASSUME request \in [Call -> Request], NEW c \in Call
  PROVE  /\ IsCreate(c) => NewOrg(c) \in Org /\ NewOwner(c) \in Member
         /\ ~IsCreate(c) => NewMember(c) \in Member
<1>1. CASE IsCreate(c)
  BY <1>1, IntentType DEF CreateIntent, NewOrg, NewOwner, Org, Member
<1>2. CASE ~IsCreate(c)
  BY <1>2, IntentType DEF MemberIntent, NewMember, Member
<1> QED BY <1>1, <1>2

LEMMA RemovedType ==
  ASSUME NEW m \in Member
  PROVE  /\ RemovedMember(m) \in Member
         /\ RemovedMember(m).id = m.id
         /\ RemovedMember(m).org = m.org
         /\ RemovedMember(m).subject = m.subject
         /\ RemovedMember(m).owner = m.owner
         /\ RemovedMember(m).active = FALSE
         /\ RemovedMember(m).revision = m.revision + 1
BY DEF RemovedMember, Member

LEMMA ArchivedType ==
  ASSUME NEW g \in Org
  PROVE  /\ ArchivedOrg(g) \in Org
         /\ ArchivedOrg(g).id = g.id
         /\ ArchivedOrg(g).slug = g.slug
         /\ ~ArchivedOrg(g).active
BY DEF ArchivedOrg, Org

-----------------------------------------------------------------------------
(* The steps, sorted by what they do to the tables. *)

\* A call is answered and the tables stay as they are.
Answers(c) ==
  /\ Waiting(c)
  /\ \/ \E e \in Refusals :
          /\ Answer(c, Refused(e))
          /\ e = "idempotency_conflict" => \E r \in Matching(c) : r.intent # Intent(c)
     \/ Answer(c, Failed)
     \/ \E r \in Matching(c) :
          r.intent = Intent(c) /\ Answer(c, Done(FALSE, r.id, r.revision))
  /\ UNCHANGED <<orgs, members, receipts, request>>

LEMMA StepKinds ==
  ASSUME TablesTypeOK, ServiceNext
  PROVE  \/ \E c \in Call : Answers(c) \/ Create(c) \/ AddNew(c)
                             \/ AddExisting(c) \/ Remove(c)
         \/ \E o \in Call : ArchiveOrg(o)
<1>1. CASE \E o \in Call : ArchiveOrg(o)
  BY <1>1
<1>2. ASSUME NEW c \in Call,
             \/ AnswerForbidden(c) \/ AnswerInvalid(c) \/ AnswerKeyConflict(c) \/ AnswerSlugConflict(c)
             \/ AnswerOrganizationNotFound(c) \/ AnswerMembershipNotFound(c)
             \/ AnswerOwnerProtected(c) \/ AnswerFailure(c) \/ AnswerReplay(c)
      PROVE  Answers(c)
  <2>1. {"forbidden", "invalid", "idempotency_conflict", "slug_conflict",
         "organization_not_found", "membership_not_found", "owner_protected"}
          = Refusals
    BY DEF Refusals
  <2>2. CASE \E e \in Refusals \ {"idempotency_conflict"} : Waiting(c) /\ Refuse(c, e)
    BY <2>2 DEF Answers, Refuse
  <2>3. CASE AnswerFailure(c)
    BY <2>3 DEF Answers, AnswerFailure
  <2>4. CASE AnswerReplay(c)
    BY <2>4 DEF Answers, AnswerReplay, Confirm
  <2>5. CASE AnswerForbidden(c) \/ AnswerInvalid(c)
    BY <2>1, <2>2, <2>5 DEF AnswerForbidden, AnswerInvalid
  <2>7. CASE AnswerKeyConflict(c)
    BY <2>1, <2>7 DEF AnswerKeyConflict, Answers, Refuse
  <2>6. CASE AnswerSlugConflict(c) \/ AnswerOrganizationNotFound(c) \/ AnswerMembershipNotFound(c)
             \/ AnswerOwnerProtected(c)
    BY <2>1, <2>2, <2>6
       DEF AnswerSlugConflict, AnswerOrganizationNotFound, AnswerMembershipNotFound,
           AnswerOwnerProtected, Enters, Fresh
  <2> QED BY <1>2, <2>3, <2>4, <2>5, <2>6, <2>7
<1> QED BY <1>1, <1>2 DEF ServiceNext

-----------------------------------------------------------------------------
(* Type correctness. *)

LEMMA ReplyTypes ==
  /\ Pending \in Result /\ Failed \in Result
  /\ \A e \in Refusals : Refused(e) \in Result /\ Refused(e) # Pending
  /\ Failed # Pending
  /\ \A b \in BOOLEAN, i \in Call, n \in Nat :
       /\ Done(b, i, n) \in Reply
       /\ Done(b, i, n) \in Result
       /\ Done(b, i, n) # Pending
  /\ \A r \in Reply : r \in Result /\ r # Pending
<1>1. \A b \in BOOLEAN, i \in Call, n \in Nat : Done(b, i, n) \in Reply
  BY DEF Done, Reply
<1>2. \A b \in BOOLEAN, i \in Call, n \in Nat : Done(b, i, n).code = "ok"
  BY DEF Done
<1>3. \A e \in Refusals : Refused(e).code = e /\ e # "pending"
  BY DEF Refused, Refusals
<1>4. Pending.code = "pending" /\ Failed.code = "runtime_failure"
  BY DEF Pending, Failed
<1>5. \A r \in Reply : r.code = "ok"
  BY DEF Reply
<1>6. \A r \in Reply : r # Pending
  BY <1>4, <1>5
<1> QED BY <1>1, <1>2, <1>3, <1>4, <1>6 DEF Result

LEMMA ConfirmType ==
  ASSUME result \in [Call -> Result], NEW c \in Call, NEW r \in Reply, Confirm(c, r)
  PROVE  result' \in [Call -> Result]
BY ReplyTypes DEF Confirm, Answer, Result

LEMMA TypeStep ==
  ASSUME TablesTypeOK, [ServiceNext]_serviceVars
  PROVE  TablesTypeOK'
<1> USE DEF TablesTypeOK
<1>1. CASE UNCHANGED serviceVars
  BY <1>1 DEF serviceVars
<1>2. ASSUME NEW c \in Call, Answers(c)
      PROVE  TablesTypeOK'
  <2>1. \A r \in Matching(c) : Done(FALSE, r.id, r.revision) \in Result
    BY ReplyTypes DEF Matching, Receipt
  <2> QED BY <1>2, <2>1, ReplyTypes DEF Answers, Answer
<1>3. ASSUME NEW c \in Call, Create(c)
      PROVE  TablesTypeOK'
  <2>1. NewOrg(c) \in Org /\ NewOwner(c) \in Member /\ ReceiptOf(c, c, 1) \in Receipt
    BY <1>3, NewRowTypes, ReceiptType DEF Create
  <2>2. Done(TRUE, c, 1) \in Reply
    BY ReplyTypes
  <2>3. result' \in [Call -> Result]
    BY <1>3, <2>2, ConfirmType DEF Create
  <2> QED BY <1>3, <2>1, <2>3 DEF Create
<1>4. ASSUME NEW c \in Call, AddNew(c)
      PROVE  TablesTypeOK'
  <2>1. NewMember(c) \in Member /\ ReceiptOf(c, c, 1) \in Receipt
    BY <1>4, NewRowTypes, ReceiptType DEF AddNew, Enters
  <2>2. result' \in [Call -> Result]
    BY <1>4, ReplyTypes, ConfirmType DEF AddNew
  <2> QED BY <1>4, <2>1, <2>2 DEF AddNew
<1>5. ASSUME NEW c \in Call, AddExisting(c)
      PROVE  TablesTypeOK'
  <2>1. PICK m \in Found(c) :
          /\ receipts' = receipts \cup {ReceiptOf(c, m.id, m.revision)}
          /\ Confirm(c, Done(FALSE, m.id, m.revision))
    BY <1>5 DEF AddExisting
  <2>2. m \in Member /\ m.id \in Call /\ m.revision \in Nat
    BY DEF Found, ActiveMembers, Member
  <2>3. ReceiptOf(c, m.id, m.revision) \in Receipt
    BY <2>2, ReceiptType
  <2>4. result' \in [Call -> Result]
    BY <2>1, <2>2, ReplyTypes, ConfirmType
  <2> QED BY <1>5, <2>1, <2>3, <2>4 DEF AddExisting
<1>6. ASSUME NEW c \in Call, Remove(c)
      PROVE  TablesTypeOK'
  <2>1. PICK m \in Found(c) :
          /\ members' = (members \ {m}) \cup {RemovedMember(m)}
          /\ receipts' = receipts \cup {ReceiptOf(c, m.id, m.revision + 1)}
          /\ Confirm(c, Done(TRUE, m.id, m.revision + 1))
    BY <1>6 DEF Remove
  <2>2. m \in Member /\ m.id \in Call /\ m.revision + 1 \in Nat
    BY DEF Found, ActiveMembers, Member
  <2>3. RemovedMember(m) \in Member /\ ReceiptOf(c, m.id, m.revision + 1) \in Receipt
    BY <2>2, RemovedType, ReceiptType
  <2>4. result' \in [Call -> Result]
    BY <2>1, <2>2, ReplyTypes, ConfirmType
  <2> QED BY <1>6, <2>1, <2>3, <2>4 DEF Remove
<1>7. ASSUME NEW o \in Call, ArchiveOrg(o)
      PROVE  TablesTypeOK'
  <2>1. PICK g \in orgs : orgs' = (orgs \ {g}) \cup {ArchivedOrg(g)}
    BY <1>7 DEF ArchiveOrg
  <2>2. ArchivedOrg(g) \in Org
    BY ArchivedType
  <2> QED BY <1>7, <2>1, <2>2 DEF ArchiveOrg
<1> QED BY <1>1, <1>2, <1>3, <1>4, <1>5, <1>6, <1>7, StepKinds

LEMMA TypeStart == ASSUME TablesInit PROVE TablesTypeOK
<1>1. \A c \in Call : Offered[c] \subseteq Request
  BY OfferedAssumption
<1> QED BY <1>1, ReplyTypes DEF TablesInit, TablesTypeOK

\* The tables, requests and answers keep their types.
THEOREM TablesTypeCorrect == ServiceSpec => []TablesTypeOK
BY TypeStart, TypeStep, PTL DEF ServiceSpec

-----------------------------------------------------------------------------
(* The tables.  A row is named after the call that wrote it, which has been  *)
(* answered: this is what makes a new row's identifier new.                  *)

IdsSpent ==
  /\ \A g \in orgs : ~Waiting(g.id)
  /\ \A m \in members : ~Waiting(m.id)

IdsDistinct ==
  /\ \A g, h \in orgs : g.id = h.id => g = h
  /\ \A m, n \in members : m.id = n.id => m = n

MembersHaveOrg == \A m \in members : \E g \in orgs : g.id = m.org

RowInv ==
  /\ TablesTypeOK
  /\ IdsSpent
  /\ IdsDistinct
  /\ MembersHaveOrg
  /\ RevisionTellsState
  /\ ActiveSlugUnique
  /\ OneActiveMembership
  /\ OwnerKept

LEMMA RowStart == ASSUME TablesInit PROVE RowInv
BY TypeStart
   DEF TablesInit, RowInv, IdsSpent, IdsDistinct, MembersHaveOrg, RevisionTellsState,
       ActiveSlugUnique, OneActiveMembership, OwnerKept

\* An answer never reopens a call.
LEMMA AnswerCloses ==
  ASSUME TablesTypeOK, NEW c \in Call, NEW r \in Result \ {Pending}, Answer(c, r)
  PROVE  ~Waiting(c)' /\ \A d \in Call : ~Waiting(d) => ~Waiting(d)'
BY DEF Answer, Waiting, TablesTypeOK

LEMMA ConfirmCloses ==
  ASSUME TablesTypeOK, NEW c \in Call, NEW r \in Reply, Confirm(c, r)
  PROVE  ~Waiting(c)' /\ \A d \in Call : ~Waiting(d) => ~Waiting(d)'
BY AnswerCloses, ReplyTypes DEF Confirm

LEMMA RowStep ==
  ASSUME RowInv, [ServiceNext]_serviceVars
  PROVE  RowInv'
<1>0. TablesTypeOK /\ TablesTypeOK'
  BY TypeStep DEF RowInv
<1> USE DEF RowInv, IdsSpent, IdsDistinct, MembersHaveOrg, RevisionTellsState,
            ActiveSlugUnique, OneActiveMembership, OwnerKept
<1>1. CASE UNCHANGED serviceVars
  BY <1>0, <1>1 DEF serviceVars, Waiting
<1>2. ASSUME NEW c \in Call, Answers(c)
      PROVE  RowInv'
  <2>1. \E r \in Result \ {Pending} : Answer(c, r)
    BY <1>0, <1>2, ReplyTypes DEF Answers, Matching, TablesTypeOK, Receipt
  <2>2. \A d \in Call : ~Waiting(d) => ~Waiting(d)'
    BY <1>0, <2>1, AnswerCloses
  <2>3. \A g \in orgs : g.id \in Call
    BY <1>0 DEF TablesTypeOK, Org
  <2>4. \A m \in members : m.id \in Call
    BY <1>0 DEF TablesTypeOK, Member
  <2> QED BY <1>0, <1>2, <2>2, <2>3, <2>4 DEF Answers
<1>3. ASSUME NEW c \in Call, Create(c)
      PROVE  RowInv'
  <2>1. /\ NewOrg(c).id = c /\ NewOrg(c).active
        /\ NewOrg(c).slug = request[c].intent.slug
        /\ NewOwner(c).id = c /\ NewOwner(c).org = c
        /\ NewOwner(c).owner /\ NewOwner(c).active /\ NewOwner(c).revision = 1
    BY DEF NewOrg, NewOwner
  <2>2. Waiting(c) /\ ~SlugTaken(request[c].intent.slug)
    BY <1>3 DEF Create, Fresh
  <2>3. orgs' = orgs \cup {NewOrg(c)} /\ members' = members \cup {NewOwner(c)}
    BY <1>3 DEF Create
  <2>4. ~Waiting(c)' /\ \A d \in Call : ~Waiting(d) => ~Waiting(d)'
    BY <1>0, <1>3, ConfirmCloses, ReplyTypes DEF Create
  <2>5. \A g \in orgs : g.id \in Call /\ g.id # c
    BY <1>0, <2>2 DEF TablesTypeOK, Org
  <2>6. \A m \in members : m.id \in Call /\ m.id # c /\ m.org # c
    BY <1>0, <2>2, <2>5 DEF TablesTypeOK, Member
  <2>7. IdsSpent' /\ IdsDistinct'
    BY <2>1, <2>3, <2>4, <2>5, <2>6
  <2>8. MembersHaveOrg' /\ RevisionTellsState'
    BY <2>1, <2>3
  <2>9. ActiveSlugUnique'
    BY <2>1, <2>2, <2>3 DEF SlugTaken
  <2>10. OneActiveMembership'
    BY <2>1, <2>3, <2>6
  <2>11. OwnerKept'
    <3>1. SUFFICES ASSUME NEW g \in orgs'
                   PROVE  \E m \in members' :
                            /\ m.org = g.id /\ m.owner /\ m.active
                            /\ \A n \in members' : n.org = g.id /\ n.owner => n = m
      OBVIOUS
    <3>2. CASE g = NewOrg(c)
      BY <2>1, <2>3, <2>6, <3>2
    <3>3. CASE g \in orgs
      <4>1. PICK m \in members :
              /\ m.org = g.id /\ m.owner /\ m.active
              /\ \A n \in members : n.org = g.id /\ n.owner => n = m
        BY <3>3
      <4>2. NewOwner(c).org # g.id
        BY <2>1, <2>5, <3>3
      <4> QED BY <2>3, <4>1, <4>2
    <3> QED BY <2>3, <3>2, <3>3
  <2> QED BY <1>0, <2>7, <2>8, <2>9, <2>10, <2>11
<1>4. ASSUME NEW c \in Call, AddNew(c)
      PROVE  RowInv'
  <2>1. /\ NewMember(c).id = c /\ NewMember(c).org = request[c].intent.org
        /\ NewMember(c).subject = request[c].intent.subject
        /\ ~NewMember(c).owner /\ NewMember(c).active /\ NewMember(c).revision = 1
    BY DEF NewMember
  <2>2. Waiting(c) /\ ActiveOrg(request[c].intent.org) /\ Found(c) = {}
    BY <1>4 DEF AddNew, Enters, Fresh
  <2>3. orgs' = orgs /\ members' = members \cup {NewMember(c)}
    BY <1>4 DEF AddNew
  <2>4. ~Waiting(c)' /\ \A d \in Call : ~Waiting(d) => ~Waiting(d)'
    BY <1>0, <1>4, ConfirmCloses, ReplyTypes DEF AddNew
  <2>5. \A m \in members : m.id \in Call /\ m.id # c
    BY <1>0, <2>2 DEF TablesTypeOK, Member
  <2>6. \A g \in orgs : g.id \in Call
    BY <1>0 DEF TablesTypeOK, Org
  <2>7. IdsSpent' /\ IdsDistinct'
    BY <2>1, <2>3, <2>4, <2>5, <2>6
  <2>8. MembersHaveOrg' /\ RevisionTellsState' /\ ActiveSlugUnique'
    BY <2>1, <2>2, <2>3 DEF ActiveOrg
  <2>9. OneActiveMembership'
    BY <2>1, <2>2, <2>3 DEF Found, ActiveMembers
  <2>10. OwnerKept'
    BY <2>1, <2>3
  <2> QED BY <1>0, <2>3, <2>7, <2>8, <2>9, <2>10
<1>5. ASSUME NEW c \in Call, AddExisting(c)
      PROVE  RowInv'
  <2>1. orgs' = orgs /\ members' = members
    BY <1>5 DEF AddExisting
  <2>2. PICK m \in Found(c) : Confirm(c, Done(FALSE, m.id, m.revision))
    BY <1>5 DEF AddExisting
  <2>3. m.id \in Call /\ m.revision \in Nat
    BY <1>0 DEF Found, ActiveMembers, TablesTypeOK, Member
  <2>4. \A d \in Call : ~Waiting(d) => ~Waiting(d)'
    BY <1>0, <2>2, <2>3, ConfirmCloses, ReplyTypes
  <2>5. \A g \in orgs : g.id \in Call
    BY <1>0 DEF TablesTypeOK, Org
  <2>6. \A n \in members : n.id \in Call
    BY <1>0 DEF TablesTypeOK, Member
  <2> QED BY <1>0, <2>1, <2>4, <2>5, <2>6
<1>6. ASSUME NEW c \in Call, Remove(c)
      PROVE  RowInv'
  <2>1. PICK m \in Found(c) :
          /\ ~m.owner
          /\ members' = (members \ {m}) \cup {RemovedMember(m)}
          /\ Confirm(c, Done(TRUE, m.id, m.revision + 1))
    BY <1>6 DEF Remove
  <2>2. m \in members /\ m \in Member /\ m.active
    BY <1>0 DEF Found, ActiveMembers, TablesTypeOK
  <2>3. m.id \in Call /\ m.revision + 1 \in Nat /\ m.revision = 1
    BY <2>2 DEF Member
  <2>4. orgs' = orgs
    BY <1>6 DEF Remove
  <2>5. \A d \in Call : ~Waiting(d) => ~Waiting(d)'
    BY <1>0, <2>1, <2>3, ConfirmCloses, ReplyTypes
  <2>6. /\ \A g \in orgs : g.id \in Call
        /\ \A n \in members : n.id \in Call
    BY <1>0 DEF TablesTypeOK, Org, Member
  <2>7. /\ RemovedMember(m).id = m.id /\ RemovedMember(m).org = m.org
        /\ ~RemovedMember(m).owner /\ ~RemovedMember(m).active
        /\ RemovedMember(m).revision = 2
    <3>1. m \in Member
      BY <2>2
    <3>2. RemovedMember(m).revision = m.revision + 1
      BY <3>1, RemovedType
    <3>3. /\ RemovedMember(m).id = m.id /\ RemovedMember(m).org = m.org
          /\ RemovedMember(m).owner = m.owner /\ RemovedMember(m).active = FALSE
      BY <3>1, RemovedType
    <3> QED BY <2>1, <2>3, <3>2, <3>3
  <2>8. IdsSpent' /\ IdsDistinct' /\ MembersHaveOrg'
    BY <2>1, <2>2, <2>4, <2>5, <2>6, <2>7
  <2>9. RevisionTellsState' /\ ActiveSlugUnique' /\ OneActiveMembership'
    BY <2>1, <2>2, <2>4, <2>7
  <2>10. OwnerKept'
    BY <2>1, <2>2, <2>4, <2>7
  <2> QED BY <1>0, <2>8, <2>9, <2>10
<1>7. ASSUME NEW o \in Call, ArchiveOrg(o)
      PROVE  RowInv'
  <2>1. PICK g \in orgs : g.active /\ orgs' = (orgs \ {g}) \cup {ArchivedOrg(g)}
    BY <1>7 DEF ArchiveOrg
  <2>2. /\ ArchivedOrg(g).id = g.id /\ ~ArchivedOrg(g).active
    BY DEF ArchivedOrg
  <2>3. UNCHANGED <<members, result>>
    BY <1>7 DEF ArchiveOrg
  <2>4. \A d \in Call : ~Waiting(d) => ~Waiting(d)'
    BY <2>3 DEF Waiting
  <2>5. /\ \A h \in orgs : h.id \in Call
        /\ \A n \in members : n.id \in Call
    BY <1>0 DEF TablesTypeOK, Org, Member
  <2>6. IdsSpent' /\ IdsDistinct' /\ MembersHaveOrg'
    BY <2>1, <2>2, <2>3, <2>4, <2>5
  <2>7. RevisionTellsState' /\ ActiveSlugUnique' /\ OneActiveMembership'
    BY <2>1, <2>2, <2>3
  <2>8. OwnerKept'
    BY <2>1, <2>2, <2>3
  <2> QED BY <1>0, <2>6, <2>7, <2>8
<1> QED BY <1>0, <1>1, <1>2, <1>3, <1>4, <1>5, <1>6, <1>7, StepKinds

\* An owner's row is the only row of its subject in the Organization, removed
\* rows included: the owner is never removed, so it is never added again.
OwnersAlone ==
  \A m, n \in members :
    m.owner /\ n.org = m.org /\ n.subject = m.subject => n = m

LEMMA OwnersActive ==
  ASSUME RowInv, NEW m \in members, m.owner
  PROVE  m.active
BY DEF RowInv, MembersHaveOrg, OwnerKept

LEMMA OwnersAloneStep ==
  ASSUME RowInv, OwnersAlone, [ServiceNext]_serviceVars
  PROVE  OwnersAlone'
<1>1. CASE members' = members
  BY <1>1 DEF OwnersAlone
<1>2. ASSUME NEW c \in Call, Create(c)
      PROVE  OwnersAlone'
  <2>1. NewOwner(c).org = c /\ members' = members \cup {NewOwner(c)}
    BY <1>2 DEF NewOwner, Create
  <2>2. \A m \in members : m.org # c
    BY <1>2 DEF RowInv, MembersHaveOrg, IdsSpent, Create, Fresh
  <2> QED BY <2>1, <2>2 DEF OwnersAlone
<1>3. ASSUME NEW c \in Call, AddNew(c)
      PROVE  OwnersAlone'
  <2>1. /\ ~NewMember(c).owner /\ NewMember(c).org = request[c].intent.org
        /\ NewMember(c).subject = request[c].intent.subject
        /\ members' = members \cup {NewMember(c)} /\ Found(c) = {}
    BY <1>3 DEF NewMember, AddNew
  <2>2. \A m \in members : m.owner =>
          ~(m.org = request[c].intent.org /\ m.subject = request[c].intent.subject)
    BY <2>1, OwnersActive DEF Found, ActiveMembers
  <2> QED BY <2>1, <2>2 DEF OwnersAlone
<1>4. ASSUME NEW c \in Call, Remove(c)
      PROVE  OwnersAlone'
  <2>1. PICK m \in Found(c) :
          ~m.owner /\ members' = (members \ {m}) \cup {RemovedMember(m)}
    BY <1>4 DEF Remove
  <2>2. m \in members
    BY DEF Found, ActiveMembers
  <2>3. /\ RemovedMember(m).org = m.org /\ RemovedMember(m).subject = m.subject
        /\ RemovedMember(m).owner = m.owner
    BY <2>2, RemovedType DEF RowInv, TablesTypeOK
  <2> QED BY <2>1, <2>2, <2>3 DEF OwnersAlone
<1>5. ASSUME NEW c \in Call, Answers(c) \/ AddExisting(c)
      PROVE  members' = members
  BY <1>5 DEF Answers, AddExisting
<1>6. ASSUME NEW o \in Call, ArchiveOrg(o)
      PROVE  members' = members
  BY <1>6 DEF ArchiveOrg
<1>7. UNCHANGED serviceVars => members' = members
  BY DEF serviceVars
<1>8. TablesTypeOK
  BY DEF RowInv
<1> QED BY <1>1, <1>2, <1>3, <1>4, <1>5, <1>6, <1>7, <1>8, StepKinds

-----------------------------------------------------------------------------
(* Rows and receipts only move forward.                                      *)

Follows(n, m) ==
  /\ n.id = m.id /\ n.org = m.org /\ n.subject = m.subject /\ n.owner = m.owner
  /\ n.active => m.active
  /\ n.revision >= m.revision

LEMMA RowsFollow ==
  ASSUME RowInv, [ServiceNext]_serviceVars
  PROVE  /\ \A m \in members : \E n \in members' : Follows(n, m)
         /\ \A g \in orgs :
              \E h \in orgs' : h.id = g.id /\ h.slug = g.slug /\ (h.active => g.active)
         /\ receipts \subseteq receipts'
<1>0. TablesTypeOK
  BY DEF RowInv
<1>1. \A m \in members : Follows(m, m)
  BY <1>0 DEF Follows, TablesTypeOK, Member
<1>2. CASE UNCHANGED serviceVars \/ \E c \in Call : Answers(c)
  BY <1>1, <1>2 DEF serviceVars, Answers
<1>3. ASSUME NEW c \in Call, Create(c) \/ AddNew(c) \/ AddExisting(c)
      PROVE  /\ members \subseteq members' /\ orgs \subseteq orgs'
             /\ receipts \subseteq receipts'
  BY <1>3 DEF Create, AddNew, AddExisting
<1>4. ASSUME NEW c \in Call, Remove(c)
      PROVE  /\ \A m \in members : \E n \in members' : Follows(n, m)
             /\ orgs' = orgs /\ receipts \subseteq receipts'
  <2>1. PICK m \in Found(c) :
          /\ members' = (members \ {m}) \cup {RemovedMember(m)}
          /\ receipts' = receipts \cup {ReceiptOf(c, m.id, m.revision + 1)}
    BY <1>4 DEF Remove
  <2>2. m \in Member
    BY <1>0 DEF Found, ActiveMembers, TablesTypeOK
  <2>3. m.revision + 1 >= m.revision
    BY <2>2 DEF Member
  <2>4. Follows(RemovedMember(m), m)
    BY <2>2, <2>3, RemovedType DEF Follows
  <2> QED BY <1>1, <1>4, <2>1, <2>4 DEF Remove
<1>5. ASSUME NEW o \in Call, ArchiveOrg(o)
      PROVE  /\ members' = members /\ receipts' = receipts
             /\ \A g \in orgs :
                  \E h \in orgs' : h.id = g.id /\ h.slug = g.slug /\ (h.active => g.active)
  BY <1>0, <1>5, ArchivedType DEF ArchiveOrg, TablesTypeOK
<1> QED BY <1>0, <1>1, <1>2, <1>3, <1>4, <1>5, StepKinds

LEMMA RowCorrect == ServiceSpec => []RowInv
BY RowStart, RowStep, PTL DEF ServiceSpec

LEMMA OwnersAloneCorrect == ServiceSpec => []OwnersAlone
<1>1. TablesInit => OwnersAlone
  BY DEF TablesInit, OwnersAlone
<1> QED BY <1>1, OwnersAloneStep, RowCorrect, PTL DEF ServiceSpec

\* Nothing that was committed is ever taken back.
THEOREM ServiceNeverTakesBack == ServiceSpec => NeverTakenBack
<1>1. RowInv /\ [ServiceNext]_serviceVars =>
        [/\ \A m \in members :
              \E n \in members' :
                /\ n.id = m.id /\ n.org = m.org /\ n.subject = m.subject
                /\ n.owner = m.owner
                /\ n.active => m.active
                /\ n.revision >= m.revision
         /\ \A g \in orgs :
              \E h \in orgs' : h.id = g.id /\ h.slug = g.slug /\ (h.active => g.active)
         /\ receipts \subseteq receipts']_tables
  BY RowsFollow DEF Follows
<1> QED BY <1>1, RowCorrect, PTL DEF ServiceSpec, NeverTakenBack

-----------------------------------------------------------------------------
(* Receipts.                                                                 *)

LEMMA ReceiptFields ==
  ASSUME NEW c, NEW i, NEW n
  PROVE  /\ ReceiptOf(c, i, n).family = Family(c)
         /\ ReceiptOf(c, i, n).caller = request[c].caller
         /\ ReceiptOf(c, i, n).key = request[c].key
         /\ ReceiptOf(c, i, n).intent = Intent(c)
         /\ ReceiptOf(c, i, n).id = i
         /\ ReceiptOf(c, i, n).revision = n
BY DEF ReceiptOf

LEMMA IntentFields ==
  ASSUME request \in [Call -> Request], NEW c \in Call
  PROVE  /\ Intent(c).op = Op(c)
         /\ Intent(c).subject = request[c].intent.subject
         /\ ~IsCreate(c) => Intent(c).org = request[c].intent.org
BY DEF Intent, Op, IsCreate

\* What a receipt says of the row it names.
Records(r, m) ==
  /\ m.id = r.id
  /\ m.subject = r.intent.subject
  /\ IF r.family = "creation" THEN m.owner /\ m.org = r.id ELSE m.org = r.intent.org

\* The one receipt a step may add: of a fresh call, and of a row as it now is.
NewReceipt(c, r, m) ==
  /\ Fresh(c)
  /\ r = ReceiptOf(c, m.id, m.revision)
  /\ Records(r, m)
  /\ receipts' = receipts \cup {r}

LEMMA ReceiptSteps ==
  ASSUME RowInv, [ServiceNext]_serviceVars
  PROVE  \/ receipts' = receipts
         \/ \E c \in Call, m \in members' :
              NewReceipt(c, ReceiptOf(c, m.id, m.revision), m)
<1>0. TablesTypeOK /\ request \in [Call -> Request]
  BY DEF RowInv, TablesTypeOK
<1>1. CASE UNCHANGED serviceVars \/ (\E c \in Call : Answers(c))
           \/ \E o \in Call : ArchiveOrg(o)
  BY <1>1 DEF serviceVars, Answers, ArchiveOrg
<1>2. ASSUME NEW c \in Call, NEW m, Fresh(c),
             m.subject = request[c].intent.subject,
             IF IsCreate(c) THEN m.owner /\ m.org = m.id
                            ELSE m.org = request[c].intent.org,
             receipts' = receipts \cup {ReceiptOf(c, m.id, m.revision)}
      PROVE  NewReceipt(c, ReceiptOf(c, m.id, m.revision), m)
  <2>1. Family(c) = "creation" <=> IsCreate(c)
    BY DEF Family
  <2> QED BY <1>0, <1>2, <2>1, ReceiptFields, IntentFields DEF NewReceipt, Records
<1>3. ASSUME NEW c \in Call, Create(c)
      PROVE  \E m \in members' : NewReceipt(c, ReceiptOf(c, m.id, m.revision), m)
  <2>1. /\ NewOwner(c) \in members' /\ NewOwner(c).id = c /\ NewOwner(c).org = c
        /\ NewOwner(c).owner /\ NewOwner(c).revision = 1
        /\ NewOwner(c).subject = request[c].intent.subject
    BY <1>3 DEF Create, NewOwner
  <2>2. /\ Fresh(c) /\ IsCreate(c)
        /\ receipts' = receipts \cup {ReceiptOf(c, NewOwner(c).id, NewOwner(c).revision)}
    BY <1>3, <2>1 DEF Create
  <2> QED BY <1>2, <2>1, <2>2
<1>4. ASSUME NEW c \in Call, AddNew(c)
      PROVE  \E m \in members' : NewReceipt(c, ReceiptOf(c, m.id, m.revision), m)
  <2>1. /\ NewMember(c) \in members' /\ NewMember(c).id = c
        /\ NewMember(c).org = request[c].intent.org /\ NewMember(c).revision = 1
        /\ NewMember(c).subject = request[c].intent.subject
    BY <1>4 DEF AddNew, NewMember
  <2>2. /\ Fresh(c) /\ ~IsCreate(c)
        /\ receipts' = receipts \cup {ReceiptOf(c, NewMember(c).id, NewMember(c).revision)}
    BY <1>4, <2>1 DEF AddNew, Enters
  <2> QED BY <1>2, <2>1, <2>2
<1>5. ASSUME NEW c \in Call, AddExisting(c)
      PROVE  \E m \in members' : NewReceipt(c, ReceiptOf(c, m.id, m.revision), m)
  <2>1. PICK m \in Found(c) : receipts' = receipts \cup {ReceiptOf(c, m.id, m.revision)}
    BY <1>5 DEF AddExisting
  <2>2. /\ m \in members' /\ m.org = request[c].intent.org
        /\ m.subject = request[c].intent.subject
    BY <1>5 DEF AddExisting, Found, ActiveMembers
  <2> QED BY <1>2, <1>5, <2>1, <2>2 DEF AddExisting, Enters
<1>6. ASSUME NEW c \in Call, Remove(c)
      PROVE  \E m \in members' : NewReceipt(c, ReceiptOf(c, m.id, m.revision), m)
  <2>1. PICK m \in Found(c) :
          /\ members' = (members \ {m}) \cup {RemovedMember(m)}
          /\ receipts' = receipts \cup {ReceiptOf(c, m.id, m.revision + 1)}
    BY <1>6 DEF Remove
  <2>2. /\ m \in Member /\ m.org = request[c].intent.org
        /\ m.subject = request[c].intent.subject
    BY <1>0 DEF Found, ActiveMembers, TablesTypeOK
  <2>3. /\ RemovedMember(m) \in members'
        /\ RemovedMember(m).id = m.id /\ RemovedMember(m).revision = m.revision + 1
        /\ RemovedMember(m).org = request[c].intent.org
        /\ RemovedMember(m).subject = request[c].intent.subject
    BY <2>1, <2>2 DEF RemovedMember
  <2>4. receipts' = receipts
          \cup {ReceiptOf(c, RemovedMember(m).id, RemovedMember(m).revision)}
    BY <2>1, <2>3
  <2> QED BY <1>2, <1>6, <2>3, <2>4 DEF Remove, Enters
<1> QED BY <1>0, <1>1, <1>3, <1>4, <1>5, <1>6, StepKinds

\* Receipts are unique per key and name a row that has not fallen behind.
LEMMA SoundStep ==
  ASSUME RowInv, ReceiptsSound, [ServiceNext]_serviceVars
  PROVE  ReceiptsSound'
<1>0. TablesTypeOK /\ TablesTypeOK' /\ RowInv'
  BY RowStep DEF RowInv
<1>1. ASSUME NEW r \in receipts
      PROVE  \E n \in members' :
               /\ n.id = r.id
               /\ r.revision \in 1..n.revision
               /\ n.subject = r.intent.subject
               /\ IF r.family = "creation"
                    THEN n.owner /\ \E h \in orgs' : h.id = n.org /\ h.id = r.id
                    ELSE n.org = r.intent.org
  <2>1. PICK m \in members :
          /\ m.id = r.id
          /\ r.revision \in 1..m.revision
          /\ m.subject = r.intent.subject
          /\ IF r.family = "creation"
               THEN m.owner /\ \E g \in orgs : g.id = m.org /\ g.id = r.id
               ELSE m.org = r.intent.org
    BY DEF ReceiptsSound
  <2>2. PICK n \in members' : Follows(n, m)
    BY RowsFollow
  <2>3. m.revision \in Nat /\ n.revision \in Nat /\ n.revision >= m.revision
    BY <1>0, <2>2 DEF TablesTypeOK, Member, Follows
  <2>4. r.revision \in 1..n.revision
    BY <2>1, <2>3
  <2>5. \A g \in orgs : \E h \in orgs' : h.id = g.id
    BY RowsFollow
  <2> QED BY <2>1, <2>2, <2>4, <2>5 DEF Follows
<1>2. CASE receipts' = receipts
  BY <1>1, <1>2 DEF ReceiptsSound
<1>3. ASSUME NEW c \in Call, NEW m \in members',
             NewReceipt(c, ReceiptOf(c, m.id, m.revision), m)
      PROVE  ReceiptsSound'
  <2> DEFINE new == ReceiptOf(c, m.id, m.revision)
  <2>1. receipts' = receipts \cup {new} /\ Records(new, m) /\ Matching(c) = {}
    BY <1>3 DEF NewReceipt, Fresh
  <2>2. /\ new.family = Family(c) /\ new.caller = request[c].caller
        /\ new.key = request[c].key /\ new.revision = m.revision
    BY ReceiptFields
  <2>3. \A r \in receipts :
          ~(r.family = new.family /\ r.caller = new.caller /\ r.key = new.key)
    BY <2>1, <2>2 DEF Matching
  <2>4. m.revision \in Nat \ {0}
    BY <1>0 DEF TablesTypeOK, Member
  <2>5. m.id = new.id /\ new.revision \in 1..m.revision
    BY <2>1, <2>2, <2>4 DEF Records
  <2>6. \E g \in orgs' : g.id = m.org
    BY <1>0 DEF RowInv, MembersHaveOrg
  <2>7. /\ m.subject = new.intent.subject
        /\ IF new.family = "creation"
             THEN m.owner /\ \E g \in orgs' : g.id = m.org /\ g.id = new.id
             ELSE m.org = new.intent.org
    BY <2>1, <2>6 DEF Records
  <2> HIDE DEF new
  <2>8. \A r, s \in receipts' :
          r.family = s.family /\ r.caller = s.caller /\ r.key = s.key => r = s
    BY <2>1, <2>3 DEF ReceiptsSound
  <2> QED BY <1>1, <2>1, <2>5, <2>7, <2>8 DEF ReceiptsSound
<1> QED BY <1>2, <1>3, ReceiptSteps

\* What EffectsHaveReceipts asks for one row.
Accounted(rs, m) ==
  /\ \E r \in rs :
       /\ r.id = m.id /\ r.revision = 1
       /\ r.intent.op = IF m.owner THEN "create_organization" ELSE "add_member"
  /\ ~m.active =>
       \E r \in rs :
         /\ r.id = m.id /\ r.revision = 2 /\ r.intent.op = "remove_member"
         /\ \A s \in rs :
              s.id = m.id /\ s.revision = 2 /\ s.intent.op = "remove_member"
                => s = r

\* A receipt that removes nothing of a row leaves the row accounted for.
LEMMA AccountedKept ==
  ASSUME NEW rs, NEW r, NEW m, Accounted(rs, m),
         r.intent.op # "remove_member" \/ r.id # m.id
  PROVE  Accounted(rs \cup {r}, m)
BY DEF Accounted

\* The row a receipt removes: no receipt has removed it before.
LEMMA EffectsStep ==
  ASSUME RowInv, ReceiptsSound, EffectsHaveReceipts, [ServiceNext]_serviceVars
  PROVE  EffectsHaveReceipts'
<1>0. TablesTypeOK /\ request \in [Call -> Request] /\ \A m \in members : Accounted(receipts, m)
  BY DEF RowInv, TablesTypeOK, EffectsHaveReceipts, Accounted
<1>1. SUFFICES \A m \in members' : Accounted(receipts', m)
  BY DEF EffectsHaveReceipts, Accounted
<1>2. CASE UNCHANGED serviceVars \/ (\E c \in Call : Answers(c))
           \/ \E o \in Call : ArchiveOrg(o)
  <2>1. members' = members /\ receipts' = receipts
    BY <1>2 DEF serviceVars, Answers, ArchiveOrg
  <2> QED BY <1>0, <2>1 DEF Accounted
<1>3. ASSUME NEW c \in Call, Create(c)
      PROVE  \A m \in members' : Accounted(receipts', m)
  <2> DEFINE r == ReceiptOf(c, c, 1)
  <2>1. /\ members' = members \cup {NewOwner(c)} /\ receipts' = receipts \cup {r}
        /\ IsCreate(c)
    BY <1>3 DEF Create
  <2>2. r.id = c /\ r.revision = 1 /\ r.intent.op = "create_organization"
    BY <1>0, <2>1, ReceiptFields, IntentFields DEF IsCreate
  <2>3. NewOwner(c).id = c /\ NewOwner(c).owner /\ NewOwner(c).active
    BY DEF NewOwner
  <2> HIDE DEF r
  <2>4. Accounted(receipts', NewOwner(c))
    BY <2>1, <2>2, <2>3 DEF Accounted
  <2>5. \A m \in members : Accounted(receipts', m)
    BY <1>0, <2>1, <2>2, AccountedKept
  <2> QED BY <2>1, <2>4, <2>5
<1>4. ASSUME NEW c \in Call, AddNew(c)
      PROVE  \A m \in members' : Accounted(receipts', m)
  <2> DEFINE r == ReceiptOf(c, c, 1)
  <2>1. /\ members' = members \cup {NewMember(c)} /\ receipts' = receipts \cup {r}
        /\ Op(c) = "add_member"
    BY <1>4 DEF AddNew
  <2>2. r.id = c /\ r.revision = 1 /\ r.intent.op = "add_member"
    BY <1>0, <2>1, ReceiptFields, IntentFields
  <2>3. NewMember(c).id = c /\ ~NewMember(c).owner /\ NewMember(c).active
    BY DEF NewMember
  <2> HIDE DEF r
  <2>4. Accounted(receipts', NewMember(c))
    BY <2>1, <2>2, <2>3 DEF Accounted
  <2>5. \A m \in members : Accounted(receipts', m)
    BY <1>0, <2>1, <2>2, AccountedKept
  <2> QED BY <2>1, <2>4, <2>5
<1>5. ASSUME NEW c \in Call, AddExisting(c)
      PROVE  \A m \in members' : Accounted(receipts', m)
  <2>1. PICK m \in Found(c) : receipts' = receipts \cup {ReceiptOf(c, m.id, m.revision)}
    BY <1>5 DEF AddExisting
  <2>2. members' = members /\ Op(c) = "add_member"
    BY <1>5 DEF AddExisting
  <2>3. ReceiptOf(c, m.id, m.revision).intent.op = "add_member"
    BY <1>0, <2>2, ReceiptFields, IntentFields
  <2> QED BY <1>0, <2>1, <2>2, <2>3, AccountedKept
<1>6. ASSUME NEW c \in Call, Remove(c)
      PROVE  \A m \in members' : Accounted(receipts', m)
  <2>1. PICK m \in Found(c) :
          /\ members' = (members \ {m}) \cup {RemovedMember(m)}
          /\ receipts' = receipts \cup {ReceiptOf(c, m.id, m.revision + 1)}
    BY <1>6 DEF Remove
  <2>2. m \in members /\ m \in Member /\ m.active /\ m.revision = 1
    BY <1>0 DEF Found, ActiveMembers, TablesTypeOK, RowInv, RevisionTellsState
  <2> DEFINE r == ReceiptOf(c, m.id, m.revision + 1)
  <2>3. r.id = m.id /\ r.revision = 2 /\ r.intent.op = "remove_member"
    BY <1>0, <1>6, <2>2, ReceiptFields, IntentFields DEF Remove
  <2>4. receipts' = receipts \cup {r}
    BY <2>1
  <2> HIDE DEF r
  <2>5. ASSUME NEW s \in receipts, s.id = m.id
        PROVE  s.revision # 2
    <3>1. PICK n \in members : n.id = s.id /\ s.revision \in 1..n.revision
      BY DEF ReceiptsSound
    <3>2. n = m
      BY <2>2, <2>5, <3>1 DEF RowInv, IdsDistinct
    <3> QED BY <2>2, <3>1, <3>2
  <2>6. Accounted(receipts', RemovedMember(m))
    <3>1. /\ RemovedMember(m).id = m.id /\ RemovedMember(m).owner = m.owner
      BY <2>2, RemovedType
    <3>2. \E s \in receipts' :
            /\ s.id = m.id /\ s.revision = 1
            /\ s.intent.op = IF m.owner THEN "create_organization" ELSE "add_member"
      BY <1>0, <2>2, <2>4 DEF Accounted
    <3>3. /\ r \in receipts'
          /\ \A s \in receipts' :
               s.id = m.id /\ s.revision = 2 /\ s.intent.op = "remove_member" => s = r
      BY <2>4, <2>5
    <3> QED BY <2>3, <3>1, <3>2, <3>3 DEF Accounted
  <2>7. ASSUME NEW n \in members \ {m}
        PROVE  Accounted(receipts', n)
    <3>1. r.id # n.id
      BY <2>2, <2>3 DEF RowInv, IdsDistinct
    <3> QED BY <1>0, <2>4, <3>1, AccountedKept
  <2> QED BY <2>1, <2>6, <2>7
<1> QED BY <1>0, <1>2, <1>3, <1>4, <1>5, <1>6, StepKinds

-----------------------------------------------------------------------------
(* Answers.                                                                  *)

\* A call that took effect was told so, or was told of a failure.
TookEffect(c) == result[c].code \in {"ok", "runtime_failure"}

\* A step that records a receipt, and answers its call by it.
Effect(c) ==
  /\ Fresh(c)
  /\ UNCHANGED request
  /\ \E b \in BOOLEAN, i \in Call, n \in Nat :
       /\ receipts' = receipts \cup {ReceiptOf(c, i, n)}
       /\ Confirm(c, Done(b, i, n))
  /\ \A m \in members' : m.id = c \/ \E k \in members : k.id = m.id
  /\ \A g \in orgs' : g.id = c \/ \E k \in orgs : k.id = g.id

LEMMA EffectSteps ==
  ASSUME TablesTypeOK, NEW c \in Call,
         Create(c) \/ AddNew(c) \/ AddExisting(c) \/ Remove(c)
  PROVE  Effect(c)
<1>1. CASE Create(c)
  <2>1. NewOrg(c).id = c /\ NewOwner(c).id = c
    BY DEF NewOrg, NewOwner
  <2>2. /\ Fresh(c) /\ UNCHANGED request
        /\ receipts' = receipts \cup {ReceiptOf(c, c, 1)}
        /\ Confirm(c, Done(TRUE, c, 1))
    BY <1>1 DEF Create
  <2>3. \E b \in BOOLEAN, i \in Call, n \in Nat :
          /\ receipts' = receipts \cup {ReceiptOf(c, i, n)}
          /\ Confirm(c, Done(b, i, n))
    BY <2>2
  <2> QED BY <1>1, <2>1, <2>2, <2>3 DEF Create, Effect
<1>2. CASE AddNew(c)
  <2>1. NewMember(c).id = c
    BY DEF NewMember
  <2>2. /\ Fresh(c) /\ UNCHANGED request
        /\ receipts' = receipts \cup {ReceiptOf(c, c, 1)}
        /\ Confirm(c, Done(TRUE, c, 1))
    BY <1>2 DEF AddNew, Enters
  <2>3. \E b \in BOOLEAN, i \in Call, n \in Nat :
          /\ receipts' = receipts \cup {ReceiptOf(c, i, n)}
          /\ Confirm(c, Done(b, i, n))
    BY <2>2
  <2> QED BY <1>2, <2>1, <2>2, <2>3 DEF AddNew, Effect
<1>3. CASE AddExisting(c)
  <2>1. PICK m \in Found(c) :
          /\ receipts' = receipts \cup {ReceiptOf(c, m.id, m.revision)}
          /\ Confirm(c, Done(FALSE, m.id, m.revision))
    BY <1>3 DEF AddExisting
  <2>2. m.id \in Call /\ m.revision \in Nat
    BY DEF TablesTypeOK, Found, ActiveMembers, Member
  <2>3. \E b \in BOOLEAN, i \in Call, n \in Nat :
          /\ receipts' = receipts \cup {ReceiptOf(c, i, n)}
          /\ Confirm(c, Done(b, i, n))
    BY <2>1, <2>2
  <2> QED BY <1>3, <2>3 DEF AddExisting, Enters, Effect
<1>4. CASE Remove(c)
  <2>1. PICK m \in Found(c) :
          /\ members' = (members \ {m}) \cup {RemovedMember(m)}
          /\ receipts' = receipts \cup {ReceiptOf(c, m.id, m.revision + 1)}
          /\ Confirm(c, Done(TRUE, m.id, m.revision + 1))
    BY <1>4 DEF Remove
  <2>2. m \in members /\ m.id \in Call /\ m.revision + 1 \in Nat
    BY DEF TablesTypeOK, Found, ActiveMembers, Member
  <2>3. \E b \in BOOLEAN, i \in Call, n \in Nat :
          /\ receipts' = receipts \cup {ReceiptOf(c, i, n)}
          /\ Confirm(c, Done(b, i, n))
    BY <2>1, <2>2
  <2>4. RemovedMember(m).id = m.id
    BY DEF RemovedMember
  <2> QED BY <1>4, <2>1, <2>2, <2>3, <2>4 DEF Remove, Enters, Effect
<1> QED BY <1>1, <1>2, <1>3, <1>4

\* Of two calls that changed something, no two share a key.
OneChange ==
  \A c, d \in Call :
    Confirmed(c) /\ Confirmed(d) /\ SameKey(c, d) /\ c # d =>
      ~(result[c].changed /\ result[d].changed)

\* Every receipt was recorded by a call that took effect.
ReceiptsHaveCalls ==
  \A r \in receipts :
    \E d \in Call :
      /\ r.family = Family(d) /\ r.caller = request[d].caller
      /\ r.key = request[d].key /\ r.intent = Intent(d)
      /\ TookEffect(d)

\* So was every row.
RowsHaveCalls ==
  /\ \A m \in members : m.id \in Call /\ TookEffect(m.id)
  /\ \A g \in orgs : g.id \in Call /\ TookEffect(g.id)

ServiceInv ==
  /\ RowInv
  /\ ReceiptsSound
  /\ EffectsHaveReceipts
  /\ ConfirmedIsDurable
  /\ OneChange
  /\ ReceiptsHaveCalls
  /\ RowsHaveCalls
  /\ ConflictIsReal

LEMMA ServiceStart == ASSUME TablesInit PROVE ServiceInv
<1>1. /\ orgs = {} /\ members = {} /\ receipts = {}
      /\ \A c \in Call : result[c].code = "pending"
  BY DEF TablesInit, Pending
<1> QED
  BY <1>1, RowStart
     DEF ServiceInv, ReceiptsSound, EffectsHaveReceipts, ConfirmedIsDurable, OneChange,
         ReceiptsHaveCalls, RowsHaveCalls, ConflictIsReal, Confirmed

\* The codes of the answers.
LEMMA Codes ==
  /\ Failed.code = "runtime_failure" /\ Pending.code = "pending"
  /\ \A e : Refused(e).code = e
  /\ \A b, i, n : /\ Done(b, i, n).code = "ok" /\ Done(b, i, n).changed = b
                  /\ Done(b, i, n).id = i /\ Done(b, i, n).revision = n
BY DEF Failed, Pending, Refused, Done

\* The same command has the same recorded intent.
LEMMA SameIntent ==
  ASSUME request \in [Call -> Request], NEW c \in Call, NEW d \in Call
  PROVE  SameCommand(c, d) <=> Intent(c) = Intent(d)
<1>1. request[c].intent \in CreateIntent \cup MemberIntent
      /\ request[d].intent \in CreateIntent \cup MemberIntent
  BY DEF Request
<1>2. CASE IsCreate(c) /\ IsCreate(d)
  <2>1. request[c].intent \in CreateIntent /\ request[d].intent \in CreateIntent
    BY <1>2, IntentType
  <2> QED BY <1>2, <2>1 DEF SameCommand, Intent, IsCreate, Op, CreateIntent
<1>3. CASE ~IsCreate(c) /\ ~IsCreate(d)
  BY <1>3 DEF SameCommand, Intent
<1>4. CASE (IsCreate(c) /\ ~IsCreate(d)) \/ (~IsCreate(c) /\ IsCreate(d))
  <2>1. Op(c) # Op(d)
    BY <1>4 DEF IsCreate
  <2>2. Intent(c) # Intent(d)
    BY <2>1, IntentFields
  <2>3. ~SameCommand(c, d)
    BY <1>4, <2>1 DEF SameCommand, Op
  <2> QED BY <2>2, <2>3
<1> QED BY <1>2, <1>3, <1>4 DEF IsCreate

\* What a call asks for is the same before and after a step.
LEMMA RequestKept ==
  ASSUME UNCHANGED request
  PROVE  \A c, d \in Call :
           /\ SameKey(c, d)' <=> SameKey(c, d)
           /\ SameCommand(c, d)' <=> SameCommand(c, d)
           /\ Family(c)' = Family(c) /\ Intent(c)' = Intent(c)
           /\ \A i, n : ReceiptOf(c, i, n)' = ReceiptOf(c, i, n)
<1>1. \A c \in Call : IsCreate(c)' <=> IsCreate(c)
  BY DEF IsCreate, Op
<1>2. \A c \in Call : Family(c)' = Family(c) /\ Intent(c)' = Intent(c)
  BY <1>1 DEF Family, Intent
<1> QED BY <1>1, <1>2 DEF SameKey, SameCommand, ReceiptOf

\* Only a waiting call is answered.
LEMMA AnswerOnly ==
  ASSUME TablesTypeOK, NEW c \in Call, NEW r, Answer(c, r), Waiting(c)
  PROVE  /\ result'[c] = r
         /\ \A d \in Call \ {c} : result'[d] = result[d]
         /\ result[c].code = "pending"
BY DEF TablesTypeOK, Answer, Waiting, Pending

\* A call that uses a key finds the receipts of all that used it before.
LEMMA KeyUsed ==
  ASSUME ServiceInv, NEW c \in Call, NEW d \in Call, SameKey(c, d), Confirmed(d)
  PROVE  ReceiptOf(d, result[d].id, result[d].revision) \in Matching(c)
BY ReceiptFields DEF ServiceInv, ConfirmedIsDurable, SameKey, Matching

LEMMA ServiceStep ==
  ASSUME ServiceInv, [ServiceNext]_serviceVars
  PROVE  ServiceInv'
<1>0. RowInv /\ TablesTypeOK /\ request \in [Call -> Request]
  BY DEF ServiceInv, RowInv, TablesTypeOK
<1>1. RowInv' /\ ReceiptsSound' /\ EffectsHaveReceipts'
  BY RowStep, SoundStep, EffectsStep DEF ServiceInv
<1>2. receipts \subseteq receipts'
  BY <1>0, RowsFollow
<1>3. CASE UNCHANGED serviceVars \/ \E o \in Call : ArchiveOrg(o)
  <2>1. UNCHANGED <<members, receipts, request, result>>
    BY <1>3 DEF serviceVars, ArchiveOrg
  <2>2. \A g \in orgs' : \E k \in orgs : k.id = g.id
    BY <1>0, <1>3, ArchivedType DEF serviceVars, ArchiveOrg, TablesTypeOK
  <2>3. \A d \in Call : /\ TookEffect(d)' <=> TookEffect(d)
                        /\ Confirmed(d)' <=> Confirmed(d)
    BY <2>1 DEF TookEffect, Confirmed
  <2>4. RowsHaveCalls'
    BY <2>1, <2>2, <2>3 DEF ServiceInv, RowsHaveCalls
  <2>5. ConfirmedIsDurable' /\ OneChange'
    BY <2>1, <2>3, RequestKept DEF ServiceInv, ConfirmedIsDurable, OneChange
  <2>6. ReceiptsHaveCalls'
    BY <2>1, <2>3, RequestKept DEF ServiceInv, ReceiptsHaveCalls
  <2>7. ConflictIsReal'
    BY <2>1, RequestKept DEF ServiceInv, ConflictIsReal
  <2> QED BY <1>1, <2>4, <2>5, <2>6, <2>7 DEF ServiceInv
<1>4. ASSUME NEW c \in Call, Answers(c)
      PROVE  ServiceInv'
  <2>1. UNCHANGED <<orgs, members, receipts, request>> /\ Waiting(c)
    BY <1>4 DEF Answers
  <2>2. /\ \A d \in Call \ {c} : result'[d] = result[d]
        /\ result[c].code = "pending"
    BY <1>0, <1>4, AnswerOnly DEF Answers
  <2>3. \/ /\ result'[c].code = "idempotency_conflict"
           /\ \E r \in Matching(c) : r.intent # Intent(c)
        \/ result'[c].code \notin {"ok", "idempotency_conflict"}
        \/ \E r \in Matching(c) :
             /\ r.intent = Intent(c) /\ result'[c].code = "ok"
             /\ result'[c].changed = FALSE
             /\ result'[c].id = r.id /\ result'[c].revision = r.revision
    <3>1. CASE \E e \in Refusals :
                 /\ Answer(c, Refused(e))
                 /\ e = "idempotency_conflict" => \E r \in Matching(c) : r.intent # Intent(c)
      <4>1. \A e \in Refusals : e # "ok"
        BY DEF Refusals
      <4> QED BY <1>0, <2>1, <3>1, <4>1, AnswerOnly, Codes
    <3>2. CASE Answer(c, Failed)
      BY <1>0, <2>1, <3>2, AnswerOnly, Codes
    <3>3. CASE \E r \in Matching(c) :
                 r.intent = Intent(c) /\ Answer(c, Done(FALSE, r.id, r.revision))
      <4>1. PICK r \in Matching(c) :
              r.intent = Intent(c) /\ Answer(c, Done(FALSE, r.id, r.revision))
        BY <3>3
      <4>2. result'[c] = Done(FALSE, r.id, r.revision)
        BY <1>0, <2>1, <4>1, AnswerOnly
      <4>3. /\ result'[c].code = "ok" /\ result'[c].changed = FALSE
            /\ result'[c].id = r.id /\ result'[c].revision = r.revision
        BY <4>2 DEF Done
      <4> QED BY <4>1, <4>3
    <3> QED BY <1>4, <3>1, <3>2, <3>3 DEF Answers
  <2>4. \A d \in Call : TookEffect(d) => d # c /\ TookEffect(d)'
    BY <2>2 DEF TookEffect
  <2>5. ReceiptsHaveCalls'
    BY <2>1, <2>4, RequestKept DEF ServiceInv, ReceiptsHaveCalls
  <2>6. RowsHaveCalls'
    BY <2>1, <2>4 DEF ServiceInv, RowsHaveCalls
  <2>7. ConfirmedIsDurable'
    <3>1. SUFFICES ASSUME NEW d \in Call, result'[d].code = "ok"
                   PROVE  ReceiptOf(d, result'[d].id, result'[d].revision) \in receipts
      BY <2>1, RequestKept DEF ConfirmedIsDurable, Confirmed, ReceiptOf
    <3>2. CASE d # c
      BY <2>2, <3>1, <3>2 DEF ServiceInv, ConfirmedIsDurable, Confirmed
    <3>3. CASE d = c
      <4>1. PICK r \in Matching(c) :
              /\ r.intent = Intent(c)
              /\ result'[c].id = r.id /\ result'[c].revision = r.revision
        BY <2>3, <3>1, <3>3
      <4>2. r \in Receipt /\ r \in receipts
        BY <1>0 DEF Matching, TablesTypeOK
      <4>3. r = ReceiptOf(c, r.id, r.revision)
        BY <4>1, <4>2 DEF Matching, Receipt, ReceiptOf
      <4> QED BY <3>3, <4>1, <4>2, <4>3
    <3> QED BY <3>2, <3>3
  <2>8. OneChange'
    BY <2>1, <2>2, <2>3, RequestKept DEF ServiceInv, OneChange, Confirmed
  <2>9. ConflictIsReal'
    <3>1. SUFFICES ASSUME NEW d \in Call, result'[d].code = "idempotency_conflict"
                   PROVE  \E b \in Call : /\ SameKey(d, b) /\ ~SameCommand(d, b)
                                          /\ TookEffect(b)'
      BY <2>1, RequestKept DEF ConflictIsReal, TookEffect
    <3>2. CASE d # c
      BY <2>2, <2>4, <3>1, <3>2 DEF ServiceInv, ConflictIsReal, TookEffect
    <3>3. CASE d = c
      <4>1. PICK r \in Matching(c) : r.intent # Intent(c)
        BY <2>3, <3>1, <3>3
      <4>2. PICK b \in Call :
              /\ r.family = Family(b) /\ r.caller = request[b].caller
              /\ r.key = request[b].key /\ r.intent = Intent(b)
              /\ TookEffect(b)
        BY DEF ServiceInv, ReceiptsHaveCalls, Matching
      <4>3. SameKey(c, b) /\ ~SameCommand(c, b)
        BY <1>0, <4>1, <4>2, SameIntent DEF Matching, SameKey
      <4> QED BY <2>4, <3>3, <4>2, <4>3
    <3> QED BY <3>2, <3>3
  <2> QED BY <1>1, <2>5, <2>6, <2>7, <2>8, <2>9 DEF ServiceInv
<1>5. ASSUME NEW c \in Call, Effect(c)
      PROVE  ServiceInv'
  <2>1. PICK b \in BOOLEAN, i \in Call, n \in Nat :
          /\ receipts' = receipts \cup {ReceiptOf(c, i, n)}
          /\ Confirm(c, Done(b, i, n))
    BY <1>5 DEF Effect
  <2>2. Waiting(c) /\ UNCHANGED request /\ Matching(c) = {}
    BY <1>5 DEF Effect, Fresh
  <2>3. /\ \A d \in Call \ {c} : result'[d] = result[d]
        /\ result[c].code = "pending"
        /\ \/ result'[c].code = "runtime_failure"
           \/ /\ result'[c].code = "ok" /\ result'[c].id = i
              /\ result'[c].revision = n
    BY <1>0, <2>1, <2>2, AnswerOnly, Codes DEF Confirm
  <2>4. TookEffect(c)' /\ \A d \in Call : TookEffect(d) => TookEffect(d)'
    BY <2>3 DEF TookEffect
  <2>5. ReceiptsHaveCalls'
    <3>1. \A r \in receipts :
            \E d \in Call :
              /\ r.family = Family(d)' /\ r.caller = request'[d].caller
              /\ r.key = request'[d].key /\ r.intent = Intent(d)'
              /\ TookEffect(d)'
      BY <2>2, <2>4, RequestKept DEF ServiceInv, ReceiptsHaveCalls
    <3>2. LET r == ReceiptOf(c, i, n)
          IN  /\ r.family = Family(c)' /\ r.caller = request'[c].caller
              /\ r.key = request'[c].key /\ r.intent = Intent(c)'
              /\ TookEffect(c)'
      BY <2>2, <2>4, RequestKept, ReceiptFields
    <3> QED BY <2>1, <3>1, <3>2 DEF ReceiptsHaveCalls
  <2>6. RowsHaveCalls'
    BY <1>1, <1>5, <2>4 DEF ServiceInv, RowInv, TablesTypeOK, Member, Org, RowsHaveCalls, Effect
  <2>7. ConfirmedIsDurable'
    <3>1. SUFFICES ASSUME NEW d \in Call, result'[d].code = "ok"
                   PROVE  ReceiptOf(d, result'[d].id, result'[d].revision) \in receipts'
      BY <2>2, RequestKept DEF ConfirmedIsDurable, Confirmed, ReceiptOf
    <3>2. CASE d # c
      BY <1>2, <2>3, <3>1, <3>2 DEF ServiceInv, ConfirmedIsDurable, Confirmed
    <3>3. CASE d = c
      BY <2>1, <2>3, <3>1, <3>3
    <3> QED BY <3>2, <3>3
  <2>8. \A d \in Call \ {c} : Confirmed(d)' => ~SameKey(c, d)
    BY <2>2, <2>3, KeyUsed DEF Confirmed
  <2>9. OneChange'
    <3>1. \A d \in Call \ {c} : ~(Confirmed(d)' /\ SameKey(d, c))
      BY <2>8 DEF SameKey
    <3> QED BY <2>2, <2>3, <2>8, <3>1, RequestKept DEF ServiceInv, OneChange, Confirmed
  <2>10. ConflictIsReal'
    <3>1. SUFFICES ASSUME NEW d \in Call, result'[d].code = "idempotency_conflict"
                   PROVE  \E e \in Call : /\ SameKey(d, e) /\ ~SameCommand(d, e)
                                          /\ TookEffect(e)'
      BY <2>2, RequestKept DEF ConflictIsReal, TookEffect
    <3> QED BY <2>3, <2>4, <3>1 DEF ServiceInv, ConflictIsReal, TookEffect
  <2> QED BY <1>1, <2>5, <2>6, <2>7, <2>9, <2>10 DEF ServiceInv
<1> QED BY <1>0, <1>3, <1>4, <1>5, StepKinds, EffectSteps

LEMMA ServiceInvCorrect == ServiceSpec => []ServiceInv
BY ServiceStart, ServiceStep, PTL DEF ServiceSpec

-----------------------------------------------------------------------------
(* What follows of the calls.                                                *)

\* The retries of a command agree: their receipts are one row.
LEMMA RetriesFollow == ASSUME ServiceInv PROVE RetriesAgree
<1>0. request \in [Call -> Request]
  BY DEF ServiceInv, RowInv, TablesTypeOK
<1>1. SUFFICES ASSUME NEW c \in Call, NEW d \in Call, c # d,
                      Confirmed(c), Confirmed(d), SameKey(c, d)
               PROVE  /\ SameCommand(c, d)
                      /\ result[c].id = result[d].id
                      /\ result[c].revision = result[d].revision
                      /\ ~(result[c].changed /\ result[d].changed)
  BY DEF RetriesAgree
<1> DEFINE R(e) == ReceiptOf(e, result[e].id, result[e].revision)
<1>2. R(c) \in receipts /\ R(d) \in receipts
  BY <1>1 DEF ServiceInv, ConfirmedIsDurable
<1>3. /\ R(c).family = R(d).family /\ R(c).caller = R(d).caller
      /\ R(c).key = R(d).key
  BY <1>1, ReceiptFields DEF SameKey
<1>4. R(c) = R(d)
  BY <1>2, <1>3 DEF ServiceInv, ReceiptsSound
<1>5. /\ Intent(c) = Intent(d) /\ result[c].id = result[d].id
      /\ result[c].revision = result[d].revision
  BY <1>4, ReceiptFields
<1> QED BY <1>0, <1>1, <1>5, SameIntent DEF ServiceInv, OneChange

\* A refused call left no row and no receipt: those that did were not refused.
LEMMA RefusalsFollow == ASSUME ServiceInv PROVE RefusedWithoutTrace
<1>1. \A c \in Call : TookEffect(c) => result[c].code \notin Refusals
  BY DEF TookEffect, Refusals
<1>2. ASSUME NEW c \in Call, NEW r \in Matching(c)
      PROVE  \E d \in Call : SameKey(c, d) /\ TookEffect(d)
  BY DEF ServiceInv, ReceiptsHaveCalls, Matching, SameKey
<1> QED BY <1>1, <1>2 DEF ServiceInv, RowsHaveCalls, RefusedWithoutTrace

\* Whatever storage implements the service, at any time: the confirmations of
\* a command agree and rest on committed receipts, every effect has one
\* receipt, a refused call leaves nothing behind, and a key conflict is real.
THEOREM ServiceCallsCorrect ==
  ServiceSpec => [](/\ RetriesAgree
                    /\ ConfirmedIsDurable
                    /\ ReceiptsSound
                    /\ EffectsHaveReceipts
                    /\ RefusedWithoutTrace
                    /\ ConflictIsReal)
<1>1. ServiceInv => /\ RetriesAgree /\ ConfirmedIsDurable /\ ReceiptsSound
                 /\ EffectsHaveReceipts /\ RefusedWithoutTrace /\ ConflictIsReal
  BY RetriesFollow, RefusalsFollow DEF ServiceInv
<1> QED BY <1>1, ServiceInvCorrect, PTL

\* Whatever storage implements the service: no two active Organizations share
\* a slug, no subject is an active member twice, every Organization keeps its
\* one owner, and a membership's revision tells whether it was removed.
THEOREM ServiceRowsCorrect ==
  ServiceSpec => [](/\ ActiveSlugUnique
                    /\ OneActiveMembership
                    /\ OwnerKept
                    /\ RevisionTellsState)
<1>1. RowInv => /\ ActiveSlugUnique /\ OneActiveMembership
                /\ OwnerKept /\ RevisionTellsState
  BY DEF RowInv
<1> QED BY <1>1, RowCorrect, PTL

=============================================================================
