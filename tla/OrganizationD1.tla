---------------------------- MODULE OrganizationD1 ----------------------------
(***************************************************************************)
(* create_organization, add_member and remove_member of the D1 Plugin.     *)
(*                                                                         *)
(* A command is one batch of SQL statements, which the database executes   *)
(* atomically.  Its branches are the WHERE clauses: the statements hand    *)
(* what they know to each other in the only row of organization_operation, *)
(* which the batch deletes first and last, so that no other batch ever     *)
(* sees it.  Each statement on that row is an operator from the row before *)
(* to the row after it.  No statement reads a table that an earlier one of *)
(* its batch has written, so all of them read the committed tables.        *)
(***************************************************************************)
EXTENDS OrganizationService, OrganizationSafety, Sequences

CONSTANT Null  \* of the column membership_id

ASSUME NullAssumption == Null \notin Call

VARIABLES
  prepared,   \* Provider::prepared
  verifying,  \* prepare awaits the verification of the schema
  sent,       \* the calls whose batch is on its way to the database
  inserted    \* membership ids in the order of their "sequence" column

vars == <<orgs, members, receipts, request, result,
          prepared, verifying, sent, inserted>>

-----------------------------------------------------------------------------
(* Statements of every batch. *)

NoError(w) == w.error = "none"

\* "error IS NULL AND response IS NULL"
Open(w) == NoError(w) /\ w.response = Pending

\* The columns that differ from batch to batch of one call.
Columns(error, response, fresh, id, revision) ==
  [error |-> error, response |-> response, fresh |-> fresh, id |-> id,
   revision |-> revision]

Reject(w, e) == Columns(e, w.response, w.fresh, w.id, w.revision)

Respond(w, r) == Columns(w.error, r, w.fresh, w.id, w.revision)

\* SET membership_id, revision, fresh
Assign(w, id, revision, fresh) ==
  Columns(w.error, w.response, fresh, id, revision)

\* The INSERT decides admission, inside the batch.
AdmitRow(c) ==
  Columns(IF ~Authorized(c) THEN "forbidden"
          ELSE IF ~request[c].valid THEN "invalid" ELSE "none",
          Pending, FALSE, Null, 0)

MarkConflict(c, w) ==
  IF NoError(w) /\ \E r \in Matching(c) : r.intent # Intent(c)
    THEN Reject(w, "idempotency_conflict") ELSE w

\* The recorded response, with "created" or "removed" set to false.
LoadReplay(c, w) ==
  IF NoError(w) /\ Matching(c) # {}
    THEN LET r == CHOOSE r \in Matching(c) : TRUE
         IN Respond(w, Done(FALSE, r.id, r.revision))
    ELSE w

Opened(c) == LoadReplay(c, MarkConflict(c, AdmitRow(c)))

-----------------------------------------------------------------------------
(* CREATE *)

RejectSlug(c, w) ==
  IF Open(w) /\ SlugTaken(request[c].intent.slug)
    THEN Reject(w, "slug_conflict") ELSE w

\* Draws the identifiers of the Organization and of its owner's membership,
\* whose revision 1 is the column's default.
DrawOrganization(c, w) ==
  IF Open(w) THEN Assign(w, c, 1, TRUE) ELSE w

\* "fresh=1 AND error IS NULL"
Writes(w) == w.fresh /\ NoError(w)

RespondFresh(w) ==
  IF Writes(w) THEN Respond(w, Done(TRUE, w.id, w.revision)) ELSE w

CreateRow(c) == RespondFresh(DrawOrganization(c, RejectSlug(c, Opened(c))))

-----------------------------------------------------------------------------
(* ADD and REMOVE *)

\* Mutant: an archived Organization rejects a replay, too.
RejectOrganizationAlways(c, w) ==
  IF NoError(w) /\ ~ActiveOrg(request[c].intent.org)
    THEN Reject(w, "organization_not_found") ELSE w

RejectOrganization(c, w) ==
  IF Open(w) /\ ~ActiveOrg(request[c].intent.org)
    THEN Reject(w, "organization_not_found") ELSE w

ReadMember(c, w) ==
  IF Open(w) /\ Found(c) # {}
    THEN LET m == CHOOSE m \in Found(c) : TRUE
         IN Assign(w, m.id, m.revision, w.fresh)
    ELSE w

DrawMember(c, w) ==
  IF Open(w) /\ w.id = Null
    THEN Assign(w, c, 1, TRUE) ELSE w

\* Mutant: only a membership that was inserted is reported.
RespondAddedFresh(w) ==
  IF Open(w) /\ w.fresh THEN Respond(w, Done(TRUE, w.id, w.revision)) ELSE w

RespondAdded(w) ==
  IF Open(w) THEN Respond(w, Done(w.fresh, w.id, w.revision)) ELSE w

AddRow(c) ==
  RespondAdded(DrawMember(c, ReadMember(c, RejectOrganization(c, Opened(c)))))

RejectMember(w) ==
  IF Open(w) /\ w.id = Null THEN Reject(w, "membership_not_found") ELSE w

ProtectOwner(w) ==
  IF Open(w) /\ \E m \in members : m.id = w.id /\ m.owner
    THEN Reject(w, "owner_protected") ELSE w

Revise(w) ==
  IF Open(w) THEN Assign(w, w.id, w.revision + 1, TRUE) ELSE w

RemoveRow(c) ==
  RespondFresh(Revise(ProtectOwner(RejectMember(
    ReadMember(c, RejectOrganization(c, Opened(c)))))))

-----------------------------------------------------------------------------
(* The batch and its answer. *)

\* The row after the last statement on it.
Row(c) == IF IsCreate(c) THEN CreateRow(c)
          ELSE IF Op(c) = "add_member" THEN AddRow(c) ELSE RemoveRow(c)

\* Rows the UPDATE of organization_memberships hits.
Removed(c, w) ==
  {m \in members : Op(c) = "remove_member" /\ Writes(w) /\ m.id = w.id}

Revised(m, w) ==
  [id |-> m.id, org |-> m.org, subject |-> m.subject, owner |-> m.owner,
   active |-> FALSE, revision |-> w.revision]

Inserts(c, w) == Op(c) # "remove_member" /\ Writes(w)

Write(c, w) ==
  /\ orgs' = orgs \cup (IF IsCreate(c) /\ Inserts(c, w) THEN {NewOrg(c)} ELSE {})
  /\ members' = (members \ Removed(c, w))
                  \cup {Revised(m, w) : m \in Removed(c, w)}
                  \cup (IF ~Inserts(c, w) THEN {}
                        ELSE IF IsCreate(c) THEN {NewOwner(c)} ELSE {NewMember(c)})
  /\ inserted' = IF Inserts(c, w) THEN Append(inserted, c) ELSE inserted

Record(c, w) ==
  receipts' = receipts \cup
    (IF NoError(w) /\ Matching(c) = {}
       THEN {ReceiptOf(c, w.response.id, w.response.revision)} ELSE {})

\* decode
Decoded(w) == IF NoError(w) THEN w.response ELSE Refused(w.error)

\* ready() fails before anything is sent.
NotReady(c) ==
  /\ Waiting(c) /\ c \notin sent
  /\ ~prepared
  /\ Answer(c, Failed)
  /\ UNCHANGED <<tables, request, prepared, verifying, sent, inserted>>

\* ready() succeeds and the batch is handed to the binding, in one poll.
Send(c) ==
  /\ Waiting(c) /\ c \notin sent
  /\ prepared
  /\ sent' = sent \cup {c}
  /\ UNCHANGED <<tables, request, result, prepared, verifying, inserted>>

\* The database executes the batch; its receipts can be lost on the way back.
Execute(c) ==
  /\ c \in sent
  /\ sent' = sent \ {c}
  /\ Write(c, Row(c)) /\ Record(c, Row(c))
  /\ Confirm(c, Decoded(Row(c)))
  /\ UNCHANGED <<request, prepared, verifying>>

\* A statement fails, and the batch with it, or the batch never arrives.
Abort(c) ==
  /\ c \in sent
  /\ sent' = sent \ {c}
  /\ Answer(c, Failed)
  /\ UNCHANGED <<tables, request, prepared, verifying, inserted>>

-----------------------------------------------------------------------------
(* The lifecycle, the Operator, and the membership check. *)

Prepare ==
  /\ ~verifying
  /\ prepared' = FALSE
  /\ verifying' = TRUE
  /\ UNCHANGED <<tables, request, result, sent, inserted>>

\* Plan::verify succeeds, or fails.
Verified ==
  /\ verifying
  /\ prepared' \in BOOLEAN
  /\ verifying' = FALSE
  /\ UNCHANGED <<tables, request, result, sent, inserted>>

Deactivate ==
  /\ prepared
  /\ prepared' = FALSE
  /\ UNCHANGED <<tables, request, result, verifying, sent, inserted>>

\* UPDATE organizations SET active=0 by the Operator.
Archive(o) == ArchiveOrg(o) /\ UNCHANGED <<prepared, verifying, sent, inserted>>

\* Mutant: ORDER BY sequence.
FirstRow(o, s) ==
  LET rows == {m \in members : m.org = o /\ m.subject = s}
      At(m) == CHOOSE i \in 1..Len(inserted) : inserted[i] = m.id
  IN {m \in rows : \A n \in rows : At(m) <= At(n)}

\* ORDER BY sequence DESC LIMIT 1
LastRow(o, s) ==
  LET rows == {m \in members : m.org = o /\ m.subject = s}
      At(m) == CHOOSE i \in 1..Len(inserted) : inserted[i] = m.id
  IN {m \in rows : \A n \in rows : At(n) <= At(m)}

\* What check_membership answers for an active Organization.
CheckAnswer(o, s) ==
  [active |-> \E m \in LastRow(o, s) : m.active,
   owner |-> \E m \in LastRow(o, s) : m.active /\ m.owner]

-----------------------------------------------------------------------------
Init ==
  /\ TablesInit
  /\ prepared = FALSE
  /\ verifying = FALSE
  /\ sent = {}
  /\ inserted = <<>>

Next ==
  \/ \E c \in Call : NotReady(c) \/ Send(c) \/ Execute(c) \/ Abort(c)
  \/ Prepare \/ Verified \/ Deactivate
  \/ \E o \in Call : Archive(o)

Spec == Init /\ [][Next]_vars

-----------------------------------------------------------------------------
\* Every variable has its type.
TypeOK ==
  /\ TablesTypeOK
  /\ prepared \in BOOLEAN
  /\ verifying \in BOOLEAN
  /\ sent \subseteq Call
  /\ inserted \in Seq(Call)

\* Whatever the tables hold when a batch runs, it comes to an answer, and to
\* one only: no chain of WHERE clauses leaves the row with neither an error
\* nor a response (the receipt's NOT NULL column would abort the batch), and
\* none writes and then refuses.
BatchDecides ==
  \A c \in sent :
    LET w == Row(c) IN
    /\ NoError(w) => w.response \in Reply
    /\ w.response.code = "ok" => NoError(w)
    /\ w.fresh => w.response.code = "ok" /\ w.response.changed

\* check_membership says exactly who is an active member, and an owner:
\* the row inserted last is the active one if there is one.
CheckTellsMembership ==
  \A o \in Call, s \in Subject :
    ActiveOrg(o) =>
      CheckAnswer(o, s) =
        [active |-> ActiveMembers(o, s) # {},
         owner |-> \E m \in ActiveMembers(o, s) : m.owner]

\* The batches implement the indivisible commands, under the same tables,
\* requests and answers.
ImplementsService == ServiceSpec

=============================================================================
