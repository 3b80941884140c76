------------------------- MODULE OrganizationD1Proofs -------------------------
(* Theorems about the D1 implementation. *)
EXTENDS OrganizationD1, OrganizationServiceProofs

-----------------------------------------------------------------------------
(* The row of organization_operation along a batch.                          *)

\* What the batch begins with.
Blank == Columns("none", Pending, FALSE, Null, 0)

\* What the first three statements on the row leave.
LEMMA OpenedRow ==
  ASSUME NEW c \in Call
  PROVE  /\ ~Authorized(c) =>
              Opened(c) = Columns("forbidden", Pending, FALSE, Null, 0)
         /\ Authorized(c) /\ ~request[c].valid =>
              Opened(c) = Columns("invalid", Pending, FALSE, Null, 0)
         /\ Admitted(c) /\ (\E r \in Matching(c) : r.intent # Intent(c)) =>
              Opened(c) = Columns("idempotency_conflict", Pending, FALSE, Null, 0)
         /\ Admitted(c) /\ Matching(c) # {}
              /\ (\A r \in Matching(c) : r.intent = Intent(c)) =>
              \E r \in Matching(c) :
                Opened(c) =
                  Columns("none", Done(FALSE, r.id, r.revision), FALSE, Null, 0)
         /\ Admitted(c) /\ Matching(c) = {} => Opened(c) = Blank
<1>1. ASSUME ~Authorized(c)
      PROVE  Opened(c) = Columns("forbidden", Pending, FALSE, Null, 0)
  <2>1. AdmitRow(c) = Columns("forbidden", Pending, FALSE, Null, 0)
    BY <1>1 DEF AdmitRow, Columns
  <2> QED BY <2>1 DEF Opened, MarkConflict, LoadReplay, NoError, Columns
<1>2. ASSUME Authorized(c), ~request[c].valid
      PROVE  Opened(c) = Columns("invalid", Pending, FALSE, Null, 0)
  <2>1. AdmitRow(c) = Columns("invalid", Pending, FALSE, Null, 0)
    BY <1>2 DEF AdmitRow, Columns
  <2> QED BY <2>1 DEF Opened, MarkConflict, LoadReplay, NoError, Columns
<1>3. ASSUME Admitted(c)
      PROVE  AdmitRow(c) = Blank
  BY <1>3 DEF AdmitRow, Admitted, Blank, Columns
<1>4. ASSUME Admitted(c), \E r \in Matching(c) : r.intent # Intent(c)
      PROVE  Opened(c) = Columns("idempotency_conflict", Pending, FALSE, Null, 0)
  <2>1. MarkConflict(c, AdmitRow(c))
          = Columns("idempotency_conflict", Pending, FALSE, Null, 0)
    <3>1. MarkConflict(c, Blank) = Reject(Blank, "idempotency_conflict")
      BY <1>4 DEF MarkConflict, NoError, Blank, Columns
    <3> QED BY <1>3, <1>4, <3>1 DEF Blank, Reject, Columns
  <2> QED BY <2>1 DEF Opened, LoadReplay, NoError, Columns
<1>5. ASSUME Admitted(c), \A r \in Matching(c) : r.intent = Intent(c)
      PROVE  MarkConflict(c, AdmitRow(c)) = Blank
  BY <1>3, <1>5 DEF MarkConflict
<1>6. ASSUME Admitted(c), Matching(c) # {}, \A r \in Matching(c) : r.intent = Intent(c)
      PROVE  \E r \in Matching(c) :
               Opened(c) =
                 Columns("none", Done(FALSE, r.id, r.revision), FALSE, Null, 0)
  <2> DEFINE r == CHOOSE r \in Matching(c) : TRUE
  <2>1. r \in Matching(c)
    BY <1>6
  <2>2. Opened(c) = Respond(Blank, Done(FALSE, r.id, r.revision))
    <3>1. NoError(Blank)
      BY DEF NoError, Blank, Columns
    <3> QED BY <1>5, <1>6, <3>1 DEF Opened, LoadReplay
  <2>3. Opened(c) = Columns("none", Done(FALSE, r.id, r.revision), FALSE, Null, 0)
    BY <2>2 DEF Blank, Respond, Columns
  <2> QED BY <2>1, <2>3
<1>7. ASSUME Admitted(c), Matching(c) = {}
      PROVE  Opened(c) = Blank
  BY <1>5, <1>7 DEF Opened, LoadReplay
<1> QED BY <1>1, <1>2, <1>4, <1>6, <1>7

\* A call asks for one of the three operations.
LEMMA Operations ==
  ASSUME TablesTypeOK, NEW c \in Call
  PROVE  /\ Op(c) \in {"create_organization", "add_member", "remove_member"}
         /\ ~IsCreate(c) => request[c].intent.org \in Call
BY DEF TablesTypeOK, Request, CreateIntent, MemberIntent, Op, IsCreate

\* Once an error or a replay stands in the row, no statement touches it.
LEMMA SettledRow ==
  ASSUME TablesTypeOK, NEW c \in Call, ~Open(Opened(c)), ~Opened(c).fresh
  PROVE  Row(c) = Opened(c)
<1> DEFINE w == Opened(c)
<1>1. /\ RejectSlug(c, w) = w /\ DrawOrganization(c, w) = w
      /\ RespondFresh(w) = w /\ RejectOrganization(c, w) = w
      /\ ReadMember(c, w) = w /\ DrawMember(c, w) = w /\ RespondAdded(w) = w
      /\ RejectMember(w) = w /\ ProtectOwner(w) = w /\ Revise(w) = w
  BY DEF RejectSlug, DrawOrganization, RespondFresh, Writes, RejectOrganization,
         ReadMember, DrawMember, RespondAdded, RejectMember, ProtectOwner, Revise
<1>2. CreateRow(c) = w
  BY <1>1 DEF CreateRow
<1>3. AddRow(c) = w
  BY <1>1 DEF AddRow
<1>4. RemoveRow(c) = w
  BY <1>1 DEF RemoveRow
<1> QED BY <1>2, <1>3, <1>4, Operations DEF Row

-----------------------------------------------------------------------------
(* The outcomes of a batch, one for each case of the service.                *)

Replays(c, w) ==
  \E r \in Matching(c) :
    /\ r.intent = Intent(c)
    /\ w = Columns("none", Done(FALSE, r.id, r.revision), FALSE, Null, 0)

Rejects(c, w) ==
  /\ w.error \in Refusals /\ w.response = Pending /\ ~w.fresh
  /\ \/ w.error = "forbidden" /\ ~Authorized(c)
     \/ w.error = "invalid" /\ Authorized(c) /\ ~request[c].valid
     \/ /\ w.error = "idempotency_conflict" /\ Admitted(c)
        /\ \E r \in Matching(c) : r.intent # Intent(c)
     \/ /\ Admitted(c) /\ Matching(c) = {}
        /\ \/ /\ w.error = "slug_conflict" /\ IsCreate(c)
              /\ SlugTaken(request[c].intent.slug)
           \/ /\ w.error = "organization_not_found" /\ ~IsCreate(c)
              /\ ~ActiveOrg(request[c].intent.org)
           \/ /\ ~IsCreate(c) /\ Op(c) = "remove_member"
              /\ ActiveOrg(request[c].intent.org)
              /\ \/ w.error = "membership_not_found" /\ Found(c) = {}
                 \/ w.error = "owner_protected" /\ \E m \in Found(c) : m.owner

\* The batch writes a new row, and the command is free to.
Creates(c, w) ==
  /\ IsCreate(c) /\ ~SlugTaken(request[c].intent.slug)
  /\ w = Columns("none", Done(TRUE, c, 1), TRUE, c, 1)

Adds(c, w) ==
  /\ ~IsCreate(c) /\ Op(c) = "add_member"
  /\ ActiveOrg(request[c].intent.org) /\ Found(c) = {}
  /\ w = Columns("none", Done(TRUE, c, 1), TRUE, c, 1)

Keeps(c, w) ==
  /\ ~IsCreate(c) /\ Op(c) = "add_member"
  /\ ActiveOrg(request[c].intent.org)
  /\ \E m \in Found(c) :
       w = Columns("none", Done(FALSE, m.id, m.revision), FALSE, m.id, m.revision)

Removes(c, w) ==
  /\ ~IsCreate(c) /\ Op(c) = "remove_member"
  /\ ActiveOrg(request[c].intent.org)
  /\ \E m \in Found(c) :
       /\ ~m.owner
       /\ w = Columns("none", Done(TRUE, m.id, m.revision + 1), TRUE,
                      m.id, m.revision + 1)

Outcome(c, w) ==
  \/ Rejects(c, w)
  \/ Admitted(c) /\ Replays(c, w)
  \/ /\ Admitted(c) /\ Matching(c) = {}
     /\ Creates(c, w) \/ Adds(c, w) \/ Keeps(c, w) \/ Removes(c, w)

LEMMA CreateOutcome ==
  ASSUME NEW c \in Call, Opened(c) = Blank, IsCreate(c),
         Admitted(c), Matching(c) = {}
  PROVE  Rejects(c, Row(c)) \/ Creates(c, Row(c))
<1>1. Row(c) = RespondFresh(DrawOrganization(c, RejectSlug(c, Blank)))
  BY DEF Row, CreateRow
<1>2. Open(Blank)
  BY DEF Open, NoError, Blank, Columns
<1>3. CASE SlugTaken(request[c].intent.slug)
  <2>1. RejectSlug(c, Blank) = Columns("slug_conflict", Pending, FALSE, Null, 0)
    BY <1>2, <1>3 DEF RejectSlug, Reject, Blank, Columns
  <2>2. Row(c) = Columns("slug_conflict", Pending, FALSE, Null, 0)
    BY <1>1, <2>1
       DEF RespondFresh, DrawOrganization, Open, NoError, Writes, Columns
  <2> QED BY <1>3, <2>2 DEF Rejects, Columns, Refusals
<1>4. CASE ~SlugTaken(request[c].intent.slug)
  <2>1. RejectSlug(c, Blank) = Blank
    BY <1>4 DEF RejectSlug
  <2>2. DrawOrganization(c, Blank) = Columns("none", Pending, TRUE, c, 1)
    BY <1>2 DEF DrawOrganization, Assign, Blank, Columns
  <2>3. Row(c) = Columns("none", Done(TRUE, c, 1), TRUE, c, 1)
    BY <1>1, <2>1, <2>2 DEF RespondFresh, Respond, Writes, NoError, Columns
  <2> QED BY <1>4, <2>3 DEF Creates
<1> QED BY <1>3, <1>4

LEMMA NoOrganizationOutcome ==
  ASSUME NEW c \in Call, Opened(c) = Blank, ~IsCreate(c),
         ~ActiveOrg(request[c].intent.org), Admitted(c), Matching(c) = {}
  PROVE  Rejects(c, Row(c))
<1> DEFINE w == Columns("organization_not_found", Pending, FALSE, Null, 0)
<1>1. RejectOrganization(c, Opened(c)) = w
  BY DEF RejectOrganization, Reject, Open, NoError, Blank, Columns
<1>2. ~Open(w) /\ ~NoError(w)
  BY DEF Open, NoError, Columns
<1> HIDE DEF w
<1>3. /\ ReadMember(c, w) = w /\ DrawMember(c, w) = w /\ RespondAdded(w) = w
      /\ RejectMember(w) = w /\ ProtectOwner(w) = w /\ Revise(w) = w
      /\ RespondFresh(w) = w
  BY <1>2 DEF RespondFresh, Writes, ReadMember, DrawMember, RespondAdded,
              RejectMember, ProtectOwner, Revise
<1>4. Row(c) = w
  BY <1>1, <1>3 DEF Row, AddRow, RemoveRow
<1> QED BY <1>4 DEF w, Rejects, Columns, Refusals

\* The membership the statements of a command in an active Organization find.
LEMMA MemberRow ==
  ASSUME NEW c \in Call, Opened(c) = Blank, ActiveOrg(request[c].intent.org)
  PROVE  LET w == ReadMember(c, RejectOrganization(c, Opened(c))) IN
         /\ Found(c) = {} => w = Blank
         /\ Found(c) # {} =>
              \E m \in Found(c) : w = Columns("none", Pending, FALSE, m.id, m.revision)
<1>1. RejectOrganization(c, Opened(c)) = Blank
  BY DEF RejectOrganization
<1>2. Open(Blank)
  BY DEF Open, NoError, Blank, Columns
<1>3. ASSUME Found(c) # {}
      PROVE  \E m \in Found(c) :
               ReadMember(c, Blank) = Columns("none", Pending, FALSE, m.id, m.revision)
  <2> DEFINE m == CHOOSE m \in Found(c) : TRUE
  <2>1. m \in Found(c)
    BY <1>3
  <2>2. ReadMember(c, Blank) = Assign(Blank, m.id, m.revision, Blank.fresh)
    BY <1>2, <1>3 DEF ReadMember
  <2>3. ReadMember(c, Blank) = Columns("none", Pending, FALSE, m.id, m.revision)
    BY <2>2 DEF Assign, Blank, Columns
  <2> QED BY <2>1, <2>3
<1> QED BY <1>1, <1>3 DEF ReadMember

LEMMA AddOutcome ==
  ASSUME RowInv, NEW c \in Call, Opened(c) = Blank, ~IsCreate(c),
         Op(c) = "add_member", ActiveOrg(request[c].intent.org)
  PROVE  Adds(c, Row(c)) \/ Keeps(c, Row(c))
<1> DEFINE w == ReadMember(c, RejectOrganization(c, Opened(c)))
<1>1. Row(c) = RespondAdded(DrawMember(c, w))
  BY DEF Row, AddRow
<1>2. CASE Found(c) = {}
  <2>1. w = Blank
    BY <1>2, MemberRow
  <2>2. DrawMember(c, Blank) = Columns("none", Pending, TRUE, c, 1)
    BY DEF DrawMember, Assign, Open, NoError, Blank, Columns
  <2>3. Row(c) = Columns("none", Done(TRUE, c, 1), TRUE, c, 1)
    BY <1>1, <2>1, <2>2 DEF RespondAdded, Respond, Open, NoError, Columns
  <2> QED BY <1>2, <2>3 DEF Adds
<1>3. CASE Found(c) # {}
  <2>1. PICK m \in Found(c) : w = Columns("none", Pending, FALSE, m.id, m.revision)
    BY <1>3, MemberRow
  <2>2. m.id # Null
    BY NullAssumption DEF Found, ActiveMembers, RowInv, TablesTypeOK, Member
  <2>3. DrawMember(c, w) = w
    BY <2>1, <2>2 DEF DrawMember, Columns
  <2>4. Row(c) = Columns("none", Done(FALSE, m.id, m.revision), FALSE,
                         m.id, m.revision)
    <3>1. Open(w) /\ w.error = "none" /\ w.fresh = FALSE /\ w.id = m.id
          /\ w.revision = m.revision
      BY <2>1 DEF Open, NoError, Columns
    <3>2. RespondAdded(w) = Respond(w, Done(FALSE, m.id, m.revision))
      BY <3>1 DEF RespondAdded
    <3> QED BY <1>1, <2>3, <3>1, <3>2 DEF Respond
  <2> QED BY <2>4 DEF Keeps
<1> QED BY <1>2, <1>3

LEMMA RemoveOutcome ==
  ASSUME RowInv, NEW c \in Call, Opened(c) = Blank, ~IsCreate(c),
         Op(c) = "remove_member", ActiveOrg(request[c].intent.org),
         Admitted(c), Matching(c) = {}
  PROVE  Rejects(c, Row(c)) \/ Removes(c, Row(c))
<1> DEFINE w == ReadMember(c, RejectOrganization(c, Opened(c)))
<1>1. Row(c) = RespondFresh(Revise(ProtectOwner(RejectMember(w))))
  BY DEF Row, RemoveRow
<1>2. CASE Found(c) = {}
  <2> DEFINE v == Columns("membership_not_found", Pending, FALSE, Null, 0)
  <2>1. w = Blank
    BY <1>2, MemberRow
  <2>2. RejectMember(Blank) = v
    BY DEF RejectMember, Reject, Open, NoError, Blank, Columns
  <2>3. ProtectOwner(v) = v /\ Revise(v) = v /\ RespondFresh(v) = v
    BY DEF ProtectOwner, Revise, RespondFresh, Writes, Open, NoError, Columns
  <2>4. Row(c) = v
    BY <1>1, <2>1, <2>2, <2>3
  <2> QED BY <1>2, <2>4 DEF Rejects, Columns, Refusals
<1>3. CASE Found(c) # {}
  <2>1. PICK m \in Found(c) : w = Columns("none", Pending, FALSE, m.id, m.revision)
    BY <1>3, MemberRow
  <2>2. /\ m \in members /\ m.id # Null /\ m.owner \in BOOLEAN
        /\ \A n \in members : n.id = m.id => n = m
    BY NullAssumption
       DEF Found, ActiveMembers, RowInv, TablesTypeOK, Member, IdsDistinct
  <2>3. RejectMember(w) = w /\ Open(w) /\ w.id = m.id
    BY <2>1, <2>2 DEF RejectMember, Open, NoError, Columns
  <2>4. CASE m.owner
    <3> DEFINE v == Columns("owner_protected", Pending, FALSE, m.id, m.revision)
    <3>1. ProtectOwner(w) = v
      BY <2>1, <2>2, <2>3, <2>4 DEF ProtectOwner, Reject, Columns
    <3>2. Revise(v) = v /\ RespondFresh(v) = v
      BY DEF Revise, RespondFresh, Writes, Open, NoError, Columns
    <3>3. Row(c) = v
      BY <1>1, <2>3, <3>1, <3>2
    <3> QED BY <2>4, <3>3 DEF Rejects, Columns, Refusals
  <2>5. CASE ~m.owner
    <3>1. ProtectOwner(w) = w
      BY <2>2, <2>3, <2>5 DEF ProtectOwner
    <3>2. Revise(w) = Columns("none", Pending, TRUE, m.id, m.revision + 1)
      BY <2>1, <2>3 DEF Revise, Assign, Columns
    <3>3. Row(c) = Columns("none", Done(TRUE, m.id, m.revision + 1), TRUE,
                           m.id, m.revision + 1)
      BY <1>1, <2>3, <3>1, <3>2 DEF RespondFresh, Respond, Writes, NoError, Columns
    <3> QED BY <2>5, <3>3 DEF Removes
  <2> QED BY <2>2, <2>4, <2>5
<1> QED BY <1>2, <1>3

\* Every batch comes to one of the outcomes.
LEMMA RowOutcome ==
  ASSUME RowInv, NEW c \in Call
  PROVE  Outcome(c, Row(c))
<1>0. TablesTypeOK
  BY DEF RowInv
<1>1. CASE ~Authorized(c)
  <2>1. Opened(c) = Columns("forbidden", Pending, FALSE, Null, 0)
    BY <1>1, OpenedRow
  <2>2. Row(c) = Opened(c)
    BY <1>0, <2>1, SettledRow DEF Open, NoError, Columns
  <2> QED BY <1>1, <2>1, <2>2 DEF Outcome, Rejects, Columns, Refusals
<1>2. CASE Authorized(c) /\ ~request[c].valid
  <2>1. Opened(c) = Columns("invalid", Pending, FALSE, Null, 0)
    BY <1>2, OpenedRow
  <2>2. Row(c) = Opened(c)
    BY <1>0, <2>1, SettledRow DEF Open, NoError, Columns
  <2> QED BY <1>2, <2>1, <2>2 DEF Outcome, Rejects, Columns, Refusals
<1>3. CASE Admitted(c) /\ \E r \in Matching(c) : r.intent # Intent(c)
  <2>1. Opened(c) = Columns("idempotency_conflict", Pending, FALSE, Null, 0)
    BY <1>3, OpenedRow
  <2>2. Row(c) = Opened(c)
    BY <1>0, <2>1, SettledRow DEF Open, NoError, Columns
  <2> QED BY <1>3, <2>1, <2>2 DEF Outcome, Rejects, Columns, Refusals
<1>4. CASE /\ Admitted(c) /\ Matching(c) # {}
           /\ \A r \in Matching(c) : r.intent = Intent(c)
  <2>1. PICK r \in Matching(c) :
          Opened(c) = Columns("none", Done(FALSE, r.id, r.revision), FALSE, Null, 0)
    BY <1>4, OpenedRow
  <2>2. Opened(c).response = Done(FALSE, r.id, r.revision) /\ ~Opened(c).fresh
    BY <2>1 DEF Columns
  <2>3. Done(FALSE, r.id, r.revision) # Pending
    BY DEF Done, Pending
  <2>4. Row(c) = Opened(c)
    BY <1>0, <2>2, <2>3, SettledRow DEF Open
  <2> QED BY <1>4, <2>1, <2>4 DEF Outcome, Replays
<1>5. CASE Admitted(c) /\ Matching(c) = {}
  <2>1. Opened(c) = Blank /\ Open(Blank) /\ Blank.id = Null /\ ~Blank.fresh
    BY <1>5, OpenedRow DEF Blank, Open, NoError, Columns
  <2>2. CASE IsCreate(c)
    BY <1>5, <2>1, <2>2, CreateOutcome DEF Outcome
  <2>3. CASE ~IsCreate(c) /\ ~ActiveOrg(request[c].intent.org)
    BY <1>5, <2>1, <2>3, NoOrganizationOutcome, Operations, <1>0 DEF Outcome
  <2>4. CASE ~IsCreate(c) /\ ActiveOrg(request[c].intent.org) /\ Op(c) = "add_member"
    BY <1>5, <2>1, <2>4, AddOutcome DEF Outcome
  <2>5. CASE ~IsCreate(c) /\ ActiveOrg(request[c].intent.org) /\ Op(c) = "remove_member"
    BY <1>5, <2>1, <2>5, RemoveOutcome DEF Outcome
  <2> QED BY <1>0, <2>2, <2>3, <2>4, <2>5, Operations DEF IsCreate
<1> QED BY <1>1, <1>2, <1>3, <1>4, <1>5 DEF Admitted

-----------------------------------------------------------------------------
(* Refinement.                                                               *)

\* A call whose batch is on its way has not been answered.
SentWait == \A c \in sent : Waiting(c)

Inv == TypeOK /\ RowInv /\ SentWait

\* The tables a batch leaves, by its outcome.
LEMMA RejectsWrites ==
  ASSUME NEW c \in Call, NEW w, Rejects(c, w), Write(c, w), Record(c, w)
  PROVE  /\ UNCHANGED <<orgs, members, receipts, inserted>>
         /\ Decoded(w) = Refused(w.error)
<1>1. w.error # "none" /\ ~w.fresh
  BY DEF Rejects, Refusals
<1>2. Removed(c, w) = {} /\ ~Inserts(c, w) /\ ~NoError(w)
  BY <1>1 DEF Removed, Inserts, Writes, NoError
<1> QED BY <1>2 DEF Write, Record, Decoded

LEMMA ReplaysWrites ==
  ASSUME NEW c \in Call, NEW w, Replays(c, w), Write(c, w), Record(c, w)
  PROVE  /\ UNCHANGED <<orgs, members, receipts, inserted>>
         /\ \E r \in Matching(c) :
              r.intent = Intent(c) /\ Decoded(w) = Done(FALSE, r.id, r.revision)
<1>1. PICK r \in Matching(c) :
        /\ r.intent = Intent(c)
        /\ w = Columns("none", Done(FALSE, r.id, r.revision), FALSE, Null, 0)
  BY DEF Replays
<1>2. NoError(w) /\ ~w.fresh /\ w.response = Done(FALSE, r.id, r.revision)
  BY <1>1 DEF NoError, Columns
<1>3. Removed(c, w) = {} /\ ~Inserts(c, w) /\ Matching(c) # {}
  BY <1>2 DEF Removed, Inserts, Writes
<1> QED BY <1>1, <1>2, <1>3 DEF Write, Record, Decoded

LEMMA FreshWrites ==
  ASSUME NEW c \in Call, NEW w, Matching(c) = {},
         Creates(c, w) \/ Adds(c, w), Write(c, w), Record(c, w)
  PROVE  /\ orgs' = IF IsCreate(c) THEN orgs \cup {NewOrg(c)} ELSE orgs
         /\ members' = members \cup
              {IF IsCreate(c) THEN NewOwner(c) ELSE NewMember(c)}
         /\ receipts' = receipts \cup {ReceiptOf(c, c, 1)}
         /\ inserted' = Append(inserted, c)
         /\ Decoded(w) = Done(TRUE, c, 1)
<1>1. w = Columns("none", Done(TRUE, c, 1), TRUE, c, 1) /\ Op(c) # "remove_member"
  BY DEF Creates, Adds, IsCreate
<1>2. NoError(w) /\ w.fresh /\ w.response = Done(TRUE, c, 1)
  BY <1>1 DEF NoError, Columns
<1>3. Removed(c, w) = {} /\ Inserts(c, w)
  BY <1>1, <1>2 DEF Removed, Inserts, Writes
<1>4. w.response.id = c /\ w.response.revision = 1
  BY <1>2 DEF Done
<1> QED BY <1>2, <1>3, <1>4 DEF Write, Record, Decoded

LEMMA KeepsWrites ==
  ASSUME NEW c \in Call, NEW w, Matching(c) = {}, Keeps(c, w),
         Write(c, w), Record(c, w)
  PROVE  /\ UNCHANGED <<orgs, members, inserted>>
         /\ \E m \in Found(c) :
              /\ receipts' = receipts \cup {ReceiptOf(c, m.id, m.revision)}
              /\ Decoded(w) = Done(FALSE, m.id, m.revision)
<1>1. PICK m \in Found(c) :
        w = Columns("none", Done(FALSE, m.id, m.revision), FALSE, m.id, m.revision)
  BY DEF Keeps
<1>2. NoError(w) /\ ~w.fresh /\ w.response = Done(FALSE, m.id, m.revision)
  BY <1>1 DEF NoError, Columns
<1>3. Removed(c, w) = {} /\ ~Inserts(c, w)
  BY <1>2 DEF Removed, Inserts, Writes
<1>4. w.response.id = m.id /\ w.response.revision = m.revision
  BY <1>2 DEF Done
<1> QED BY <1>2, <1>3, <1>4 DEF Write, Record, Decoded

LEMMA RemovesWrites ==
  ASSUME RowInv, NEW c \in Call, NEW w, Matching(c) = {}, Removes(c, w),
         Write(c, w), Record(c, w)
  PROVE  /\ UNCHANGED <<orgs, inserted>>
         /\ \E m \in Found(c) :
              /\ ~m.owner
              /\ members' = (members \ {m}) \cup {RemovedMember(m)}
              /\ receipts' = receipts \cup {ReceiptOf(c, m.id, m.revision + 1)}
              /\ Decoded(w) = Done(TRUE, m.id, m.revision + 1)
<1>1. PICK m \in Found(c) :
        /\ ~m.owner
        /\ w = Columns("none", Done(TRUE, m.id, m.revision + 1), TRUE,
                       m.id, m.revision + 1)
  BY DEF Removes
<1>2. /\ NoError(w) /\ w.fresh /\ w.response = Done(TRUE, m.id, m.revision + 1)
      /\ w.id = m.id /\ w.revision = m.revision + 1
  BY <1>1 DEF NoError, Columns
<1>3. m \in members /\ \A n \in members : n.id = m.id => n = m
  BY DEF Found, ActiveMembers, RowInv, IdsDistinct
<1>4. Removed(c, w) = {m} /\ ~Inserts(c, w) /\ ~IsCreate(c)
  BY <1>2, <1>3 DEF Removed, Inserts, Writes, Removes, IsCreate
<1>5. Revised(m, w) = RemovedMember(m)
  BY <1>2 DEF Revised, RemovedMember
<1>6. members' = (members \ {m}) \cup {RemovedMember(m)}
  BY <1>4, <1>5 DEF Write
<1>7. w.response.id = m.id /\ w.response.revision = m.revision + 1
  BY <1>2 DEF Done
<1> QED BY <1>1, <1>2, <1>4, <1>6, <1>7 DEF Write, Record, Decoded

\* Executing a batch is one step of the service.
LEMMA ExecuteRefines ==
  ASSUME Inv, NEW c \in Call, Execute(c)
  PROVE  ServiceNext
<1> DEFINE w == Row(c)
<1>1. Waiting(c) /\ RowInv
  BY DEF Inv, SentWait, Execute
<1>2. Outcome(c, w)
  BY <1>1, RowOutcome
<1>3. Write(c, w) /\ Record(c, w) /\ Confirm(c, Decoded(w)) /\ UNCHANGED request
  BY DEF Execute
<1> HIDE DEF w
<1>4. CASE Answer(c, Failed) /\ UNCHANGED <<orgs, members, receipts>>
  BY <1>1, <1>3, <1>4 DEF AnswerFailure, ServiceNext
<1>5. CASE Rejects(c, w)
  <2>1. UNCHANGED <<orgs, members, receipts>> /\ Decoded(w) = Refused(w.error)
    BY <1>3, <1>5, RejectsWrites
  <2>2. CASE Answer(c, Failed)
    BY <1>4, <2>1, <2>2
  <2>3. CASE Answer(c, Decoded(w))
    <3>1. Refuse(c, w.error)
      BY <1>3, <2>1, <2>3 DEF Refuse
    <3>2. \/ AnswerForbidden(c) \/ AnswerInvalid(c) \/ AnswerKeyConflict(c)
          \/ AnswerSlugConflict(c) \/ AnswerOrganizationNotFound(c)
          \/ AnswerMembershipNotFound(c) \/ AnswerOwnerProtected(c)
      BY <1>1, <1>5, <3>1
         DEF Rejects, AnswerForbidden, AnswerInvalid, AnswerKeyConflict,
             AnswerSlugConflict, AnswerOrganizationNotFound,
             AnswerMembershipNotFound, AnswerOwnerProtected, Fresh, Enters
    <3> QED BY <3>2 DEF ServiceNext
  <2> QED BY <1>3, <2>2, <2>3 DEF Confirm
<1>6. CASE Admitted(c) /\ Replays(c, w)
  <2>1. AnswerReplay(c)
    BY <1>1, <1>3, <1>6, ReplaysWrites DEF AnswerReplay
  <2> QED BY <2>1 DEF ServiceNext
<1>7. CASE Admitted(c) /\ Matching(c) = {} /\ Creates(c, w)
  <2>1. Create(c)
    BY <1>1, <1>3, <1>7, FreshWrites DEF Create, Fresh, Creates
  <2> QED BY <2>1 DEF ServiceNext
<1>8. CASE Admitted(c) /\ Matching(c) = {} /\ Adds(c, w)
  <2>1. AddNew(c)
    BY <1>1, <1>3, <1>8, FreshWrites DEF AddNew, Enters, Fresh, Adds
  <2> QED BY <2>1 DEF ServiceNext
<1>9. CASE Admitted(c) /\ Matching(c) = {} /\ Keeps(c, w)
  <2>1. AddExisting(c)
    BY <1>1, <1>3, <1>9, KeepsWrites DEF AddExisting, Enters, Fresh, Keeps
  <2> QED BY <2>1 DEF ServiceNext
<1>10. CASE Admitted(c) /\ Matching(c) = {} /\ Removes(c, w)
  <2>1. Enters(c) /\ Op(c) = "remove_member"
    BY <1>1, <1>10 DEF Enters, Fresh, Removes
  <2>2. PICK m \in Found(c) :
          /\ orgs' = orgs /\ ~m.owner
          /\ members' = (members \ {m}) \cup {RemovedMember(m)}
          /\ receipts' = receipts \cup {ReceiptOf(c, m.id, m.revision + 1)}
          /\ Decoded(w) = Done(TRUE, m.id, m.revision + 1)
    BY <1>1, <1>3, <1>10, RemovesWrites
  <2>3. Remove(c)
    BY <1>3, <2>1, <2>2 DEF Remove
  <2> QED BY <2>3 DEF ServiceNext
<1> QED BY <1>2, <1>5, <1>6, <1>7, <1>8, <1>9, <1>10 DEF Outcome

LEMMA StepRefines ==
  ASSUME Inv, [Next]_vars
  PROVE  [ServiceNext]_serviceVars
<1>1. ASSUME NEW c \in Call, NotReady(c) \/ Abort(c)
      PROVE  ServiceNext
  <2>1. AnswerFailure(c)
    BY <1>1 DEF NotReady, Abort, AnswerFailure, Inv, SentWait, tables
  <2> QED BY <2>1 DEF ServiceNext
<1>2. ASSUME NEW c \in Call, Send(c)
      PROVE  UNCHANGED serviceVars
  BY <1>2 DEF Send, tables, serviceVars
<1>3. ASSUME Prepare \/ Verified \/ Deactivate \/ UNCHANGED vars
      PROVE  UNCHANGED serviceVars
  BY <1>3 DEF Prepare, Verified, Deactivate, vars, tables, serviceVars
<1>4. ASSUME NEW o \in Call, Archive(o)
      PROVE  ServiceNext
  BY <1>4 DEF Archive, ServiceNext
<1> QED BY <1>1, <1>2, <1>3, <1>4, ExecuteRefines DEF Next

LEMMA InvStart == ASSUME Init PROVE Inv
<1>1. inserted \in Seq(Call)
  BY DEF Init
<1> QED BY <1>1, TypeStart, RowStart DEF Init, Inv, TypeOK, SentWait

LEMMA InvStep == ASSUME Inv, [Next]_vars PROVE Inv'
<1>1. [ServiceNext]_serviceVars
  BY StepRefines
<1>2. RowInv'
  BY <1>1, RowStep DEF Inv
<1>3. TypeOK'
  <2>1. TablesTypeOK'
    BY <1>2 DEF RowInv
  <2>2. \A c \in Call : Append(inserted, c) \in Seq(Call)
    BY DEF Inv, TypeOK
  <2> QED BY <2>1, <2>2
          DEF Inv, TypeOK, Next, vars, NotReady, Send, Execute, Abort, Write,
              Prepare, Verified, Deactivate, Archive
<1>4. SentWait'
  <2>1. ASSUME NEW c \in Call, NEW r, Answer(c, r), sent' = sent \ {c}
        PROVE  SentWait'
    BY <2>1 DEF Inv, TypeOK, SentWait, Answer, Waiting, TablesTypeOK
  <2>2. ASSUME NEW c \in Call, Execute(c) \/ Abort(c)
        PROVE  SentWait'
    BY <2>1, <2>2 DEF Execute, Abort, Confirm
  <2>3. ASSUME NEW c \in Call, NotReady(c)
        PROVE  SentWait'
    BY <2>1, <2>3 DEF NotReady
  <2>4. ASSUME NEW c \in Call, Send(c)
        PROVE  SentWait'
    BY <2>4 DEF Inv, SentWait, Send, Waiting
  <2>5. ASSUME UNCHANGED <<result, sent>>
        PROVE  SentWait'
    BY <2>5 DEF Inv, SentWait, Waiting
  <2> QED BY <2>2, <2>3, <2>4, <2>5
          DEF Next, vars, Prepare, Verified, Deactivate, Archive, ArchiveOrg
<1> QED BY <1>2, <1>3, <1>4 DEF Inv

\* The inductive invariant: types, sound rows, and unanswered batches.
THEOREM InvCorrect == Spec => []Inv
BY InvStart, InvStep, PTL DEF Spec

\* Every variable of the D1 Plugin keeps its type.
THEOREM TypeCorrect == Spec => []TypeOK
<1>1. Inv => TypeOK
  BY DEF Inv
<1> QED BY <1>1, InvCorrect, PTL

\* The batches of guarded statements implement the indivisible commands of the
\* service, for every set of calls, keys, subjects and slugs.
THEOREM Refinement == Spec => ImplementsService
<1>1. Init => TablesInit
  BY DEF Init
<1>2. Inv /\ [Next]_vars => [ServiceNext]_serviceVars
  BY StepRefines
<1> QED BY <1>1, <1>2, InvCorrect, PTL DEF Spec, ImplementsService, ServiceSpec

\* A row with a response.
LEMMA AnsweredRow ==
  ASSUME NEW f \in BOOLEAN, NEW b \in BOOLEAN, NEW i \in Call, NEW n \in Nat,
         f => b, NEW w, w.error = "none", w.response = Done(b, i, n), w.fresh = f
  PROVE  /\ NoError(w)
         /\ w.response \in Reply
         /\ w.fresh => w.response.code = "ok" /\ w.response.changed
<1>1. Done(b, i, n) \in Reply
  BY ReplyTypes
<1>2. Done(b, i, n).code = "ok" /\ Done(b, i, n).changed = b
  BY DEF Done
<1>3. w.fresh => w.response.code = "ok" /\ w.response.changed
  BY <1>2
<1> QED BY <1>1, <1>3 DEF NoError

\* What the row says when the batch is over.
LEMMA RowDecides ==
  ASSUME Inv, NEW c \in sent, NEW w, w = Row(c)
  PROVE  /\ NoError(w) => w.response \in Reply
         /\ ~NoError(w) => w.error \in Refusals
         /\ w.response.code = "ok" => NoError(w)
         /\ w.fresh => w.response.code = "ok" /\ w.response.changed
<1>0. c \in Call /\ RowInv /\ TablesTypeOK
  BY DEF Inv, TypeOK, RowInv
<1>1. Outcome(c, w)
  BY <1>0, RowOutcome
<1>2. CASE Rejects(c, w)
  BY <1>2 DEF Rejects, Refusals, NoError, Pending
<1>3. CASE Replays(c, w)
  <2>1. PICK r \in Matching(c) :
          w = Columns("none", Done(FALSE, r.id, r.revision), FALSE, Null, 0)
    BY <1>3 DEF Replays
  <2>2. r.id \in Call /\ r.revision \in Nat
    BY <1>0 DEF Matching, TablesTypeOK, Receipt
  <2>3. w.error = "none" /\ w.response = Done(FALSE, r.id, r.revision)
        /\ w.fresh = FALSE
    BY <2>1 DEF Columns
  <2> QED BY <2>2, <2>3, AnsweredRow
<1>4. CASE Creates(c, w) \/ Adds(c, w)
  <2>1. w = Columns("none", Done(TRUE, c, 1), TRUE, c, 1)
    BY <1>4 DEF Creates, Adds
  <2>2. w.error = "none" /\ w.response = Done(TRUE, c, 1) /\ w.fresh = TRUE
    BY <2>1 DEF Columns
  <2> QED BY <1>0, <2>2, AnsweredRow
<1>5. CASE Keeps(c, w)
  <2>1. PICK m \in Found(c) :
          w = Columns("none", Done(FALSE, m.id, m.revision), FALSE,
                      m.id, m.revision)
    BY <1>5 DEF Keeps
  <2>2. m.id \in Call /\ m.revision \in Nat
    BY <1>0 DEF Found, ActiveMembers, TablesTypeOK, Member
  <2>3. w.error = "none" /\ w.response = Done(FALSE, m.id, m.revision)
        /\ w.fresh = FALSE
    BY <2>1 DEF Columns
  <2> QED BY <2>2, <2>3, AnsweredRow
<1>6. CASE Removes(c, w)
  <2>1. PICK m \in Found(c) :
          w = Columns("none", Done(TRUE, m.id, m.revision + 1), TRUE,
                      m.id, m.revision + 1)
    BY <1>6 DEF Removes
  <2>2. m.id \in Call /\ m.revision + 1 \in Nat
    BY <1>0 DEF Found, ActiveMembers, TablesTypeOK, Member
  <2>3. w.error = "none" /\ w.response = Done(TRUE, m.id, m.revision + 1)
        /\ w.fresh = TRUE
    BY <2>1 DEF Columns
  <2> QED BY <2>2, <2>3, AnsweredRow
<1> QED BY <1>1, <1>2, <1>3, <1>4, <1>5, <1>6 DEF Outcome

\* No chain of WHERE clauses leaves a batch without an answer, gives it two,
\* or lets it write and refuse.
THEOREM BatchesDecide == Spec => []BatchDecides
<1>1. Inv => BatchDecides
  BY RowDecides DEF BatchDecides
<1> QED BY <1>1, InvCorrect, PTL

-----------------------------------------------------------------------------
(* What check_membership tells.                                              *)

\* The "sequence" column: every row has one number, which no unanswered call
\* has, and the active row of a subject has its greatest.
ListInv ==
  /\ \A i \in 1..Len(inserted) : ~Waiting(inserted[i])
  /\ \A i, j \in 1..Len(inserted) : inserted[i] = inserted[j] => i = j
  /\ \A m \in members : \E i \in 1..Len(inserted) : inserted[i] = m.id
  /\ \A m, n \in members : \A i, j \in 1..Len(inserted) :
       /\ m.active /\ m.org = n.org /\ m.subject = n.subject
       /\ inserted[i] = m.id /\ inserted[j] = n.id
       => j <= i

LEMMA ListStart == ASSUME Init PROVE ListInv
BY DEF Init, TablesInit, ListInv

\* A new row goes to the end, and is the only active one of its subject.
LEMMA InsertKeepsList ==
  ASSUME Inv, ListInv, NEW c \in Call, Waiting(c), NEW m,
         m.id = c, members' = members \cup {m}, inserted' = Append(inserted, c),
         \A n \in members : n.org = m.org /\ n.subject = m.subject => ~n.active,
         \A d \in Call : ~Waiting(d) => ~Waiting(d)', ~Waiting(c)'
  PROVE  ListInv'
<1>1. inserted \in Seq(Call)
  BY DEF Inv, TypeOK
<1>2. /\ Len(inserted) \in Nat /\ Len(inserted') = Len(inserted) + 1
      /\ inserted'[Len(inserted) + 1] = c
      /\ \A i \in 1..Len(inserted) : inserted'[i] = inserted[i] /\ inserted[i] \in Call
  BY <1>1
<1>3. \A n \in members : n.id \in Call /\ n.id # c
  BY DEF Inv, RowInv, TablesTypeOK, Member, IdsSpent
<1>4. \A i \in 1..Len(inserted) : inserted[i] # c
  BY DEF ListInv
<1> DEFINE k == Len(inserted) + 1
<1>5. \A i \in 1..Len(inserted') : i \in 1..Len(inserted) \/ i = k
  BY <1>2
<1>6. \A i \in 1..Len(inserted') : result'[inserted'[i]] # Pending
  BY <1>2, <1>5 DEF ListInv, Waiting
<1>7. \A i, j \in 1..Len(inserted') : inserted'[i] = inserted'[j] => i = j
  BY <1>2, <1>4, <1>5 DEF ListInv
<1>8. \A n \in members' : \E i \in 1..Len(inserted') : inserted'[i] = n.id
  BY <1>2 DEF ListInv
<1>9. ASSUME NEW n \in members', NEW p \in members',
             NEW i \in 1..Len(inserted'), NEW j \in 1..Len(inserted'),
             n.active, n.org = p.org, n.subject = p.subject,
             inserted'[i] = n.id, inserted'[j] = p.id
      PROVE  j <= i
  <2>1. CASE i = k
    BY <1>2, <1>5, <2>1
  <2>2. CASE i \in 1..Len(inserted)
    <3>1. n \in members
      BY <1>2, <1>4, <1>9, <2>2
    <3>2. p \in members
      BY <1>9, <3>1
    <3>3. j \in 1..Len(inserted)
      BY <1>2, <1>3, <1>5, <1>9, <3>2
    <3> QED BY <1>2, <1>9, <2>2, <3>1, <3>2, <3>3 DEF ListInv
  <2> QED BY <1>5, <2>1, <2>2
<1> QED BY <1>6, <1>7, <1>8, <1>9 DEF ListInv, Waiting

\* Rows are otherwise only removed, and keep their numbers.
LEMMA OthersKeepList ==
  ASSUME Inv, ListInv, UNCHANGED inserted,
         \A d \in Call : ~Waiting(d) => ~Waiting(d)',
         \A n \in members' : \E m \in members :
           /\ n.id = m.id /\ n.org = m.org /\ n.subject = m.subject
           /\ n.active => m.active
  PROVE  ListInv'
<1>1. \A i \in 1..Len(inserted) : inserted[i] \in Call
  BY DEF Inv, TypeOK
<1>2. \A i \in 1..Len(inserted') : result'[inserted'[i]] # Pending
  BY <1>1 DEF ListInv, Waiting
<1>3. \A n \in members' : \E i \in 1..Len(inserted') : inserted'[i] = n.id
  BY DEF ListInv
<1>4. \A n, p \in members' : \A i, j \in 1..Len(inserted') :
        /\ n.active /\ n.org = p.org /\ n.subject = p.subject
        /\ inserted'[i] = n.id /\ inserted'[j] = p.id
        => j <= i
  BY DEF ListInv
<1> QED BY <1>2, <1>3, <1>4 DEF ListInv, Waiting

LEMMA ListStep ==
  ASSUME Inv, ListInv, [Next]_vars
  PROVE  ListInv'
<1>0. RowInv /\ TablesTypeOK
  BY DEF Inv, RowInv
<1>1. ASSUME UNCHANGED <<members, inserted>>,
             \A d \in Call : ~Waiting(d) => ~Waiting(d)'
      PROVE  ListInv'
  BY <1>1, OthersKeepList
<1>2. ASSUME NEW c \in Call, Answer(c, Failed)
      PROVE  \A d \in Call : ~Waiting(d) => ~Waiting(d)'
  BY <1>0, <1>2, AnswerCloses, ReplyTypes
<1>3. ASSUME NEW c \in Call, NotReady(c) \/ Abort(c)
      PROVE  ListInv'
  BY <1>1, <1>2, <1>3 DEF NotReady, Abort, tables
<1>4. ASSUME UNCHANGED <<members, inserted, result>>
      PROVE  ListInv'
  BY <1>1, <1>4 DEF Waiting
<1>5. ASSUME NEW c \in Call, Execute(c)
      PROVE  ListInv'
  <2> DEFINE w == Row(c)
  <2>1. Waiting(c) /\ Outcome(c, w)
    BY <1>0, <1>5, RowOutcome DEF Inv, SentWait, Execute
  <2>2. Write(c, w) /\ Record(c, w) /\ Confirm(c, Decoded(w))
    BY <1>5 DEF Execute
  <2>3. Decoded(w) \in Result \ {Pending}
    BY <1>5, RowDecides, ReplyTypes DEF Execute, Decoded, Inv, TypeOK
  <2> HIDE DEF w
  <2>4. ~Waiting(c)' /\ \A d \in Call : ~Waiting(d) => ~Waiting(d)'
    BY <1>0, <2>2, <2>3, AnswerCloses, ReplyTypes DEF Confirm
  <2>5. CASE Rejects(c, w) \/ Replays(c, w)
    BY <1>1, <2>2, <2>4, <2>5, RejectsWrites, ReplaysWrites
  <2>6. CASE Matching(c) = {} /\ Keeps(c, w)
    BY <1>1, <2>2, <2>4, <2>6, KeepsWrites
  <2>7. CASE Matching(c) = {} /\ Removes(c, w)
    <3>1. PICK m \in Found(c) :
            members' = (members \ {m}) \cup {RemovedMember(m)} /\ inserted' = inserted
      BY <1>0, <2>2, <2>7, RemovesWrites
    <3>2. m \in members /\ m \in Member
      BY <1>0 DEF Found, ActiveMembers, TablesTypeOK
    <3>3. /\ RemovedMember(m).id = m.id /\ RemovedMember(m).org = m.org
          /\ RemovedMember(m).subject = m.subject /\ ~RemovedMember(m).active
      BY DEF RemovedMember
    <3> QED BY <2>4, <3>1, <3>2, <3>3, OthersKeepList
  <2>8. CASE Matching(c) = {} /\ Creates(c, w)
    <3>1. members' = members \cup {NewOwner(c)} /\ inserted' = Append(inserted, c)
      BY <2>2, <2>8, FreshWrites DEF Creates
    <3>2. NewOwner(c).id = c /\ NewOwner(c).org = c
      BY DEF NewOwner
    <3>3. \A n \in members : n.org # c
      BY <1>0, <2>1 DEF RowInv, MembersHaveOrg, IdsSpent
    <3> QED BY <2>1, <2>4, <3>1, <3>2, <3>3, InsertKeepsList
  <2>9. CASE Matching(c) = {} /\ Adds(c, w)
    <3>1. members' = members \cup {NewMember(c)} /\ inserted' = Append(inserted, c)
      BY <2>2, <2>9, FreshWrites DEF Adds
    <3>2. /\ NewMember(c).id = c /\ NewMember(c).org = request[c].intent.org
          /\ NewMember(c).subject = request[c].intent.subject
      BY DEF NewMember
    <3>3. \A n \in members :
            n.org = NewMember(c).org /\ n.subject = NewMember(c).subject => ~n.active
      BY <2>9, <3>2 DEF Adds, Found, ActiveMembers
    <3> QED BY <2>1, <2>4, <3>1, <3>2, <3>3, InsertKeepsList
  <2> QED BY <2>1, <2>5, <2>6, <2>7, <2>8, <2>9 DEF Outcome
<1> QED BY <1>3, <1>4, <1>5
        DEF Next, vars, tables, Send, Prepare, Verified, Deactivate, Archive, ArchiveOrg

LEMMA ListCorrect == Spec => [](Inv /\ ListInv)
<1>1. Init => Inv /\ ListInv
  BY InvStart, ListStart
<1>2. Inv /\ ListInv /\ [Next]_vars => Inv' /\ ListInv'
  BY InvStep, ListStep
<1> QED BY <1>1, <1>2, PTL DEF Spec

\* check_membership of the D1 Plugin is right about every subject of every
\* active Organization.
THEOREM ChecksTellMembership == Spec => []CheckTellsMembership
<1>1. ASSUME Inv, ListInv, NEW o \in Call, NEW s \in Subject
      PROVE  CheckAnswer(o, s) =
               [active |-> ActiveMembers(o, s) # {},
                owner |-> \E m \in ActiveMembers(o, s) : m.owner]
  <2> DEFINE rows == {m \in members : m.org = o /\ m.subject = s}
             At(m) == CHOOSE i \in 1..Len(inserted) : inserted[i] = m.id
  <2>1. \A m \in members : At(m) \in 1..Len(inserted) /\ inserted[At(m)] = m.id
    BY <1>1 DEF ListInv
  <2>2. LastRow(o, s) = {m \in rows : \A n \in rows : At(n) <= At(m)}
    BY DEF LastRow
  <2> HIDE DEF At
  <2>3. \A m, n \in rows : m.active => At(n) <= At(m)
    BY <1>1, <2>1 DEF ListInv
  <2>4. {m \in LastRow(o, s) : m.active} = ActiveMembers(o, s)
    BY <2>2, <2>3 DEF ActiveMembers
  <2>5. /\ (\E m \in LastRow(o, s) : m.active) <=> ActiveMembers(o, s) # {}
        /\ (\E m \in LastRow(o, s) : m.active /\ m.owner)
             <=> \E m \in ActiveMembers(o, s) : m.owner
    BY <2>4
  <2> QED BY <2>5 DEF CheckAnswer
<1>2. Inv /\ ListInv => CheckTellsMembership
  BY <1>1 DEF CheckTellsMembership
<1> QED BY <1>2, ListCorrect, PTL

\* Whatever batches race and in whatever order they execute, two active
\* Organizations of the D1 Plugin never share a slug.
THEOREM SlugsUnique == Spec => []ActiveSlugUnique
BY Refinement, ServiceRowsCorrect, PTL DEF ImplementsService

\* The guarded INSERT never makes a subject an active member twice.
THEOREM MembershipsUnique == Spec => []OneActiveMembership
BY Refinement, ServiceRowsCorrect, PTL DEF ImplementsService

\* Every Organization keeps its one active owner: no batch removes it.
THEOREM OwnersKept == Spec => []OwnerKept
BY Refinement, ServiceRowsCorrect, PTL DEF ImplementsService

\* A membership is revised once, by the batch that removes it.
THEOREM RevisionsTellState == Spec => []RevisionTellsState
BY Refinement, ServiceRowsCorrect, PTL DEF ImplementsService

\* However often a batch is repeated after a lost answer, its confirmations
\* agree, and at most one of them claims the change.
THEOREM RetriesCorrect == Spec => []RetriesAgree
BY Refinement, ServiceCallsCorrect, PTL DEF ImplementsService

\* A caller is only confirmed what the database holds a receipt for.
THEOREM ConfirmationsDurable == Spec => []ConfirmedIsDurable
BY Refinement, ServiceCallsCorrect, PTL DEF ImplementsService

\* Receipts are complete, unique per key, and name rows that exist.
THEOREM ReceiptsCorrect == Spec => []ReceiptsSound
BY Refinement, ServiceCallsCorrect, PTL DEF ImplementsService

\* The batches commit every effect with exactly one receipt.
THEOREM EffectsRecorded == Spec => []EffectsHaveReceipts
BY Refinement, ServiceCallsCorrect, PTL DEF ImplementsService

\* The chain of a refused batch has written neither a row nor a receipt.
THEOREM RefusalsClean == Spec => []RefusedWithoutTrace
BY Refinement, ServiceCallsCorrect, PTL DEF ImplementsService

\* A key conflict is only told of a key used for another command.
THEOREM ConflictsReal == Spec => []ConflictIsReal
BY Refinement, ServiceCallsCorrect, PTL DEF ImplementsService

\* No batch revives a membership or an Organization, lowers a revision, moves
\* ownership or rewrites a receipt.
THEOREM BatchesNeverTakeBack == Spec => NeverTakenBack
BY Refinement, ServiceNeverTakesBack, PTL DEF ImplementsService

=============================================================================
