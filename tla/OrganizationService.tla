------------------------- MODULE OrganizationService -------------------------
(***************************************************************************)
(* What the Organization Admin and Membership Admin Capabilities promise,  *)
(* whatever the storage: every command takes effect in one indivisible     *)
(* step between its call and its answer, at most once per idempotency key, *)
(* and a refused or failed command leaves the tables as they were.  The    *)
(* storage modules implement it under the same tables.                     *)
(***************************************************************************)
EXTENDS OrganizationTables

serviceVars == <<orgs, members, receipts, request, result>>

Waiting(c) == result[c] = Pending

Answer(c, r) == result' = [result EXCEPT ![c] = r]

\* The command took effect; the answer can still be lost on the way back.
Confirm(c, r) == Answer(c, r) \/ Answer(c, Failed)

Refuse(c, e) == Answer(c, Refused(e)) /\ UNCHANGED <<orgs, members, receipts, request>>

\* The command is admitted and its key has not been used by this caller.
Fresh(c) == Waiting(c) /\ Admitted(c) /\ Matching(c) = {}

-----------------------------------------------------------------------------
AnswerForbidden(c) == Waiting(c) /\ ~Authorized(c) /\ Refuse(c, "forbidden")

AnswerInvalid(c) ==
  Waiting(c) /\ Authorized(c) /\ ~request[c].valid /\ Refuse(c, "invalid")

\* The same command again: the recorded outcome, reported as no change.
AnswerReplay(c) ==
  /\ Waiting(c) /\ Admitted(c)
  /\ \E r \in Matching(c) :
       /\ r.intent = Intent(c)
       /\ Confirm(c, Done(FALSE, r.id, r.revision))
  /\ UNCHANGED <<orgs, members, receipts, request>>

\* Another command under a used key.
AnswerKeyConflict(c) ==
  /\ Waiting(c) /\ Admitted(c)
  /\ \E r \in Matching(c) : r.intent # Intent(c)
  /\ Refuse(c, "idempotency_conflict")

Create(c) ==
  /\ Fresh(c) /\ IsCreate(c)
  /\ ~SlugTaken(request[c].intent.slug)
  /\ orgs' = orgs \cup {NewOrg(c)}
  /\ members' = members \cup {NewOwner(c)}
  /\ receipts' = receipts \cup {ReceiptOf(c, c, 1)}
  /\ Confirm(c, Done(TRUE, c, 1))
  /\ UNCHANGED request

AnswerSlugConflict(c) ==
  /\ Fresh(c) /\ IsCreate(c)
  /\ SlugTaken(request[c].intent.slug)
  /\ Refuse(c, "slug_conflict")

AnswerOrganizationNotFound(c) ==
  /\ Fresh(c) /\ ~IsCreate(c)
  /\ ~ActiveOrg(request[c].intent.org)
  /\ Refuse(c, "organization_not_found")

\* A membership command that finds its Organization active.
Enters(c) == Fresh(c) /\ ~IsCreate(c) /\ ActiveOrg(request[c].intent.org)

Found(c) == ActiveMembers(request[c].intent.org, request[c].intent.subject)

AddNew(c) ==
  /\ Enters(c) /\ Op(c) = "add_member"
  /\ Found(c) = {}
  /\ members' = members \cup {NewMember(c)}
  /\ receipts' = receipts \cup {ReceiptOf(c, c, 1)}
  /\ Confirm(c, Done(TRUE, c, 1))
  /\ UNCHANGED <<orgs, request>>

AddExisting(c) ==
  /\ Enters(c) /\ Op(c) = "add_member"
  /\ \E m \in Found(c) :
       /\ receipts' = receipts \cup {ReceiptOf(c, m.id, m.revision)}
       /\ Confirm(c, Done(FALSE, m.id, m.revision))
  /\ UNCHANGED <<orgs, members, request>>

\* Mutant: a removal leaves no receipt.
RemoveUnrecorded(c) ==
  /\ Enters(c) /\ Op(c) = "remove_member"
  /\ \E m \in Found(c) :
       /\ ~m.owner
       /\ members' = (members \ {m}) \cup {RemovedMember(m)}
       /\ Confirm(c, Done(TRUE, m.id, m.revision + 1))
  /\ UNCHANGED <<orgs, receipts, request>>

Remove(c) ==
  /\ Enters(c) /\ Op(c) = "remove_member"
  /\ \E m \in Found(c) :
       /\ ~m.owner
       /\ members' = (members \ {m}) \cup {RemovedMember(m)}
       /\ receipts' = receipts \cup {ReceiptOf(c, m.id, m.revision + 1)}
       /\ Confirm(c, Done(TRUE, m.id, m.revision + 1))
  /\ UNCHANGED <<orgs, request>>

AnswerMembershipNotFound(c) ==
  /\ Enters(c) /\ Op(c) = "remove_member"
  /\ Found(c) = {}
  /\ Refuse(c, "membership_not_found")

AnswerOwnerProtected(c) ==
  /\ Enters(c) /\ Op(c) = "remove_member"
  /\ \E m \in Found(c) : m.owner
  /\ Refuse(c, "owner_protected")

\* The command fails on the way and leaves no effect.
AnswerFailure(c) ==
  /\ Waiting(c)
  /\ Answer(c, Failed)
  /\ UNCHANGED <<orgs, members, receipts, request>>

\* The Operator archives an Organization; its memberships stay.
ArchiveOrg(o) ==
  /\ \E g \in orgs :
       /\ g.id = o /\ g.active
       /\ orgs' = (orgs \ {g}) \cup {ArchivedOrg(g)}
  /\ UNCHANGED <<members, receipts, request, result>>

ServiceNext ==
  \/ \E c \in Call :
       \/ AnswerForbidden(c) \/ AnswerInvalid(c) \/ AnswerReplay(c) \/ AnswerKeyConflict(c)
       \/ Create(c) \/ AnswerSlugConflict(c) \/ AnswerOrganizationNotFound(c)
       \/ AddNew(c) \/ AddExisting(c) \/ Remove(c)
       \/ AnswerMembershipNotFound(c) \/ AnswerOwnerProtected(c) \/ AnswerFailure(c)
  \/ \E o \in Call : ArchiveOrg(o)

ServiceSpec == TablesInit /\ [][ServiceNext]_serviceVars

=============================================================================
