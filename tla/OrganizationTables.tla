------------------------- MODULE OrganizationTables -------------------------
(***************************************************************************)
(* The durable tables of the Organization Plugin and the calls made on it, *)
(* as the storage-independent specification and the Postgres               *)
(* implementation both see them.                                           *)
(*                                                                         *)
(* A table is the set of its committed rows.  Every identifier the Plugin  *)
(* draws (random_id: an Organization, its owner's membership, an added     *)
(* membership) is drawn by exactly one call, and 128 random bits are taken *)
(* to be unique: an identifier IS the call that drew it.                   *)
(***************************************************************************)
EXTENDS Integers, FiniteSets

CONSTANTS
  Call,                    \* the calls clients ever make, retries included
  Caller,                  \* caller Instance names the kernel vouches for
  Key,                     \* idempotency keys
  Subject,
  Slug,
  Name,                    \* organization names as they arrive
  Trim,                    \* str::trim on them
  AdminCallers,            \* OrganizationConfig::admin_callers
  MembershipAdminCallers,  \* OrganizationConfig::membership_admin_callers
  Offered                  \* what each call may turn out to ask for

CreateIntent ==
  [op : {"create_organization"}, name : Name, slug : Slug, subject : Subject]

MemberIntent ==
  [op : {"add_member", "remove_member"}, org : Call, subject : Subject]

\* "valid" says whether the call passes valid_organization_name, valid_slug
\* and valid_name, resp. valid_membership_request.
Request ==
  [caller : Caller, key : Key, intent : CreateIntent \cup MemberIntent,
   valid : BOOLEAN]

ASSUME TrimAssumption ==
  /\ Trim \in [Name -> Name]
  /\ \A n \in Name : Trim[Trim[n]] = Trim[n]

ASSUME OfferedAssumption == Offered \in [Call -> SUBSET Request]

VARIABLES
  orgs,      \* rows of organizations
  members,   \* rows of organization_memberships
  receipts,  \* rows of organization_creation_requests and
             \* organization_membership_commands, told apart by "family"
  request,   \* what each call asks for
  result     \* what each call was answered

tables == <<orgs, members, receipts>>

-----------------------------------------------------------------------------
(* Rows. *)

Org == [id : Call, slug : Slug, active : BOOLEAN]

Member ==
  [id : Call, org : Call, subject : Subject, owner : BOOLEAN,
   active : BOOLEAN, revision : Nat \ {0}]

\* Revision 0 stands for the NULL result columns of a receipt that has been
\* reserved and not completed.
Receipt ==
  [family : {"creation", "membership"}, caller : Caller, key : Key,
   intent : CreateIntent \cup MemberIntent, id : Call, revision : Nat]

-----------------------------------------------------------------------------
(* Calls. *)

Refusals ==
  {"forbidden", "invalid", "idempotency_conflict", "slug_conflict",
   "organization_not_found", "membership_not_found", "owner_protected"}

Reply == [code : {"ok"}, changed : BOOLEAN, id : Call, revision : Nat]

Pending == [code |-> "pending"]
Refused(e) == [code |-> e]
\* RuntimeFailure, or no answer at all: the caller cannot tell what happened.
Failed == [code |-> "runtime_failure"]

Result == Reply \cup {Pending, Failed} \cup {Refused(e) : e \in Refusals}

Op(c) == request[c].intent.op
IsCreate(c) == Op(c) = "create_organization"

\* Mutant: the stored and compared name is not trimmed.
IntentUntrimmed(c) == request[c].intent

\* The create path trims the name before it stores or compares it.
Intent(c) ==
  IF IsCreate(c)
    THEN [op |-> "create_organization",
          name |-> Trim[request[c].intent.name],
          slug |-> request[c].intent.slug,
          subject |-> request[c].intent.subject]
    ELSE request[c].intent

Family(c) == IF IsCreate(c) THEN "creation" ELSE "membership"

\* authorized_admin_caller, authorized_membership_admin_caller
Authorized(c) ==
  request[c].caller
    \in IF IsCreate(c) THEN AdminCallers ELSE MembershipAdminCallers

Admitted(c) == Authorized(c) /\ request[c].valid

\* The call's receipt: at most one row, by the tables' primary keys.
Matching(c) ==
  {r \in receipts : /\ r.family = Family(c)
                    /\ r.caller = request[c].caller
                    /\ r.key = request[c].key}

-----------------------------------------------------------------------------
(* What the queries select, and the rows the statements write. *)

ActiveOrg(o) == \E g \in orgs : g.id = o /\ g.active

\* Mutant: no unique index over active slugs.
SlugNeverTaken(s) == FALSE

SlugTaken(s) == \E g \in orgs : g.slug = s /\ g.active

\* Mutant: removed_at IS NOT NULL.
RemovedMembers(o, s) ==
  {m \in members : m.org = o /\ m.subject = s /\ ~m.active}

ActiveMembers(o, s) ==
  {m \in members : m.org = o /\ m.subject = s /\ m.active}

NewOrg(c) == [id |-> c, slug |-> request[c].intent.slug, active |-> TRUE]

NewOwner(c) ==
  [id |-> c, org |-> c, subject |-> request[c].intent.subject,
   owner |-> TRUE, active |-> TRUE, revision |-> 1]

\* Mutant: the inserted row starts at revision 0.
NewMemberUnrevised(c) ==
  [id |-> c, org |-> request[c].intent.org,
   subject |-> request[c].intent.subject,
   owner |-> FALSE, active |-> TRUE, revision |-> 0]

NewMember(c) ==
  [id |-> c, org |-> request[c].intent.org,
   subject |-> request[c].intent.subject,
   owner |-> FALSE, active |-> TRUE, revision |-> 1]

\* next_membership_revision.  Its overflow check is left out: a row is revised
\* once in its life (RevisionTellsState), so a revision never exceeds 2.
RemovedMember(m) ==
  [id |-> m.id, org |-> m.org, subject |-> m.subject, owner |-> m.owner,
   active |-> FALSE, revision |-> m.revision + 1]

ArchivedOrg(g) == [id |-> g.id, slug |-> g.slug, active |-> FALSE]

ReceiptOf(c, id, revision) ==
  [family |-> Family(c), caller |-> request[c].caller, key |-> request[c].key,
   intent |-> Intent(c), id |-> id, revision |-> revision]

Done(changed, id, revision) ==
  [code |-> "ok", changed |-> changed, id |-> id, revision |-> revision]

-----------------------------------------------------------------------------
TablesTypeOK ==
  /\ orgs \subseteq Org
  /\ members \subseteq Member
  /\ receipts \subseteq Receipt
  /\ request \in [Call -> Request]
  /\ result \in [Call -> Result]

\* Every call asks for one of the things offered to it, on empty tables.
TablesInit ==
  /\ orgs = {}
  /\ members = {}
  /\ receipts = {}
  /\ request \in {f \in [Call -> UNION {Offered[c] : c \in Call}] :
                    \A c \in Call : f[c] \in Offered[c]}
  /\ result = [c \in Call |-> Pending]

=============================================================================
