------------------------- MODULE OrganizationPostgres -------------------------
(***************************************************************************)
(* create_organization, add_member and remove_member of the Postgres       *)
(* Plugin, statement by statement, as concurrent READ COMMITTED            *)
(* transactions on a connection pool.                                      *)
(*                                                                         *)
(* A transaction's writes are private ("tx") until it commits.  What other *)
(* transactions feel of it earlier are its locks: a row read FOR UPDATE,   *)
(* and an index entry it has inserted, on which a second inserter waits.   *)
(* Every await may also end the call without an answer (Fail): an error, a *)
(* cancelled request, a crash.  The transaction is then rolled back, some  *)
(* time after the caller has moved on.                                     *)
(***************************************************************************)
EXTENDS OrganizationService, OrganizationSafety

CONSTANTS
  PoolSize,  \* connections of the Postgres pool
  MaxTime    \* bound on the database clock

ASSUME PoolAssumption == PoolSize \in Nat \ {0}

ASSUME TimeAssumption == MaxTime \in Nat

VARIABLES
  pc,     \* the statement each call runs next
  locks,  \* the locks its transaction holds
  tx,     \* its uncommitted writes and the answer it is about to give
  found,  \* the member row it has read
  began,  \* its transaction_timestamp()
  clock   \* the database's clock

vars == <<orgs, members, receipts, request, result,
          pc, locks, tx, found, began, clock>>

session == <<pc, locks, tx, found>>

-----------------------------------------------------------------------------
(* Locks: the rows of the receipt tables, organizations and                *)
(* organization_memberships, and the entries of the two partial unique     *)
(* indexes.                                                                *)

Lock ==
  [on : {"receipt"}, family : {"creation", "membership"},
   caller : Caller, key : Key]
  \cup [on : {"organizations_active_slug_key"}, slug : Slug]
  \cup [on : {"organization"}, id : Call]
  \cup [on : {"membership"}, id : Call]
  \cup [on : {"organization_memberships_active_subject_key"},
        org : Call, subject : Subject]

ReceiptLock(c) ==
  [on |-> "receipt", family |-> Family(c), caller |-> request[c].caller,
   key |-> request[c].key]

SlugLock(c) ==
  [on |-> "organizations_active_slug_key", slug |-> request[c].intent.slug]

OrgLock(o) == [on |-> "organization", id |-> o]

MemberLocks(rows) == {[on |-> "membership", id |-> m.id] : m \in rows}

SubjectLock(c) ==
  [on |-> "organization_memberships_active_subject_key",
   org |-> request[c].intent.org, subject |-> request[c].intent.subject]

Free(c, ls) == \A d \in Call \ {c} : locks[d] \cap ls = {}

\* Mutant: the statements run outside the transaction and keep no lock.
TakeNothing(c, ls) == locks' = locks

Take(c, ls) == locks' = [locks EXCEPT ![c] = @ \cup ls]

-----------------------------------------------------------------------------
(* Steps of one call. *)

\* Rows to insert, member rows to replace, and the answer at commit.
Staged(newOrgs, gone, newMembers, newReceipts, reply) ==
  [orgs |-> newOrgs, gone |-> gone, members |-> newMembers,
   receipts |-> newReceipts, reply |-> reply]

NoWrites == Staged({}, {}, {}, {}, Pending)

Connected == {c \in Call : pc[c] \notin {"idle", "begin", "done"}}

\* Statements of a transaction that has reserved its key write member rows
\* and settle the answer.
Stage(c, gone, new, reply) ==
  tx' = [tx EXCEPT ![c] = Staged({}, gone, new, tx[c].receipts, reply)]

Goto(c, label) == pc' = [pc EXCEPT ![c] = label]

\* Mutant: a refusal commits what the transaction has reserved.
GiveUpCommitting(c, r) ==
  /\ Answer(c, r)
  /\ Goto(c, "rollback")
  /\ receipts' = receipts \cup tx[c].receipts
  /\ UNCHANGED <<orgs, members, request, tx, found, began, clock>>

\* return Ok(Err(e)) drops the transaction: the answer leaves now, the
\* rollback follows.
GiveUp(c, r) ==
  /\ Answer(c, r)
  /\ Goto(c, "rollback")
  /\ UNCHANGED <<orgs, members, receipts, request, tx, found, began, clock>>

\* A statement inside the transaction: nothing shows but its locks.
Silent == UNCHANGED <<orgs, members, receipts, request, result, began, clock>>

Forbidden(c) ==
  /\ pc[c] = "idle" /\ ~Authorized(c)
  /\ Answer(c, Refused("forbidden"))
  /\ Goto(c, "done")
  /\ UNCHANGED <<orgs, members, receipts, request, locks, tx, found, began, clock>>

Malformed(c) ==
  /\ pc[c] = "idle" /\ Authorized(c) /\ ~request[c].valid
  /\ Answer(c, Refused("invalid"))
  /\ Goto(c, "done")
  /\ UNCHANGED <<orgs, members, receipts, request, locks, tx, found, began, clock>>

Admit(c) ==
  /\ pc[c] = "idle" /\ Admitted(c)
  /\ Goto(c, "begin")
  /\ Silent /\ UNCHANGED <<locks, tx, found>>

\* pool().begin() waits for a connection.
Begin(c) ==
  /\ pc[c] = "begin"
  /\ Cardinality(Connected) < PoolSize
  /\ began' = [began EXCEPT ![c] = clock]
  /\ Goto(c, "reserve")
  /\ UNCHANGED <<orgs, members, receipts, request, result, locks, tx, found, clock>>

\* The creation receipt is complete at once, a membership receipt has no
\* result yet.
Reservation(c) == ReceiptOf(c, c, IF IsCreate(c) THEN 1 ELSE 0)

\* INSERT ... ON CONFLICT DO NOTHING waits for an uncommitted receipt of the
\* same key and then inserts or finds it.
Reserve(c) ==
  /\ pc[c] = "reserve" /\ Matching(c) = {}
  /\ Free(c, {ReceiptLock(c)})
  /\ Take(c, {ReceiptLock(c)})
  /\ tx' = [tx EXCEPT ![c] = Staged({}, {}, {}, {Reservation(c)}, Pending)]
  /\ Goto(c, IF IsCreate(c) THEN "insert" ELSE "lock")
  /\ Silent /\ UNCHANGED found

FindReceipt(c) ==
  /\ pc[c] = "reserve" /\ Matching(c) # {}
  /\ Goto(c, "replay")
  /\ Silent /\ UNCHANGED <<locks, tx, found>>

\* The membership commands read the receipt FOR UPDATE, creation does not.
ReplayLocks(c) == IF IsCreate(c) THEN {} ELSE {ReceiptLock(c)}

\* Mutant: the replay does not compare the recorded intent.
ReadReplayAnyIntent(c) ==
  /\ pc[c] = "replay"
  /\ Free(c, ReplayLocks(c))
  /\ Take(c, ReplayLocks(c))
  /\ \E r \in Matching(c) :
       tx' = [tx EXCEPT ![c] =
                Staged({}, {}, {}, {}, Done(FALSE, r.id, r.revision))]
  /\ Goto(c, "commit_replay")
  /\ Silent /\ UNCHANGED found

ReadReplay(c) ==
  /\ pc[c] = "replay"
  /\ Free(c, ReplayLocks(c))
  /\ Take(c, ReplayLocks(c))
  /\ \E r \in Matching(c) :
       /\ r.intent = Intent(c) /\ r.revision # 0
       /\ tx' = [tx EXCEPT ![c] =
                   Staged({}, {}, {}, {}, Done(FALSE, r.id, r.revision))]
  /\ Goto(c, "commit_replay")
  /\ Silent /\ UNCHANGED found

\* The receipt records another command, or no result (a runtime failure).
RejectReplay(c) ==
  /\ pc[c] = "replay"
  /\ Free(c, ReplayLocks(c))
  /\ Take(c, ReplayLocks(c))
  /\ \E r \in Matching(c) :
       /\ ~(r.intent = Intent(c) /\ r.revision # 0)
       /\ GiveUp(c, IF r.intent # Intent(c) THEN Refused("idempotency_conflict")
                                           ELSE Failed)

\* insert_organization_and_owner.  The owner's index entry is not locked: no
\* other transaction knows the new organization_id.
InsertOrganization(c) ==
  /\ pc[c] = "insert"
  /\ ~SlugTaken(request[c].intent.slug)
  /\ Free(c, {SlugLock(c)})
  /\ Take(c, {SlugLock(c)})
  /\ tx' = [tx EXCEPT ![c] =
              Staged({NewOrg(c)}, {}, {NewOwner(c)}, tx[c].receipts,
                     Done(TRUE, c, 1))]
  /\ Goto(c, "commit")
  /\ Silent /\ UNCHANGED found

SlugConflict(c) ==
  /\ pc[c] = "insert"
  /\ SlugTaken(request[c].intent.slug)
  /\ GiveUp(c, Refused("slug_conflict"))
  /\ UNCHANGED locks

-----------------------------------------------------------------------------
(* Membership commands, once the key is reserved. *)

\* Mutant: lock_active_organization reads without FOR UPDATE.
LockOrganizationUnlocked(c) ==
  /\ pc[c] = "lock" /\ ActiveOrg(request[c].intent.org)
  /\ Goto(c, "read")
  /\ Silent /\ UNCHANGED <<locks, tx, found>>

\* lock_active_organization
LockOrganization(c) ==
  LET o == request[c].intent.org IN
  /\ pc[c] = "lock" /\ ActiveOrg(o)
  /\ Free(c, {OrgLock(o)})
  /\ Take(c, {OrgLock(o)})
  /\ Goto(c, "read")
  /\ Silent /\ UNCHANGED <<tx, found>>

\* An archived row is locked all the same, a missing one is not.
MissOrganization(c) ==
  LET o == request[c].intent.org
      ls == {OrgLock(g.id) : g \in {h \in orgs : h.id = o}}
  IN
  /\ pc[c] = "lock" /\ ~ActiveOrg(o)
  /\ Free(c, ls)
  /\ Take(c, ls)
  /\ GiveUp(c, Refused("organization_not_found"))

\* Mutant: a removal does not look at is_owner.
ReadMemberUnguarded(c) ==
  /\ pc[c] = "read"
  /\ Op(c) = "remove_member" => Found(c) # {}
  /\ Free(c, MemberLocks(Found(c)))
  /\ Take(c, MemberLocks(Found(c)))
  /\ found' = [found EXCEPT ![c] = Found(c)]
  /\ Goto(c, "write")
  /\ Silent /\ UNCHANGED tx

\* SELECT ... FOR UPDATE of the active membership.
ReadMember(c) ==
  /\ pc[c] = "read"
  /\ Op(c) = "remove_member" => \E m \in Found(c) : ~m.owner
  /\ Free(c, MemberLocks(Found(c)))
  /\ Take(c, MemberLocks(Found(c)))
  /\ found' = [found EXCEPT ![c] = Found(c)]
  /\ Goto(c, "write")
  /\ Silent /\ UNCHANGED tx

MissMember(c) ==
  /\ pc[c] = "read" /\ Op(c) = "remove_member"
  /\ Found(c) = {}
  /\ GiveUp(c, Refused("membership_not_found"))
  /\ UNCHANGED locks

ProtectOwner(c) ==
  /\ pc[c] = "read" /\ Op(c) = "remove_member"
  /\ \E m \in Found(c) : m.owner
  /\ Free(c, MemberLocks(Found(c)))
  /\ Take(c, MemberLocks(Found(c)))
  /\ GiveUp(c, Refused("owner_protected"))

\* INSERT of the membership: the unique index lets one active row through.
InsertMember(c) ==
  /\ pc[c] = "write" /\ Op(c) = "add_member" /\ found[c] = {}
  /\ Free(c, {SubjectLock(c)})
  /\ Take(c, {SubjectLock(c)})
  /\ IF Found(c) = {}
       THEN /\ Stage(c, {}, {NewMember(c)}, Done(TRUE, c, 1))
            /\ Goto(c, "complete")
            /\ Silent /\ UNCHANGED found
       ELSE GiveUp(c, Failed)

KeepMember(c) ==
  /\ pc[c] = "write" /\ Op(c) = "add_member"
  /\ \E m \in found[c] : Stage(c, {}, {}, Done(FALSE, m.id, m.revision))
  /\ Goto(c, "complete")
  /\ Silent /\ UNCHANGED <<locks, found>>

\* Mutant: a removal deletes the row.
UpdateMemberDeleting(c) ==
  /\ pc[c] = "write" /\ Op(c) = "remove_member"
  /\ \E m \in found[c] : Stage(c, {m}, {}, Done(TRUE, m.id, m.revision + 1))
  /\ Goto(c, "complete")
  /\ Silent /\ UNCHANGED <<locks, found>>

\* UPDATE ... WHERE membership_id = m.id AND removed_at IS NULL: rows that no
\* longer qualify are skipped and nobody looks at the row count.
UpdateMember(c) ==
  /\ pc[c] = "write" /\ Op(c) = "remove_member"
  /\ \E m \in found[c] :
       LET rows == {n \in members : n.id = m.id /\ n.org = m.org /\ n.active}
           news == {[id |-> n.id, org |-> n.org, subject |-> n.subject,
                     owner |-> n.owner, active |-> FALSE,
                     revision |-> m.revision + 1] : n \in rows}
       IN Stage(c, rows, news, Done(TRUE, m.id, m.revision + 1))
  /\ Goto(c, "complete")
  /\ Silent /\ UNCHANGED <<locks, found>>

\* Mutant: the receipt is left without its result.
CompleteNothing(c) ==
  /\ pc[c] = "complete"
  /\ Goto(c, "commit")
  /\ Silent /\ UNCHANGED <<locks, tx, found>>

\* complete_membership_command
Complete(c) ==
  /\ pc[c] = "complete"
  /\ tx' = [tx EXCEPT ![c] =
              Staged({}, tx[c].gone, tx[c].members,
                     {ReceiptOf(c, tx[c].reply.id, tx[c].reply.revision)},
                     tx[c].reply)]
  /\ Goto(c, "commit")
  /\ Silent /\ UNCHANGED <<locks, found>>

-----------------------------------------------------------------------------
(* The end of a transaction. *)

\* Mutant: the connection goes back to the pool with its transaction open.
ReleaseKeepingLocks(c) ==
  /\ pc' = [pc EXCEPT ![c] = "done"]
  /\ tx' = [tx EXCEPT ![c] = NoWrites]
  /\ found' = [found EXCEPT ![c] = {}]
  /\ UNCHANGED <<request, locks, began, clock>>

Release(c) ==
  /\ pc' = [pc EXCEPT ![c] = "done"]
  /\ locks' = [locks EXCEPT ![c] = {}]
  /\ tx' = [tx EXCEPT ![c] = NoWrites]
  /\ found' = [found EXCEPT ![c] = {}]
  /\ UNCHANGED <<request, began, clock>>

\* Mutant: the receipts are not part of the transaction.
ApplyUnrecorded(c) ==
  /\ orgs' = orgs \cup tx[c].orgs
  /\ members' = (members \ tx[c].gone) \cup tx[c].members
  /\ UNCHANGED receipts

Apply(c) ==
  /\ orgs' = orgs \cup tx[c].orgs
  /\ members' = (members \ tx[c].gone) \cup tx[c].members
  /\ receipts' = receipts \cup tx[c].receipts

Commit(c) ==
  /\ pc[c] = "commit"
  /\ Apply(c) /\ Release(c)
  /\ Answer(c, tx[c].reply)

\* The database commits and its acknowledgement is lost.
CommitUnacknowledged(c) ==
  /\ pc[c] = "commit"
  /\ Apply(c) /\ Release(c)
  /\ Answer(c, Failed)

CommitReplay(c) ==
  /\ pc[c] = "commit_replay"
  /\ Release(c)
  /\ Answer(c, tx[c].reply)
  /\ UNCHANGED <<orgs, members, receipts>>

\* No connection, or no transaction, was to be had.
FailToBegin(c) ==
  /\ pc[c] = "begin"
  /\ Answer(c, Failed)
  /\ Goto(c, "done")
  /\ UNCHANGED <<orgs, members, receipts, request, locks, tx, found, began, clock>>

\* Mutant: a failed commit is answered like a successful one.
FailUnnoticed(c) ==
  /\ pc[c] = "commit"
  /\ GiveUp(c, tx[c].reply)
  /\ UNCHANGED locks

\* A statement fails, the request is cancelled, or the process dies.
Fail(c) ==
  /\ pc[c] \in {"reserve", "replay", "insert", "lock", "read", "write",
                "complete", "commit", "commit_replay"}
  /\ GiveUp(c, Failed)
  /\ UNCHANGED locks

\* Mutant: a dropped transaction is committed.
RollbackApplying(c) ==
  /\ pc[c] = "rollback"
  /\ Apply(c) /\ Release(c)
  /\ UNCHANGED result

Rollback(c) ==
  /\ pc[c] = "rollback"
  /\ Release(c)
  /\ UNCHANGED <<orgs, members, receipts, result>>

-----------------------------------------------------------------------------
(* The environment. *)

\* UPDATE organizations SET archived_at by the Operator, in its own
\* transaction; it waits for the row.
Archive(o) ==
  /\ \A d \in Call : OrgLock(o) \notin locks[d]
  /\ \E g \in orgs :
       /\ g.id = o /\ g.active
       /\ orgs' = (orgs \ {g}) \cup {ArchivedOrg(g)}
  /\ UNCHANGED <<members, receipts, request, result, session, began, clock>>

Tick ==
  /\ clock < MaxTime
  /\ clock' = clock + 1
  /\ UNCHANGED <<orgs, members, receipts, request, result, session, began>>

-----------------------------------------------------------------------------
(* check_membership reads one committed snapshot: the rows of the subject    *)
(* ordered by created_at, the transaction_timestamp() of their inserter.     *)

\* Mutant: the subqueries do not select the subject.
LatestRowsOfAnyone(o, s) ==
  LET rows == {m \in members : m.org = o}
  IN {m \in rows : \A n \in rows : began[n.id] <= began[m.id]}

LatestRows(o, s) ==
  LET rows == {m \in members : m.org = o /\ m.subject = s}
  IN {m \in rows : \A n \in rows : began[n.id] <= began[m.id]}

\* What it may answer for an active Organization; two subqueries sort the rows
\* and need not break a tie alike.
CheckAnswers(o, s) ==
  IF LatestRows(o, s) = {}
    THEN {[active |-> FALSE, owner |-> FALSE]}
    ELSE {[active |-> m.active, owner |-> n.owner /\ n.active] :
            m \in LatestRows(o, s), n \in LatestRows(o, s)}

-----------------------------------------------------------------------------
Init ==
  /\ TablesInit
  /\ pc = [c \in Call |-> "idle"]
  /\ locks = [c \in Call |-> {}]
  /\ tx = [c \in Call |-> NoWrites]
  /\ found = [c \in Call |-> {}]
  /\ began = [c \in Call |-> 0]
  /\ clock = 0

\* What the runtime does on its own, once a call has been made.
Step(c) ==
  \/ Forbidden(c) \/ Malformed(c) \/ Admit(c) \/ Begin(c)
  \/ Reserve(c) \/ FindReceipt(c) \/ ReadReplay(c) \/ RejectReplay(c)
  \/ InsertOrganization(c) \/ SlugConflict(c)
  \/ LockOrganization(c) \/ MissOrganization(c)
  \/ ReadMember(c) \/ MissMember(c) \/ ProtectOwner(c)
  \/ InsertMember(c) \/ KeepMember(c) \/ UpdateMember(c) \/ Complete(c)
  \/ Commit(c) \/ CommitReplay(c) \/ Rollback(c)

Next ==
  \/ \E c \in Call :
       Step(c) \/ CommitUnacknowledged(c) \/ FailToBegin(c) \/ Fail(c)
  \/ \E o \in Call : Archive(o)
  \/ Tick

Spec == Init /\ [][Next]_vars

\* Each call's task is polled, each statement is answered, and a dropped
\* transaction is rolled back when its connection returns to the pool.
\* Nothing is assumed of failures, of the Operator or of the clock.
FairSpec == Spec /\ \A c \in Call : WF_vars(Step(c))

-----------------------------------------------------------------------------
Label ==
  {"idle", "begin", "reserve", "replay", "insert", "lock", "read", "write",
   "complete", "commit", "commit_replay", "rollback", "done"}

Writes ==
  [orgs : SUBSET Org, gone : SUBSET Member, members : SUBSET Member,
   receipts : SUBSET Receipt, reply : Reply \cup {Pending}]

\* Every variable has its type.
TypeOK ==
  /\ TablesTypeOK
  /\ pc \in [Call -> Label]
  /\ locks \in [Call -> SUBSET Lock]
  /\ tx \in [Call -> Writes]
  /\ found \in [Call -> SUBSET Member]
  /\ began \in [Call -> 0..MaxTime]
  /\ clock \in 0..MaxTime

\* Every call returns and its connection is back in the pool, whatever the
\* others hold or wait for, even with a single connection.
EveryCallSettles == \A c \in Call : <>(pc[c] = "done")

\* The locks the next statement of a call waits for, and whom it waits for: the
\* holder of one, or with no connection left whoever has one.
Awaits(c, l) ==
  \/ pc[c] = "reserve" /\ Matching(c) = {} /\ l = ReceiptLock(c)
  \/ pc[c] = "replay" /\ l \in ReplayLocks(c)
  \/ pc[c] = "insert" /\ ~SlugTaken(request[c].intent.slug) /\ l = SlugLock(c)
  \/ /\ pc[c] = "lock" /\ l = OrgLock(request[c].intent.org)
     /\ \E g \in orgs : g.id = request[c].intent.org
  \/ pc[c] = "read" /\ l \in MemberLocks(Found(c))
  \/ pc[c] = "write" /\ Op(c) = "add_member" /\ found[c] = {} /\ l = SubjectLock(c)

WaitsFor(c, d) ==
  /\ c # d
  /\ \/ \E l \in locks[d] : Awaits(c, l)
     \/ pc[c] = "begin" /\ d \in Connected /\ Cardinality(Connected) >= PoolSize

\* Calls never wait for each other in a circle, over locks and connections,
\* whichever of them they take first; and nobody waits for a call that is over.
NobodyIsStuck ==
  /\ \A c, d \in Call : WaitsFor(c, d) => d \in Connected
  /\ \A S \in SUBSET Call : S # {} => \E c \in S : \A d \in S : ~WaitsFor(c, d)

\* The partial unique index on active subjects is a second line of defence:
\* the Organization lock already keeps the add that found no member from
\* meeting one when it inserts.
InsertFindsIndexFree ==
  \A c \in Call :
    pc[c] = "write" /\ Op(c) = "add_member" /\ found[c] = {} =>
      Found(c) = {} /\ Free(c, {SubjectLock(c)})

\* A removal revises the row it read: neither the row nor its revision
\* changes between the SELECT and the UPDATE, whose row count goes unread.
RemovalMeetsItsRow ==
  \A c \in Call :
    pc[c] = "write" /\ Op(c) = "remove_member" =>
      found[c] # {} /\ found[c] \subseteq members

\* A membership command still in hand finds its Organization active when it
\* commits: archiving waits for it.
CommitsToActiveOrganization ==
  \A c \in Call :
    pc[c] = "commit" /\ ~IsCreate(c) => ActiveOrg(request[c].intent.org)

\* check_membership confirms the owner of an active Organization as an active
\* owner at every moment.
OwnerAlwaysConfirmed ==
  \A m \in members :
    m.owner /\ ActiveOrg(m.org) =>
      CheckAnswers(m.org, m.subject) = {[active |-> TRUE, owner |-> TRUE]}

\* check_membership can find the active membership of a subject that has one.
CheckFindsActiveMember ==
  \A o \in Call, s \in Subject :
    ActiveOrg(o) /\ ActiveMembers(o, s) # {} =>
      \E a \in CheckAnswers(o, s) : a.active

\* The Plugin card's order for the membership commands: lock the active
\* Organization, then reserve the command identity.
OrganizationLockedFirst ==
  \A c \in Call :
    ~IsCreate(c) /\ pc[c] \notin {"rollback", "commit_replay"}
      /\ ReceiptLock(c) \in locks[c]
        => OrgLock(request[c].intent.org) \in locks[c]

\* The transactions implement the indivisible commands, under the same
\* tables, requests and answers.
ImplementsService == ServiceSpec

=============================================================================
