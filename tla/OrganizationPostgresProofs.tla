---------------------- MODULE OrganizationPostgresProofs ----------------------
(* Theorems about the Postgres implementation. *)
EXTENDS OrganizationPostgres, OrganizationServiceProofs

-----------------------------------------------------------------------------
(* The inductive invariant: what each transaction knows, by where it stands, *)
(* and the lock that keeps it true while others commit.                      *)

LocksExclusive ==
  \A c, d \in Call : c # d => locks[c] \cap locks[d] = {}

TargetOrg(c) == request[c].intent.org

HoldsKey(c) ==
  pc[c] \in {"insert", "lock", "read", "write", "complete", "commit"}

HoldsOrg(c) ==
  ~IsCreate(c) /\ pc[c] \in {"read", "write", "complete", "commit"}

\* Before its answer a call waits; past admission it is admitted.
CallInv(c) ==
  /\ Waiting(c) <=> pc[c] \notin {"rollback", "done"}
  /\ pc[c] \notin {"idle", "rollback", "done"} => Admitted(c)
  /\ pc[c] = "insert" => IsCreate(c)
  /\ pc[c] \in {"lock", "read", "write", "complete"} => ~IsCreate(c)

\* The reservation: nobody else has used the key, nor can.
KeyInv(c) ==
  /\ HoldsKey(c) => ReceiptLock(c) \in locks[c] /\ Matching(c) = {}
  /\ pc[c] = "insert" => tx[c].receipts = {ReceiptOf(c, c, 1)}

ReplayInv(c) ==
  /\ pc[c] = "replay" => Matching(c) # {}
  /\ pc[c] = "commit_replay" =>
       \E r \in Matching(c) :
         r.intent = Intent(c) /\ tx[c].reply = Done(FALSE, r.id, r.revision)

\* A creation about to commit.
CreateInv(c) ==
  pc[c] = "commit" /\ IsCreate(c) =>
    /\ SlugLock(c) \in locks[c]
    /\ ~SlugTaken(request[c].intent.slug)
    /\ tx[c] = Staged({NewOrg(c)}, {}, {NewOwner(c)}, {ReceiptOf(c, c, 1)},
                      Done(TRUE, c, 1))

\* The rows a membership command has staged.
StagedAdd(c) ==
  /\ Op(c) = "add_member" /\ Found(c) = {}
  /\ tx[c].gone = {} /\ tx[c].members = {NewMember(c)}
  /\ tx[c].reply = Done(TRUE, c, 1)

StagedKeep(c) ==
  /\ Op(c) = "add_member"
  /\ tx[c].gone = {} /\ tx[c].members = {}
  /\ \E m \in Found(c) : tx[c].reply = Done(FALSE, m.id, m.revision)

StagedRemove(c) ==
  /\ Op(c) = "remove_member"
  /\ \E m \in Found(c) :
       /\ ~m.owner
       /\ tx[c].gone = {m} /\ tx[c].members = {RemovedMember(m)}
       /\ tx[c].reply = Done(TRUE, m.id, m.revision + 1)

\* A membership command that holds its Organization: what it has read is
\* still what the tables say.
OrgInv(c) ==
  /\ HoldsOrg(c) => OrgLock(TargetOrg(c)) \in locks[c] /\ ActiveOrg(TargetOrg(c))
  /\ HoldsOrg(c) /\ pc[c] # "read" =>
       /\ found[c] = Found(c)
       /\ Op(c) = "remove_member" => \E m \in Found(c) : ~m.owner
  /\ HoldsOrg(c) /\ pc[c] \in {"complete", "commit"} =>
       /\ tx[c].orgs = {}
       /\ StagedAdd(c) \/ StagedKeep(c) \/ StagedRemove(c)
  /\ HoldsOrg(c) /\ pc[c] = "commit" =>
       tx[c].receipts = {ReceiptOf(c, tx[c].reply.id, tx[c].reply.revision)}

SessionInv(c) ==
  CallInv(c) /\ KeyInv(c) /\ ReplayInv(c) /\ CreateInv(c) /\ OrgInv(c)

SessionsInv == \A c \in Call : SessionInv(c)

Inv == TypeOK /\ RowInv /\ LocksExclusive /\ SessionsInv

-----------------------------------------------------------------------------
(* Every step is a step of the service or leaves its variables alone.        *)

\* Applying a staged transaction is the service's indivisible command.
LEMMA CommitRefines ==
  ASSUME Inv, NEW c \in Call, pc[c] = "commit", Apply(c), UNCHANGED request,
         Confirm(c, tx[c].reply)
  PROVE  ServiceNext
<1>1. SessionInv(c)
  BY DEF Inv, SessionsInv
<1>2. Fresh(c)
  BY <1>1 DEF SessionInv, CallInv, KeyInv, HoldsKey, Fresh
<1>3. CASE IsCreate(c)
  <2>1. /\ ~SlugTaken(request[c].intent.slug)
        /\ tx[c] = Staged({NewOrg(c)}, {}, {NewOwner(c)}, {ReceiptOf(c, c, 1)},
                          Done(TRUE, c, 1))
    BY <1>1, <1>3 DEF SessionInv, CreateInv
  <2>2. /\ tx[c].orgs = {NewOrg(c)} /\ tx[c].gone = {}
        /\ tx[c].members = {NewOwner(c)}
        /\ tx[c].receipts = {ReceiptOf(c, c, 1)} /\ tx[c].reply = Done(TRUE, c, 1)
    BY <2>1 DEF Staged
  <2>3. Create(c)
    BY <1>2, <1>3, <2>1, <2>2 DEF Create, Apply
  <2> QED BY <2>3 DEF ServiceNext
<1>4. CASE ~IsCreate(c)
  <2>1. /\ ActiveOrg(request[c].intent.org)
        /\ tx[c].orgs = {}
        /\ StagedAdd(c) \/ StagedKeep(c) \/ StagedRemove(c)
        /\ tx[c].receipts = {ReceiptOf(c, tx[c].reply.id, tx[c].reply.revision)}
    BY <1>1, <1>4 DEF SessionInv, OrgInv, HoldsOrg, TargetOrg
  <2>2. Enters(c)
    BY <1>2, <1>4, <2>1 DEF Enters
  <2>4. CASE StagedAdd(c)
    <3>1. tx[c].reply.id = c /\ tx[c].reply.revision = 1
      BY <2>4 DEF StagedAdd, Done
    <3>2. tx[c].receipts = {ReceiptOf(c, c, 1)}
      BY <2>1, <3>1
    <3>3. AddNew(c)
      BY <2>1, <2>2, <2>4, <3>2 DEF StagedAdd, AddNew, Apply
    <3> QED BY <3>3 DEF ServiceNext
  <2>5. CASE StagedKeep(c)
    <3>1. PICK m \in Found(c) : tx[c].reply = Done(FALSE, m.id, m.revision)
      BY <2>5 DEF StagedKeep
    <3>2. tx[c].reply.id = m.id /\ tx[c].reply.revision = m.revision
      BY <3>1 DEF Done
    <3>3. tx[c].receipts = {ReceiptOf(c, m.id, m.revision)}
      BY <2>1, <3>2
    <3>4. AddExisting(c)
      BY <2>1, <2>2, <2>5, <3>1, <3>3 DEF StagedKeep, AddExisting, Apply
    <3> QED BY <3>4 DEF ServiceNext
  <2>6. CASE StagedRemove(c)
    <3>1. PICK m \in Found(c) :
            /\ ~m.owner
            /\ tx[c].gone = {m} /\ tx[c].members = {RemovedMember(m)}
            /\ tx[c].reply = Done(TRUE, m.id, m.revision + 1)
      BY <2>6 DEF StagedRemove
    <3>2. tx[c].reply.id = m.id /\ tx[c].reply.revision = m.revision + 1
      BY <3>1 DEF Done
    <3>3. tx[c].receipts = {ReceiptOf(c, m.id, m.revision + 1)}
      BY <2>1, <3>2
    <3>4. Remove(c)
      BY <2>1, <2>2, <2>6, <3>1, <3>3 DEF StagedRemove, Remove, Apply
    <3> QED BY <3>4 DEF ServiceNext
  <2> QED BY <2>1, <2>4, <2>5, <2>6
<1> QED BY <1>3, <1>4

\* A call given up without effect: a refusal the service makes, or a failure.
LEMMA StepRefines ==
  ASSUME Inv, [Next]_vars
  PROVE  [ServiceNext]_serviceVars
<1>1. CASE UNCHANGED vars
  BY <1>1 DEF vars, serviceVars
<1>2. ASSUME NEW o \in Call, Archive(o)
      PROVE  ServiceNext
  BY <1>2 DEF Archive, ArchiveOrg, ServiceNext
<1>3. CASE Tick
  BY <1>3 DEF Tick, serviceVars
<1>4. ASSUME NEW c \in Call,
             Step(c) \/ CommitUnacknowledged(c) \/ FailToBegin(c) \/ Fail(c)
      PROVE  [ServiceNext]_serviceVars
  <2>1. SessionInv(c)
    BY DEF Inv, SessionsInv
  <2>2. /\ Waiting(c) <=> pc[c] \notin {"rollback", "done"}
        /\ pc[c] \notin {"idle", "rollback", "done"} => Admitted(c)
        /\ pc[c] \in {"lock", "read", "write", "complete"} => ~IsCreate(c)
        /\ pc[c] = "insert" => IsCreate(c)
        /\ HoldsKey(c) => Matching(c) = {}
    BY <2>1 DEF SessionInv, CallInv, KeyInv
  <2>3. /\ pc[c] \in {"insert", "lock", "read", "write", "complete"} => Fresh(c)
        /\ pc[c] \in {"read", "write"} => Enters(c)
    BY <2>1, <2>2
       DEF Fresh, HoldsKey, Enters, SessionInv, OrgInv, HoldsOrg, TargetOrg
  <2>4. CASE Admit(c) \/ Begin(c) \/ Reserve(c) \/ FindReceipt(c) \/ ReadReplay(c)
             \/ InsertOrganization(c) \/ LockOrganization(c) \/ ReadMember(c)
             \/ KeepMember(c) \/ UpdateMember(c) \/ Complete(c) \/ Rollback(c)
    <3>1. UNCHANGED serviceVars
      BY <2>4 DEF Admit, Begin, Reserve, FindReceipt, ReadReplay,
                  InsertOrganization, LockOrganization, ReadMember, KeepMember,
                  UpdateMember, Complete, Rollback, Release, Silent, serviceVars
    <3> QED BY <3>1
  <2>5. CASE Forbidden(c)
    <3>1. AnswerForbidden(c)
      BY <2>2, <2>5 DEF Forbidden, AnswerForbidden, Refuse
    <3> QED BY <3>1 DEF ServiceNext
  <2>6. CASE Malformed(c)
    <3>1. AnswerInvalid(c)
      BY <2>2, <2>6 DEF Malformed, AnswerInvalid, Refuse
    <3> QED BY <3>1 DEF ServiceNext
  <2>7. CASE RejectReplay(c)
    <3>1. PICK r \in Matching(c) :
            GiveUp(c, IF r.intent # Intent(c) THEN Refused("idempotency_conflict")
                                              ELSE Failed)
      BY <2>7 DEF RejectReplay
    <3>2. Waiting(c) /\ Admitted(c)
      BY <2>2, <2>7 DEF RejectReplay
    <3>3. CASE r.intent # Intent(c)
      BY <3>1, <3>2, <3>3 DEF GiveUp, AnswerKeyConflict, Refuse, ServiceNext
    <3>4. CASE r.intent = Intent(c)
      BY <3>1, <3>2, <3>4 DEF GiveUp, AnswerFailure, ServiceNext
    <3> QED BY <3>3, <3>4
  <2>8. CASE SlugConflict(c)
    <3>1. AnswerSlugConflict(c)
      BY <2>2, <2>3, <2>8 DEF SlugConflict, GiveUp, AnswerSlugConflict, Refuse
    <3> QED BY <3>1 DEF ServiceNext
  <2>9. CASE MissOrganization(c)
    <3>1. AnswerOrganizationNotFound(c)
      BY <2>2, <2>3, <2>9
         DEF MissOrganization, GiveUp, AnswerOrganizationNotFound, Refuse
    <3> QED BY <3>1 DEF ServiceNext
  <2>10. CASE MissMember(c)
    <3>1. AnswerMembershipNotFound(c)
      BY <2>3, <2>10 DEF MissMember, GiveUp, AnswerMembershipNotFound, Refuse
    <3> QED BY <3>1 DEF ServiceNext
  <2>11. CASE ProtectOwner(c)
    <3>1. AnswerOwnerProtected(c)
      BY <2>3, <2>11 DEF ProtectOwner, GiveUp, AnswerOwnerProtected, Refuse
    <3> QED BY <3>1 DEF ServiceNext
  <2>12. CASE InsertMember(c)
    <3>1. CASE Found(c) = {}
      BY <2>12, <3>1 DEF InsertMember, Silent, serviceVars
    <3>2. CASE Found(c) # {}
      <4>1. AnswerFailure(c)
        BY <2>2, <2>12, <3>2 DEF InsertMember, GiveUp, AnswerFailure
      <4> QED BY <4>1 DEF ServiceNext
    <3> QED BY <3>1, <3>2
  <2>13. CASE Commit(c) \/ CommitUnacknowledged(c)
    <3>1. pc[c] = "commit" /\ Apply(c) /\ UNCHANGED request /\ Confirm(c, tx[c].reply)
      BY <2>13 DEF Commit, CommitUnacknowledged, Confirm, Release
    <3> QED BY <3>1, CommitRefines
  <2>14. CASE CommitReplay(c)
    <3>1. PICK r \in Matching(c) :
            r.intent = Intent(c) /\ tx[c].reply = Done(FALSE, r.id, r.revision)
      BY <2>1, <2>14 DEF CommitReplay, SessionInv, ReplayInv
    <3>2. AnswerReplay(c)
      BY <2>2, <2>14, <3>1 DEF CommitReplay, Release, AnswerReplay, Confirm
    <3> QED BY <3>2 DEF ServiceNext
  <2>15. CASE FailToBegin(c) \/ Fail(c)
    <3>1. AnswerFailure(c)
      BY <2>2, <2>15 DEF FailToBegin, Fail, GiveUp, AnswerFailure
    <3> QED BY <3>1 DEF ServiceNext
  <2> QED BY <1>4, <2>4, <2>5, <2>6, <2>7, <2>8, <2>9, <2>10, <2>11, <2>12,
             <2>13, <2>14, <2>15 DEF Step
<1> QED BY <1>1, <1>2, <1>3, <1>4 DEF Next

-----------------------------------------------------------------------------
(* Types of the session variables.                                           *)

LEMMA LockTypes ==
  ASSUME request \in [Call -> Request], NEW c \in Call
  PROVE  /\ ReceiptLock(c) \in Lock
         /\ IsCreate(c) => SlugLock(c) \in Lock
         /\ \A o \in Call : OrgLock(o) \in Lock
         /\ ~IsCreate(c) => SubjectLock(c) \in Lock /\ TargetOrg(c) \in Call
         /\ \A rows \in SUBSET Member : MemberLocks(rows) \subseteq Lock
<1>1. ReceiptLock(c) \in Lock
  BY IntentType DEF ReceiptLock, Lock
<1>2. IsCreate(c) => SlugLock(c) \in Lock
  BY IntentType DEF SlugLock, Lock, CreateIntent
<1>3. \A o \in Call : OrgLock(o) \in Lock
  BY DEF OrgLock, Lock
<1>4. ~IsCreate(c) => SubjectLock(c) \in Lock /\ TargetOrg(c) \in Call
  BY IntentType DEF SubjectLock, Lock, MemberIntent, TargetOrg
<1>5. \A rows \in SUBSET Member : MemberLocks(rows) \subseteq Lock
  BY DEF MemberLocks, Lock, Member
<1> QED BY <1>1, <1>2, <1>3, <1>4, <1>5

LEMMA WritesType ==
  /\ NoWrites \in Writes
  /\ \A o \in SUBSET Org, g \in SUBSET Member, m \in SUBSET Member,
        r \in SUBSET Receipt, a \in Reply \cup {Pending} :
       Staged(o, g, m, r, a) \in Writes
BY DEF NoWrites, Staged, Writes

LEMMA TakeType ==
  ASSUME locks \in [Call -> SUBSET Lock], NEW c \in Call, NEW ls \in SUBSET Lock,
         Take(c, ls)
  PROVE  locks' \in [Call -> SUBSET Lock]
BY DEF Take

LEMMA StageType ==
  ASSUME tx \in [Call -> Writes], NEW c \in Call,
         NEW gone \in SUBSET Member, NEW new \in SUBSET Member, NEW r \in Reply,
         Stage(c, gone, new, r)
  PROVE  tx' \in [Call -> Writes]
<1>1. tx[c].receipts \in SUBSET Receipt
  BY DEF Writes
<1>2. Staged({}, gone, new, tx[c].receipts, r) \in Writes
  BY <1>1, WritesType
<1> QED BY <1>2 DEF Stage

LEMMA ReleaseType ==
  ASSUME TypeOK, NEW c \in Call, Release(c)
  PROVE  /\ pc' \in [Call -> Label]
         /\ locks' \in [Call -> SUBSET Lock]
         /\ tx' \in [Call -> Writes]
         /\ found' \in [Call -> SUBSET Member]
         /\ began' \in [Call -> 0..MaxTime]
         /\ clock' \in 0..MaxTime
BY WritesType DEF TypeOK, Release, Label

LEMMA SessionTypes ==
  ASSUME Inv, [Next]_vars, TablesTypeOK'
  PROVE  TypeOK'
<1> USE DEF TypeOK
<1>0. TypeOK /\ request \in [Call -> Request]
  BY DEF Inv, TablesTypeOK
<1>1. CASE UNCHANGED vars
  BY <1>0, <1>1 DEF vars
<1>2. ASSUME NEW o \in Call, Archive(o)
      PROVE  TypeOK'
  BY <1>0, <1>2 DEF Archive, session
<1>3. CASE Tick
  <2>1. clock' \in 0..MaxTime
    BY <1>0, <1>3, TimeAssumption DEF Tick
  <2> QED BY <1>0, <1>3, <2>1 DEF Tick, session
<1>4. ASSUME NEW c \in Call,
             Step(c) \/ CommitUnacknowledged(c) \/ FailToBegin(c) \/ Fail(c)
      PROVE  TypeOK'
  <2>0. /\ pc[c] \in {"lock", "read", "write", "complete"} => ~IsCreate(c)
        /\ pc[c] = "insert" => IsCreate(c)
    BY DEF Inv, SessionsInv, SessionInv, CallInv
  <2>1. CASE Forbidden(c) \/ Malformed(c) \/ Admit(c) \/ FindReceipt(c)
             \/ FailToBegin(c) \/ Fail(c) \/ SlugConflict(c) \/ MissMember(c)
    BY <1>0, <2>1
       DEF Forbidden, Malformed, Admit, FindReceipt, FailToBegin, Fail,
           SlugConflict, MissMember, GiveUp, Silent, Goto, Label
  <2>2. CASE Begin(c)
    BY <1>0, <2>2 DEF Begin, Goto, Label
  <2>3. CASE Reserve(c)
    <3>1. Reservation(c) \in Receipt
      BY <1>0, ReceiptType DEF Reservation
    <3>2. Staged({}, {}, {}, {Reservation(c)}, Pending) \in Writes
      BY <3>1, WritesType
    <3>3. tx' \in [Call -> Writes]
      BY <1>0, <2>3, <3>2 DEF Reserve
    <3>4. locks' \in [Call -> SUBSET Lock]
      BY <1>0, <2>3, LockTypes, TakeType DEF Reserve
    <3>5. pc' \in [Call -> Label]
      BY <1>0, <2>3 DEF Reserve, Goto, Label
    <3> QED BY <1>0, <2>3, <3>3, <3>4, <3>5 DEF Reserve, Silent
  <2>4. CASE ReadReplay(c)
    <3>1. PICK r \in Matching(c) :
            tx' = [tx EXCEPT ![c] =
                     Staged({}, {}, {}, {}, Done(FALSE, r.id, r.revision))]
      BY <2>4 DEF ReadReplay
    <3>2. Done(FALSE, r.id, r.revision) \in Reply
      BY <1>0, ReplyTypes DEF Matching, TablesTypeOK, Receipt
    <3>3. Staged({}, {}, {}, {}, Done(FALSE, r.id, r.revision)) \in Writes
      BY <3>2, WritesType
    <3>4. tx' \in [Call -> Writes]
      BY <1>0, <3>1, <3>3
    <3>5. locks' \in [Call -> SUBSET Lock]
      BY <1>0, <2>4, LockTypes, TakeType DEF ReadReplay, ReplayLocks
    <3>6. pc' \in [Call -> Label]
      BY <1>0, <2>4 DEF ReadReplay, Goto, Label
    <3> QED BY <1>0, <2>4, <3>4, <3>5, <3>6 DEF ReadReplay, Silent
  <2>5. CASE RejectReplay(c)
    <3>1. locks' \in [Call -> SUBSET Lock]
      BY <1>0, <2>5, LockTypes, TakeType DEF RejectReplay, ReplayLocks
    <3> QED BY <1>0, <2>5, <3>1 DEF RejectReplay, GiveUp, Goto, Label
  <2>6. CASE InsertOrganization(c)
    <3>1. /\ NewOrg(c) \in Org /\ NewOwner(c) \in Member
          /\ Done(TRUE, c, 1) \in Reply /\ tx[c].receipts \in SUBSET Receipt
      BY <1>0, <2>0, <2>6, NewRowTypes, ReplyTypes DEF InsertOrganization, Writes
    <3>2. Staged({NewOrg(c)}, {}, {NewOwner(c)}, tx[c].receipts, Done(TRUE, c, 1))
            \in Writes
      BY <3>1, WritesType
    <3>3. tx' \in [Call -> Writes]
      BY <1>0, <2>6, <3>2 DEF InsertOrganization
    <3>4. locks' \in [Call -> SUBSET Lock]
      BY <1>0, <2>0, <2>6, LockTypes, TakeType DEF InsertOrganization
    <3>5. pc' \in [Call -> Label]
      BY <1>0, <2>6 DEF InsertOrganization, Goto, Label
    <3> QED BY <1>0, <2>6, <3>3, <3>4, <3>5 DEF InsertOrganization, Silent
  <2>7. CASE LockOrganization(c)
    <3>1. locks' \in [Call -> SUBSET Lock]
      BY <1>0, <2>0, <2>7, LockTypes, TakeType DEF LockOrganization, TargetOrg
    <3> QED BY <1>0, <2>7, <3>1 DEF LockOrganization, Silent, Goto, Label
  <2>8. CASE MissOrganization(c)
    <3>1. {OrgLock(g.id) : g \in {h \in orgs : h.id = request[c].intent.org}}
            \in SUBSET Lock
      BY <1>0, LockTypes DEF TablesTypeOK, Org
    <3>2. locks' \in [Call -> SUBSET Lock]
      BY <1>0, <2>8, <3>1, TakeType DEF MissOrganization
    <3> QED BY <1>0, <2>8, <3>2 DEF MissOrganization, GiveUp, Goto, Label
  <2>9. CASE ReadMember(c) \/ ProtectOwner(c)
    <3>1. Found(c) \in SUBSET Member
      BY <1>0 DEF Found, ActiveMembers, TablesTypeOK
    <3>2. locks' \in [Call -> SUBSET Lock]
      BY <1>0, <2>9, <3>1, LockTypes, TakeType DEF ReadMember, ProtectOwner
    <3> QED BY <1>0, <2>9, <3>1, <3>2
            DEF ReadMember, ProtectOwner, GiveUp, Silent, Goto, Label
  <2>10. CASE InsertMember(c)
    <3>1. locks' \in [Call -> SUBSET Lock]
      BY <1>0, <2>0, <2>10, LockTypes, TakeType DEF InsertMember
    <3>2. CASE Found(c) # {}
      BY <1>0, <2>10, <3>1, <3>2 DEF InsertMember, GiveUp, Goto, Label
    <3>3. CASE Found(c) = {}
      <4>1. NewMember(c) \in Member /\ Done(TRUE, c, 1) \in Reply
        BY <1>0, <2>0, <2>10, NewRowTypes, ReplyTypes DEF InsertMember
      <4>2. tx' \in [Call -> Writes]
        BY <1>0, <2>10, <3>3, <4>1, StageType DEF InsertMember
      <4> QED BY <1>0, <2>10, <3>1, <3>3, <4>2 DEF InsertMember, Silent, Goto, Label
    <3> QED BY <3>2, <3>3
  <2>11. CASE KeepMember(c)
    <3>1. PICK m \in found[c] : Stage(c, {}, {}, Done(FALSE, m.id, m.revision))
      BY <2>11 DEF KeepMember
    <3>2. m.id \in Call /\ m.revision \in Nat
      BY <1>0 DEF Member
    <3>4. Done(FALSE, m.id, m.revision) \in Reply
      BY <3>2, ReplyTypes
    <3>3. tx' \in [Call -> Writes]
      BY <1>0, <3>1, <3>4, StageType
    <3> QED BY <1>0, <2>11, <3>3 DEF KeepMember, Silent, Goto, Label
  <2>12. CASE UpdateMember(c)
    <3> DEFINE Rows(m) == {n \in members : n.id = m.id /\ n.org = m.org /\ n.active}
               News(m) == {[id |-> n.id, org |-> n.org, subject |-> n.subject,
                            owner |-> n.owner, active |-> FALSE,
                            revision |-> m.revision + 1] : n \in Rows(m)}
    <3>1. PICK m \in found[c] :
            Stage(c, Rows(m), News(m), Done(TRUE, m.id, m.revision + 1))
      BY <2>12 DEF UpdateMember
    <3>2. m \in Member /\ m.id \in Call /\ m.revision + 1 \in Nat \ {0}
      BY <1>0 DEF Member
    <3>3. Rows(m) \in SUBSET Member /\ Done(TRUE, m.id, m.revision + 1) \in Reply
      BY <1>0, <3>2, ReplyTypes DEF TablesTypeOK
    <3>4. News(m) \in SUBSET Member
      <4>1. ASSUME NEW n \in Member
            PROVE  [id |-> n.id, org |-> n.org, subject |-> n.subject,
                    owner |-> n.owner, active |-> FALSE,
                    revision |-> m.revision + 1] \in Member
        BY <3>2 DEF Member
      <4> QED BY <3>3, <4>1
    <3>5. tx' \in [Call -> Writes]
      <4> HIDE DEF Rows, News
      <4> QED BY <1>0, <3>1, <3>3, <3>4, StageType
    <3> QED BY <1>0, <2>12, <3>5 DEF UpdateMember, Silent, Goto, Label
  <2>13. CASE Complete(c)
    <3>1. StagedAdd(c) \/ StagedKeep(c) \/ StagedRemove(c)
      BY <2>0, <2>13 DEF Complete, Inv, SessionsInv, SessionInv, OrgInv, HoldsOrg
    <3>2. \A m \in Found(c) : m.id \in Call /\ m.revision \in Nat /\ m.revision + 1 \in Nat
      BY <1>0 DEF Found, ActiveMembers, TablesTypeOK, Member
    <3>3. tx[c].reply \in Reply
      BY <3>1, <3>2, ReplyTypes DEF StagedAdd, StagedKeep, StagedRemove
    <3>4. tx[c].reply.id \in Call /\ tx[c].reply.revision \in Nat
      BY <3>3 DEF Reply
    <3>5. ReceiptOf(c, tx[c].reply.id, tx[c].reply.revision) \in Receipt
      BY <1>0, <3>4, ReceiptType
    <3>6. tx[c].gone \in SUBSET Member /\ tx[c].members \in SUBSET Member
      BY <1>0 DEF Writes
    <3>7. tx' \in [Call -> Writes]
      BY <1>0, <2>13, <3>3, <3>5, <3>6, WritesType DEF Complete
    <3> QED BY <1>0, <2>13, <3>7 DEF Complete, Silent, Goto, Label
  <2>14. CASE Commit(c) \/ CommitUnacknowledged(c) \/ CommitReplay(c) \/ Rollback(c)
    BY <1>0, <2>14, ReleaseType DEF Commit, CommitUnacknowledged, CommitReplay, Rollback
  <2> QED BY <1>4, <2>1, <2>2, <2>3, <2>4, <2>5, <2>6, <2>7, <2>8, <2>9, <2>10,
             <2>11, <2>12, <2>13, <2>14 DEF Step
<1> QED BY <1>0, <1>1, <1>2, <1>3, <1>4 DEF Next

-----------------------------------------------------------------------------
(* Locks.                                                                    *)

LEMMA TakeExclusive ==
  ASSUME LocksExclusive, locks \in [Call -> SUBSET Lock],
         NEW c \in Call, NEW ls, Free(c, ls), Take(c, ls)
  PROVE  LocksExclusive'
<1>1. \A d \in Call : locks'[d] = IF d = c THEN locks[c] \cup ls ELSE locks[d]
  BY DEF Take
<1> QED BY <1>1 DEF LocksExclusive, Free

LEMMA LocksStep ==
  ASSUME Inv, [Next]_vars
  PROVE  LocksExclusive'
<1>0. LocksExclusive /\ locks \in [Call -> SUBSET Lock]
  BY DEF Inv, TypeOK
<1>1. CASE UNCHANGED locks
  BY <1>0, <1>1 DEF LocksExclusive
<1>2. ASSUME NEW c \in Call, Release(c)
      PROVE  LocksExclusive'
  BY <1>0, <1>2 DEF Release, LocksExclusive
<1>3. ASSUME NEW c \in Call, NEW ls, Free(c, ls), Take(c, ls)
      PROVE  LocksExclusive'
  BY <1>0, <1>3, TakeExclusive
<1>4. ASSUME NEW c \in Call,
             Step(c) \/ CommitUnacknowledged(c) \/ FailToBegin(c) \/ Fail(c)
      PROVE  LocksExclusive'
  <2>1. CASE Forbidden(c) \/ Malformed(c) \/ Admit(c) \/ Begin(c) \/ FindReceipt(c)
             \/ SlugConflict(c) \/ MissMember(c) \/ KeepMember(c)
             \/ UpdateMember(c) \/ Complete(c) \/ FailToBegin(c) \/ Fail(c)
    <3>1. UNCHANGED locks
      BY <2>1 DEF Forbidden, Malformed, Admit, Begin, FindReceipt, SlugConflict,
                  MissMember, KeepMember, UpdateMember, Complete, FailToBegin, Fail
    <3> QED BY <1>1, <3>1
  <2>2. CASE Reserve(c) \/ ReadReplay(c) \/ RejectReplay(c) \/ InsertOrganization(c)
    BY <1>3, <2>2 DEF Reserve, ReadReplay, RejectReplay, InsertOrganization
  <2>3. CASE LockOrganization(c) \/ MissOrganization(c) \/ ReadMember(c)
             \/ ProtectOwner(c) \/ InsertMember(c)
    BY <1>3, <2>3 DEF LockOrganization, MissOrganization, ReadMember,
                      ProtectOwner, InsertMember
  <2>4. CASE Commit(c) \/ CommitUnacknowledged(c) \/ CommitReplay(c) \/ Rollback(c)
    BY <1>2, <2>4 DEF Commit, CommitUnacknowledged, CommitReplay, Rollback
  <2> QED BY <1>4, <2>1, <2>2, <2>3, <2>4 DEF Step
<1>5. CASE \E o \in Call : Archive(o)
  BY <1>1, <1>5 DEF Archive, session
<1> QED BY <1>1, <1>4, <1>5 DEF Next, Tick, session, vars

-----------------------------------------------------------------------------
(* What a call asks for never changes.                                       *)

LEMMA SameRequest ==
  ASSUME UNCHANGED request, NEW c \in Call
  PROVE  /\ IsCreate(c)' = IsCreate(c) /\ Op(c)' = Op(c)
         /\ Admitted(c)' = Admitted(c) /\ Intent(c)' = Intent(c)
         /\ ReceiptLock(c)' = ReceiptLock(c) /\ SlugLock(c)' = SlugLock(c)
         /\ TargetOrg(c)' = TargetOrg(c)
         /\ NewOrg(c)' = NewOrg(c) /\ NewOwner(c)' = NewOwner(c)
         /\ NewMember(c)' = NewMember(c)
         /\ \A i, n : ReceiptOf(c, i, n)' = ReceiptOf(c, i, n)
BY DEF IsCreate, Op, Admitted, Authorized, Intent, ReceiptLock, Family, SlugLock,
       TargetOrg, NewOrg, NewOwner, NewMember, ReceiptOf

LEMMA SameTables ==
  ASSUME UNCHANGED <<orgs, members, receipts, request>>, NEW c \in Call
  PROVE  /\ Matching(c)' = Matching(c)
         /\ Found(c)' = Found(c)
         /\ SlugTaken(request[c].intent.slug)' = SlugTaken(request[c].intent.slug)
         /\ ActiveOrg(TargetOrg(c))' = ActiveOrg(TargetOrg(c))
BY DEF Matching, Family, IsCreate, Op, Found, ActiveMembers, SlugTaken, ActiveOrg,
       TargetOrg

\* The part of the session invariant that another call could disturb.
LocalKept(d) ==
  /\ pc'[d] = pc[d] /\ locks'[d] = locks[d] /\ tx'[d] = tx[d]
  /\ found'[d] = found[d] /\ result'[d] = result[d]
  /\ UNCHANGED request

TablesKept(d) ==
  /\ Matching(d) \subseteq Matching(d)'
  /\ HoldsKey(d) => Matching(d)' = {}
  /\ pc[d] = "commit" /\ IsCreate(d) => ~SlugTaken(request[d].intent.slug)'
  /\ HoldsOrg(d) => ActiveOrg(TargetOrg(d))' /\ Found(d)' = Found(d)

LEMMA Frame ==
  ASSUME NEW d \in Call, SessionInv(d), LocalKept(d), TablesKept(d)
  PROVE  SessionInv(d)'
<1>1. /\ HoldsKey(d)' = HoldsKey(d) /\ HoldsOrg(d)' = HoldsOrg(d)
      /\ Waiting(d)' = Waiting(d)
  BY SameRequest DEF LocalKept, HoldsKey, HoldsOrg, Waiting
<1>2. CallInv(d)'
  BY <1>1, SameRequest DEF SessionInv, CallInv, LocalKept
<1>3. KeyInv(d)'
  BY <1>1, SameRequest DEF SessionInv, KeyInv, LocalKept, TablesKept
<1>4. ReplayInv(d)'
  BY <1>1, SameRequest DEF SessionInv, ReplayInv, LocalKept, TablesKept, Done
<1>5. CreateInv(d)'
  BY <1>1, SameRequest DEF SessionInv, CreateInv, LocalKept, TablesKept, Staged, Done
<1>6. OrgInv(d)'
  <2>1. HoldsOrg(d) => /\ StagedAdd(d) => StagedAdd(d)'
                       /\ StagedKeep(d) => StagedKeep(d)'
                       /\ StagedRemove(d) => StagedRemove(d)'
    BY SameRequest DEF StagedAdd, StagedKeep, StagedRemove, LocalKept, TablesKept,
                       Done, RemovedMember
  <2> QED BY <1>1, <2>1, SameRequest DEF SessionInv, OrgInv, LocalKept, TablesKept, OrgLock
<1> QED BY <1>2, <1>3, <1>4, <1>5, <1>6 DEF SessionInv

-----------------------------------------------------------------------------
(* Nobody else's commit, and no archiving, disturbs what a call's locks      *)
(* protect.                                                                  *)

LEMMA QuietKeeps ==
  ASSUME Inv, NEW d \in Call, UNCHANGED <<orgs, members, receipts, request>>
  PROVE  TablesKept(d)
<1>1. SessionInv(d)
  BY DEF Inv, SessionsInv
<1> QED BY <1>1, SameTables
        DEF TablesKept, SessionInv, KeyInv, CreateInv, OrgInv

\* Two calls in hand under one key cannot both hold it.
LEMMA KeysDiffer ==
  ASSUME Inv, NEW c \in Call, NEW d \in Call, c # d, HoldsKey(c), HoldsKey(d),
         UNCHANGED request, NEW i, NEW n
  PROVE  Matching(d)' \cap {ReceiptOf(c, i, n)} = {}
<1>1. ReceiptLock(c) \in locks[c] /\ ReceiptLock(d) \in locks[d]
  BY DEF Inv, SessionsInv, SessionInv, KeyInv
<1>2. ReceiptLock(c) # ReceiptLock(d)
  BY <1>1 DEF Inv, LocksExclusive
<1>3. ~(Family(c) = Family(d) /\ request[c].caller = request[d].caller
        /\ request[c].key = request[d].key)
  BY <1>2 DEF ReceiptLock
<1>4. /\ ReceiptOf(c, i, n).family = Family(c)
      /\ ReceiptOf(c, i, n).caller = request[c].caller
      /\ ReceiptOf(c, i, n).key = request[c].key
  BY DEF ReceiptOf
<1>5. Family(d)' = Family(d)
  BY DEF Family, IsCreate, Op
<1> QED BY <1>3, <1>4, <1>5 DEF Matching

LEMMA ReceiptsKept ==
  ASSUME Inv, NEW c \in Call, NEW d \in Call, c # d, HoldsKey(c), UNCHANGED request,
         NEW i, NEW n, receipts' = receipts \cup {ReceiptOf(c, i, n)}
  PROVE  /\ Matching(d) \subseteq Matching(d)'
         /\ HoldsKey(d) => Matching(d)' = {}
<1>1. Family(d)' = Family(d)
  BY DEF Family, IsCreate, Op
<1>2. Matching(d) \subseteq Matching(d)'
  BY <1>1 DEF Matching
<1>3. Matching(d)' \subseteq Matching(d) \cup {ReceiptOf(c, i, n)}
  BY <1>1 DEF Matching
<1>4. HoldsKey(d) => Matching(d) = {}
  BY DEF Inv, SessionsInv, SessionInv, KeyInv
<1>5. HoldsKey(d) => Matching(d)' \cap {ReceiptOf(c, i, n)} = {}
  BY KeysDiffer
<1> QED BY <1>2, <1>3, <1>4, <1>5

LEMMA CreationKeeps ==
  ASSUME Inv, NEW c \in Call, NEW d \in Call, c # d, pc[c] = "commit", IsCreate(c),
         Apply(c), UNCHANGED request
  PROVE  TablesKept(d)
<1>1. SessionInv(c) /\ SessionInv(d) /\ HoldsKey(c)
  BY DEF Inv, SessionsInv, HoldsKey
<1>2. /\ SlugLock(c) \in locks[c]
      /\ tx[c] = Staged({NewOrg(c)}, {}, {NewOwner(c)}, {ReceiptOf(c, c, 1)},
                        Done(TRUE, c, 1))
  BY <1>1 DEF SessionInv, CreateInv
<1>3. /\ orgs' = orgs \cup {NewOrg(c)} /\ members' = members \cup {NewOwner(c)}
      /\ receipts' = receipts \cup {ReceiptOf(c, c, 1)}
  BY <1>2 DEF Apply, Staged
<1>4. /\ Matching(d) \subseteq Matching(d)'
      /\ HoldsKey(d) => Matching(d)' = {}
  BY <1>1, <1>3, ReceiptsKept
<1>5. ASSUME pc[d] = "commit", IsCreate(d)
      PROVE  ~SlugTaken(request[d].intent.slug)'
  <2>1. SlugLock(d) \in locks[d] /\ ~SlugTaken(request[d].intent.slug)
    BY <1>1, <1>5 DEF SessionInv, CreateInv
  <2>2. SlugLock(c) # SlugLock(d)
    BY <1>2, <2>1 DEF Inv, LocksExclusive
  <2>3. request[c].intent.slug # request[d].intent.slug
    BY <2>2 DEF SlugLock
  <2> QED BY <1>3, <2>1, <2>3 DEF SlugTaken, NewOrg
<1>6. ASSUME HoldsOrg(d)
      PROVE  ActiveOrg(TargetOrg(d))' /\ Found(d)' = Found(d)
  <2>1. ActiveOrg(TargetOrg(d))
    BY <1>1, <1>6 DEF SessionInv, OrgInv
  <2>2. TargetOrg(d) # c
    BY <1>1, <2>1 DEF ActiveOrg, Inv, RowInv, IdsSpent, SessionInv, CallInv
  <2>3. NewOwner(c).org = c
    BY DEF NewOwner
  <2>4. Found(d)' = Found(d)
    BY <1>3, <2>2, <2>3 DEF Found, ActiveMembers, TargetOrg
  <2> QED BY <1>3, <2>1, <2>4 DEF ActiveOrg, TargetOrg
<1> QED BY <1>4, <1>5, <1>6 DEF TablesKept

LEMMA MembershipKeeps ==
  ASSUME Inv, NEW c \in Call, NEW d \in Call, c # d, pc[c] = "commit", ~IsCreate(c),
         Apply(c), UNCHANGED request
  PROVE  TablesKept(d)
<1>1. SessionInv(c) /\ SessionInv(d) /\ HoldsKey(c) /\ HoldsOrg(c)
  BY DEF Inv, SessionsInv, HoldsKey, HoldsOrg
<1>2. /\ OrgLock(TargetOrg(c)) \in locks[c]
      /\ tx[c].orgs = {}
      /\ StagedAdd(c) \/ StagedKeep(c) \/ StagedRemove(c)
      /\ tx[c].receipts = {ReceiptOf(c, tx[c].reply.id, tx[c].reply.revision)}
  BY <1>1 DEF SessionInv, OrgInv
<1>3. /\ orgs' = orgs
      /\ receipts' = receipts
                      \cup {ReceiptOf(c, tx[c].reply.id, tx[c].reply.revision)}
  BY <1>2 DEF Apply
<1>4. /\ Matching(d) \subseteq Matching(d)'
      /\ HoldsKey(d) => Matching(d)' = {}
  BY <1>1, <1>3, ReceiptsKept
<1>5. pc[d] = "commit" /\ IsCreate(d) => ~SlugTaken(request[d].intent.slug)'
  BY <1>1, <1>3 DEF SessionInv, CreateInv, SlugTaken
<1>6. ASSUME HoldsOrg(d)
      PROVE  ActiveOrg(TargetOrg(d))' /\ Found(d)' = Found(d)
  <2>1. OrgLock(TargetOrg(d)) \in locks[d] /\ ActiveOrg(TargetOrg(d))
    BY <1>1, <1>6 DEF SessionInv, OrgInv
  <2>2. OrgLock(TargetOrg(c)) # OrgLock(TargetOrg(d))
    BY <1>2, <2>1 DEF Inv, LocksExclusive
  <2>3. TargetOrg(c) # TargetOrg(d)
    BY <2>2
  <2>4. \A m \in tx[c].gone \cup tx[c].members : m.org = TargetOrg(c)
    <3>1. NewMember(c).org = TargetOrg(c)
      BY DEF NewMember, TargetOrg
    <3>2. \A m \in Found(c) : m.org = TargetOrg(c) /\ RemovedMember(m).org = TargetOrg(c)
      BY DEF Found, ActiveMembers, RemovedMember, TargetOrg
    <3> QED BY <1>2, <3>1, <3>2 DEF StagedAdd, StagedKeep, StagedRemove
  <2>5. Found(d)' = Found(d)
    BY <2>3, <2>4 DEF Apply, Found, ActiveMembers, TargetOrg
  <2> QED BY <1>3, <2>1, <2>5 DEF ActiveOrg, TargetOrg
<1> QED BY <1>4, <1>5, <1>6 DEF TablesKept

LEMMA ArchiveKeeps ==
  ASSUME Inv, NEW o \in Call, Archive(o), NEW d \in Call
  PROVE  TablesKept(d)
<1>1. SessionInv(d)
  BY DEF Inv, SessionsInv
<1>2. PICK g \in orgs : /\ g.id = o /\ g.active
                        /\ orgs' = (orgs \ {g}) \cup {ArchivedOrg(g)}
  BY DEF Archive
<1>3. UNCHANGED <<members, receipts, request>> /\ OrgLock(o) \notin locks[d]
  BY DEF Archive
<1>4. Matching(d)' = Matching(d) /\ Found(d)' = Found(d) /\ TargetOrg(d)' = TargetOrg(d)
  BY <1>3 DEF Matching, Family, IsCreate, Op, Found, ActiveMembers, TargetOrg
<1>5. ~SlugTaken(request[d].intent.slug) => ~SlugTaken(request[d].intent.slug)'
  BY <1>2, <1>3 DEF SlugTaken, ArchivedOrg
<1>6. ASSUME HoldsOrg(d)
      PROVE  ActiveOrg(TargetOrg(d))'
  <2>1. OrgLock(TargetOrg(d)) \in locks[d] /\ ActiveOrg(TargetOrg(d))
    BY <1>1, <1>6 DEF SessionInv, OrgInv
  <2>2. TargetOrg(d) # o
    BY <1>3, <2>1
  <2> QED BY <1>2, <1>4, <2>1, <2>2 DEF ActiveOrg
<1> QED BY <1>1, <1>4, <1>5, <1>6
        DEF TablesKept, SessionInv, KeyInv, CreateInv

-----------------------------------------------------------------------------
(* What a call knows after its own step.                                     *)

\* A call that has been answered, or has not begun, knows nothing.
LEMMA NothingKnown ==
  ASSUME NEW c \in Call,
         pc'[c] \in {"idle", "begin", "reserve", "rollback", "done"},
         CallInv(c)'
  PROVE  SessionInv(c)'
BY DEF SessionInv, KeyInv, ReplayInv, CreateInv, OrgInv, HoldsKey, HoldsOrg

LEMMA AnsweredStep ==
  ASSUME TypeOK, NEW c \in Call, NEW r \in Result \ {Pending}, Answer(c, r),
         pc' = [pc EXCEPT ![c] = "rollback"] \/ pc' = [pc EXCEPT ![c] = "done"]
  PROVE  SessionInv(c)'
<1>1. pc'[c] \in {"rollback", "done"} /\ result'[c] = r
  BY DEF TypeOK, TablesTypeOK, Answer
<1>2. CallInv(c)'
  BY <1>1 DEF CallInv, Waiting
<1> QED BY <1>1, <1>2, NothingKnown

LEMMA GiveUpStep ==
  ASSUME TypeOK, NEW c \in Call, NEW r \in Result \ {Pending}, GiveUp(c, r)
  PROVE  SessionInv(c)'
BY AnsweredStep DEF GiveUp, Goto

LEMMA EarlySteps ==
  ASSUME Inv, NEW c \in Call,
         \/ Forbidden(c) \/ Malformed(c) \/ Admit(c) \/ Begin(c)
         \/ Reserve(c) \/ FindReceipt(c) \/ ReadReplay(c) \/ RejectReplay(c)
         \/ InsertOrganization(c) \/ SlugConflict(c)
  PROVE  SessionInv(c)'
<1>0. /\ TypeOK /\ SessionInv(c)
      /\ pc \in [Call -> Label] /\ tx \in [Call -> Writes]
      /\ locks \in [Call -> SUBSET Lock]
  BY DEF Inv, SessionsInv, TypeOK
<1>1. CASE Forbidden(c) \/ Malformed(c)
  BY <1>0, <1>1, AnsweredStep, ReplyTypes DEF Forbidden, Malformed, Goto, Refusals
<1>2. CASE Admit(c)
  BY <1>0, <1>2, SameRequest, NothingKnown
     DEF Admit, Silent, Goto, SessionInv, CallInv, Waiting
<1>3. CASE Begin(c)
  BY <1>0, <1>3, SameRequest, NothingKnown
     DEF Begin, Silent, Goto, SessionInv, CallInv, Waiting
<1>4. CASE Reserve(c)
  <2>1. /\ pc'[c] = IF IsCreate(c) THEN "insert" ELSE "lock"
        /\ Waiting(c)' /\ Admitted(c)'
    BY <1>0, <1>4, SameRequest DEF Reserve, Goto, Silent, SessionInv, CallInv, Waiting
  <2>2. CallInv(c)'
    BY <1>4, <2>1, SameRequest DEF Reserve, Silent, CallInv
  <2>3. ReceiptLock(c) \in locks'[c] /\ Matching(c)' = {} /\ ReceiptLock(c)' = ReceiptLock(c)
    BY <1>0, <1>4, SameRequest, SameTables DEF Reserve, Take, Silent
  <2>4. IsCreate(c) => tx'[c].receipts = {ReceiptOf(c, c, 1)'}
    BY <1>0, <1>4, SameRequest DEF Reserve, Staged, Reservation, Silent
  <2>5. KeyInv(c)'
    BY <2>1, <2>3, <2>4 DEF KeyInv
  <2> QED BY <2>1, <2>2, <2>5
          DEF SessionInv, ReplayInv, CreateInv, OrgInv, HoldsOrg
<1>5. CASE FindReceipt(c)
  <2>1. pc'[c] = "replay" /\ Waiting(c)' /\ Admitted(c)' /\ Matching(c)' # {}
    BY <1>0, <1>5, SameRequest, SameTables
       DEF FindReceipt, Goto, Silent, SessionInv, CallInv, Waiting
  <2> QED BY <2>1 DEF SessionInv, CallInv, KeyInv, ReplayInv, CreateInv, OrgInv,
                      HoldsKey, HoldsOrg
<1>6. CASE ReadReplay(c)
  <2>1. pc'[c] = "commit_replay" /\ Waiting(c)' /\ Admitted(c)'
    BY <1>0, <1>6, SameRequest
       DEF ReadReplay, Goto, Silent, SessionInv, CallInv, Waiting
  <2>2. PICK r \in Matching(c) :
          /\ r.intent = Intent(c)
          /\ tx' = [tx EXCEPT ![c] =
                      Staged({}, {}, {}, {}, Done(FALSE, r.id, r.revision))]
    BY <1>6 DEF ReadReplay
  <2>3. tx'[c].reply = Done(FALSE, r.id, r.revision)
    BY <1>0, <2>2 DEF Staged
  <2>4. Matching(c)' = Matching(c) /\ Intent(c)' = Intent(c)
    BY <1>6, SameRequest, SameTables DEF ReadReplay, Silent
  <2>5. ReplayInv(c)'
    BY <2>1, <2>2, <2>3, <2>4 DEF ReplayInv, Done
  <2> QED BY <2>1, <2>5 DEF SessionInv, CallInv, KeyInv, CreateInv, OrgInv,
                            HoldsKey, HoldsOrg
<1>7. CASE RejectReplay(c)
  <2>1. Refused("idempotency_conflict") \in Result \ {Pending}
        /\ Failed \in Result \ {Pending}
    BY ReplyTypes DEF Refusals
  <2> QED BY <1>0, <1>7, <2>1, GiveUpStep DEF RejectReplay
<1>8. CASE InsertOrganization(c)
  <2>1. /\ pc'[c] = "commit" /\ Waiting(c)' /\ Admitted(c)' /\ IsCreate(c)
        /\ IsCreate(c)'
    BY <1>0, <1>8, SameRequest
       DEF InsertOrganization, Goto, Silent, SessionInv, CallInv, Waiting
  <2>2. /\ ReceiptLock(c) \in locks[c] /\ Matching(c) = {}
        /\ tx[c].receipts = {ReceiptOf(c, c, 1)}
    BY <1>0, <1>8 DEF InsertOrganization, SessionInv, KeyInv, HoldsKey
  <2>3. locks'[c] = locks[c] \cup {SlugLock(c)}
    BY <1>0, <1>8 DEF InsertOrganization, Take
  <2>4. KeyInv(c)'
    BY <1>8, <2>1, <2>2, <2>3, SameRequest, SameTables
       DEF InsertOrganization, Silent, KeyInv
  <2>5. tx'[c] = Staged({NewOrg(c)}, {}, {NewOwner(c)}, {ReceiptOf(c, c, 1)},
                        Done(TRUE, c, 1))
    BY <1>0, <1>8, <2>2 DEF InsertOrganization
  <2>6. SlugLock(c)' \in locks'[c] /\ ~SlugTaken(request[c].intent.slug)'
    BY <1>8, <2>3, SameRequest, SameTables DEF InsertOrganization, Silent
  <2>7. CreateInv(c)'
    BY <1>8, <2>5, <2>6, SameRequest
       DEF InsertOrganization, Silent, CreateInv, Staged, Done
  <2> QED BY <2>1, <2>4, <2>7 DEF SessionInv, CallInv, ReplayInv, OrgInv, HoldsOrg
<1>9. CASE SlugConflict(c)
  BY <1>0, <1>9, GiveUpStep, ReplyTypes DEF SlugConflict, Refusals
<1> QED BY <1>1, <1>2, <1>3, <1>4, <1>5, <1>6, <1>7, <1>8, <1>9

\* A statement of a membership command that keeps its locks and does not
\* give up.
LEMMA InHandStep ==
  ASSUME Inv, NEW c \in Call, NEW label \in {"read", "write", "complete", "commit"},
         pc[c] \in {"lock", "read", "write", "complete"}, Goto(c, label), Silent,
         locks[c] \subseteq locks'[c]
  PROVE  /\ CallInv(c)' /\ KeyInv(c)' /\ ReplayInv(c)' /\ CreateInv(c)'
         /\ pc'[c] = label /\ ~IsCreate(c)' /\ HoldsOrg(c)'
<1>1. SessionInv(c) /\ pc \in [Call -> Label]
  BY DEF Inv, SessionsInv, TypeOK
<1>2. pc'[c] = label /\ ~IsCreate(c) /\ ~IsCreate(c)'
  BY <1>1, SameRequest DEF Goto, Silent, SessionInv, CallInv
<1>3. CallInv(c)'
  BY <1>1, <1>2, SameRequest DEF Silent, SessionInv, CallInv, Waiting
<1>4. KeyInv(c)'
  BY <1>1, <1>2, SameRequest, SameTables DEF Silent, SessionInv, KeyInv, HoldsKey
<1> QED BY <1>2, <1>3, <1>4 DEF ReplayInv, CreateInv, HoldsOrg

\* What the Organization lock protects, carried over a silent step.
LEMMA SilentKeepsOrg ==
  ASSUME Silent, NEW c \in Call
  PROVE  /\ Found(c)' = Found(c) /\ Op(c)' = Op(c)
         /\ TargetOrg(c)' = TargetOrg(c)
         /\ ActiveOrg(TargetOrg(c))' = ActiveOrg(TargetOrg(c))
BY SameRequest, SameTables DEF Silent

\* Staged rows stay staged over a silent step that leaves the transaction alone.
LEMMA StagedHolds ==
  ASSUME Silent, NEW c \in Call,
         tx'[c].gone = tx[c].gone, tx'[c].members = tx[c].members,
         tx'[c].reply = tx[c].reply
  PROVE  /\ StagedAdd(c) => StagedAdd(c)'
         /\ StagedKeep(c) => StagedKeep(c)'
         /\ StagedRemove(c) => StagedRemove(c)'
<1>1. NewMember(c)' = NewMember(c)
  BY SameRequest DEF Silent
<1> QED BY <1>1, SilentKeepsOrg DEF StagedAdd, StagedKeep, StagedRemove, Done, RemovedMember

LEMMA MembershipSteps ==
  ASSUME Inv, NEW c \in Call,
         \/ LockOrganization(c) \/ MissOrganization(c)
         \/ ReadMember(c) \/ MissMember(c) \/ ProtectOwner(c)
         \/ InsertMember(c) \/ KeepMember(c) \/ UpdateMember(c) \/ Complete(c)
  PROVE  SessionInv(c)'
<1>0. /\ TypeOK /\ SessionInv(c) /\ RowInv
      /\ pc \in [Call -> Label] /\ tx \in [Call -> Writes]
      /\ locks \in [Call -> SUBSET Lock] /\ found \in [Call -> SUBSET Member]
  BY DEF Inv, SessionsInv, TypeOK
<1>1. CASE LockOrganization(c)
  <2>1. locks'[c] = locks[c] \cup {OrgLock(TargetOrg(c))}
    BY <1>0, <1>1 DEF LockOrganization, Take, TargetOrg
  <2>2. CallInv(c)' /\ KeyInv(c)' /\ ReplayInv(c)' /\ CreateInv(c)' /\ pc'[c] = "read"
    BY <1>1, <2>1, InHandStep DEF LockOrganization
  <2>3. OrgInv(c)'
    BY <1>1, <2>1, <2>2, SilentKeepsOrg DEF LockOrganization, OrgInv, TargetOrg, OrgLock
  <2> QED BY <2>2, <2>3 DEF SessionInv
<1>2. CASE MissOrganization(c) \/ MissMember(c) \/ ProtectOwner(c)
  BY <1>0, <1>2, GiveUpStep, ReplyTypes
     DEF MissOrganization, MissMember, ProtectOwner, Refusals
<1>3. CASE ReadMember(c)
  <2>1. locks[c] \subseteq locks'[c] /\ found'[c] = Found(c)
    BY <1>0, <1>3 DEF ReadMember, Take
  <2>2. /\ CallInv(c)' /\ KeyInv(c)' /\ ReplayInv(c)' /\ CreateInv(c)'
        /\ pc'[c] = "write"
    BY <1>3, <2>1, InHandStep DEF ReadMember
  <2>3. ~IsCreate(c)
    BY <1>0, <1>3 DEF ReadMember, SessionInv, CallInv
  <2>4. OrgLock(TargetOrg(c)) \in locks[c] /\ ActiveOrg(TargetOrg(c))
    BY <1>0, <1>3, <2>3 DEF ReadMember, SessionInv, OrgInv, HoldsOrg
  <2>5. OrgInv(c)'
    BY <1>3, <2>1, <2>2, <2>4, SilentKeepsOrg DEF ReadMember, OrgInv, OrgLock
  <2> QED BY <2>2, <2>5 DEF SessionInv
<1>4. ASSUME pc[c] = "write", Goto(c, "complete"), Silent, UNCHANGED found,
             locks[c] \subseteq locks'[c],
             tx'[c].orgs = {},
             StagedAdd(c)' \/ StagedKeep(c)' \/ StagedRemove(c)'
      PROVE  SessionInv(c)'
  <2>1. /\ CallInv(c)' /\ KeyInv(c)' /\ ReplayInv(c)' /\ CreateInv(c)'
        /\ pc'[c] = "complete"
    BY <1>4, InHandStep
  <2>2. /\ OrgLock(TargetOrg(c)) \in locks[c] /\ ActiveOrg(TargetOrg(c))
        /\ found[c] = Found(c)
        /\ Op(c) = "remove_member" => \E m \in Found(c) : ~m.owner
    BY <1>0, <1>4 DEF SessionInv, CallInv, OrgInv, HoldsOrg
  <2>3. OrgInv(c)'
    BY <1>4, <2>1, <2>2, SilentKeepsOrg DEF OrgInv, OrgLock
  <2> QED BY <2>1, <2>3 DEF SessionInv
<1>5. pc[c] = "write" =>
        /\ found[c] = Found(c)
        /\ Op(c) = "remove_member" => \E m \in Found(c) : ~m.owner
  BY <1>0 DEF SessionInv, CallInv, OrgInv, HoldsOrg
<1>6. CASE InsertMember(c)
  <2>1. Found(c) = {} /\ Op(c) = "add_member"
    BY <1>5, <1>6 DEF InsertMember
  <2>2. /\ Stage(c, {}, {NewMember(c)}, Done(TRUE, c, 1))
        /\ Goto(c, "complete") /\ Silent /\ UNCHANGED found
    BY <1>6, <2>1 DEF InsertMember
  <2>3. tx'[c] = Staged({}, {}, {NewMember(c)}, tx[c].receipts, Done(TRUE, c, 1))
    BY <1>0, <2>2 DEF Stage
  <2>4. /\ tx'[c].orgs = {} /\ tx'[c].gone = {} /\ tx'[c].members = {NewMember(c)}
        /\ tx'[c].reply = Done(TRUE, c, 1)
    BY <2>3 DEF Staged
  <2>5. NewMember(c)' = NewMember(c)
    BY <2>2, SameRequest DEF Silent
  <2>6. StagedAdd(c)'
    BY <2>1, <2>2, <2>4, <2>5, SilentKeepsOrg DEF StagedAdd, Done
  <2>7. locks[c] \subseteq locks'[c]
    BY <1>0, <1>6 DEF InsertMember, Take
  <2> QED BY <1>4, <1>6, <2>2, <2>4, <2>6, <2>7 DEF InsertMember
<1>7. CASE KeepMember(c)
  <2>1. PICK m \in found[c] : Stage(c, {}, {}, Done(FALSE, m.id, m.revision))
    BY <1>7 DEF KeepMember
  <2>2. tx'[c] = Staged({}, {}, {}, tx[c].receipts, Done(FALSE, m.id, m.revision))
    BY <1>0, <2>1 DEF Stage
  <2>3. /\ tx'[c].orgs = {} /\ tx'[c].gone = {} /\ tx'[c].members = {}
        /\ tx'[c].reply = Done(FALSE, m.id, m.revision)
    BY <2>2 DEF Staged
  <2>4. m \in Found(c)
    BY <1>5, <1>7, <2>1 DEF KeepMember
  <2>5. StagedKeep(c)'
    BY <1>7, <2>3, <2>4, SilentKeepsOrg DEF KeepMember, StagedKeep, Done
  <2> QED BY <1>4, <1>7, <2>3, <2>5 DEF KeepMember
<1>8. CASE UpdateMember(c)
  <2> DEFINE Rows(m) == {n \in members : n.id = m.id /\ n.org = m.org /\ n.active}
             News(m) == {[id |-> n.id, org |-> n.org, subject |-> n.subject,
                          owner |-> n.owner, active |-> FALSE,
                          revision |-> m.revision + 1] : n \in Rows(m)}
  <2>1. PICK m \in found[c] :
          Stage(c, Rows(m), News(m), Done(TRUE, m.id, m.revision + 1))
    BY <1>8 DEF UpdateMember
  <2>2. m \in Found(c) /\ Op(c) = "remove_member"
    BY <1>5, <1>8, <2>1 DEF UpdateMember
  <2>3. \A n \in Found(c) : n = m
    BY <1>0, <2>2 DEF RowInv, OneActiveMembership, Found, ActiveMembers
  <2>4. ~m.owner
    BY <1>5, <1>8, <2>2, <2>3 DEF UpdateMember
  <2>5. m \in members /\ m.active
    BY <2>2 DEF Found, ActiveMembers
  <2>6. Rows(m) = {m}
    BY <1>0, <2>5 DEF RowInv, IdsDistinct
  <2>7. News(m) = {RemovedMember(m)}
    BY <2>6 DEF RemovedMember
  <2>8. tx'[c] = Staged({}, {m}, {RemovedMember(m)}, tx[c].receipts,
                        Done(TRUE, m.id, m.revision + 1))
    <3> HIDE DEF Rows, News
    <3> QED BY <1>0, <2>1, <2>6, <2>7 DEF Stage
  <2>9. /\ tx'[c].orgs = {} /\ tx'[c].gone = {m}
        /\ tx'[c].members = {RemovedMember(m)}
        /\ tx'[c].reply = Done(TRUE, m.id, m.revision + 1)
    BY <2>8 DEF Staged
  <2>10. Silent /\ pc[c] = "write" /\ Goto(c, "complete") /\ UNCHANGED <<locks, found>>
    BY <1>8 DEF UpdateMember
  <2>11. StagedRemove(c)'
    <3> HIDE DEF Rows, News
    <3> QED BY <2>2, <2>4, <2>9, <2>10, SilentKeepsOrg
            DEF StagedRemove, Done, RemovedMember
  <2> QED
    <3> HIDE DEF Rows, News
    <3> QED BY <1>4, <2>9, <2>10, <2>11
<1>9. CASE Complete(c)
  <2>1. pc[c] = "complete" /\ Goto(c, "commit") /\ Silent /\ UNCHANGED <<locks, found>>
    BY <1>9 DEF Complete
  <2>2. /\ CallInv(c)' /\ KeyInv(c)' /\ ReplayInv(c)' /\ CreateInv(c)'
        /\ pc'[c] = "commit" /\ ~IsCreate(c)'
    BY <2>1, InHandStep
  <2>3. /\ OrgLock(TargetOrg(c)) \in locks[c] /\ ActiveOrg(TargetOrg(c))
        /\ found[c] = Found(c)
        /\ Op(c) = "remove_member" => \E m \in Found(c) : ~m.owner
        /\ StagedAdd(c) \/ StagedKeep(c) \/ StagedRemove(c)
    BY <1>0, <2>1 DEF SessionInv, CallInv, OrgInv, HoldsOrg
  <2>4. tx'[c] = Staged({}, tx[c].gone, tx[c].members,
                        {ReceiptOf(c, tx[c].reply.id, tx[c].reply.revision)},
                        tx[c].reply)
    BY <1>0, <1>9 DEF Complete
  <2>5. /\ tx'[c].orgs = {} /\ tx'[c].gone = tx[c].gone
        /\ tx'[c].members = tx[c].members /\ tx'[c].reply = tx[c].reply
        /\ tx'[c].receipts = {ReceiptOf(c, tx'[c].reply.id, tx'[c].reply.revision)}
    BY <2>4 DEF Staged
  <2>6. StagedAdd(c)' \/ StagedKeep(c)' \/ StagedRemove(c)'
    BY <2>1, <2>3, <2>5, StagedHolds
  <2>7. tx'[c].receipts = {ReceiptOf(c, tx[c].reply.id, tx[c].reply.revision)'}
    BY <2>1, <2>5, SameRequest DEF Silent, ReceiptOf, Family, IsCreate, Op, Intent
  <2>8. OrgInv(c)'
    BY <2>1, <2>2, <2>3, <2>5, <2>6, <2>7, SilentKeepsOrg DEF OrgInv, OrgLock
  <2> QED BY <2>2, <2>8 DEF SessionInv
<1> QED BY <1>1, <1>2, <1>3, <1>6, <1>7, <1>8, <1>9

\* The answer at commit is a confirmation.
LEMMA ReplyReady ==
  ASSUME Inv, NEW c \in Call, pc[c] \in {"commit", "commit_replay"}
  PROVE  tx[c].reply \in Result \ {Pending}
<1>1. SessionInv(c) /\ TablesTypeOK
  BY DEF Inv, SessionsInv, TypeOK
<1>2. CASE pc[c] = "commit_replay"
  <2>1. PICK r \in Matching(c) : tx[c].reply = Done(FALSE, r.id, r.revision)
    BY <1>1, <1>2 DEF SessionInv, ReplayInv
  <2>2. r.id \in Call /\ r.revision \in Nat
    BY <1>1 DEF Matching, TablesTypeOK, Receipt
  <2> QED BY <2>1, <2>2, ReplyTypes
<1>3. CASE pc[c] = "commit" /\ IsCreate(c)
  <2>1. tx[c] = Staged({NewOrg(c)}, {}, {NewOwner(c)}, {ReceiptOf(c, c, 1)},
                       Done(TRUE, c, 1))
    BY <1>1, <1>3 DEF SessionInv, CreateInv
  <2>2. tx[c].reply = Done(TRUE, c, 1)
    BY <2>1 DEF Staged
  <2> QED BY <2>2, ReplyTypes
<1>4. CASE pc[c] = "commit" /\ ~IsCreate(c)
  <2>1. StagedAdd(c) \/ StagedKeep(c) \/ StagedRemove(c)
    BY <1>1, <1>4 DEF SessionInv, OrgInv, HoldsOrg
  <2>2. \A m \in Found(c) : m.id \in Call /\ m.revision \in Nat /\ m.revision + 1 \in Nat
    BY <1>1 DEF Found, ActiveMembers, TablesTypeOK, Member
  <2> QED BY <2>1, <2>2, ReplyTypes DEF StagedAdd, StagedKeep, StagedRemove
<1> QED BY <1>2, <1>3, <1>4

LEMMA FinalSteps ==
  ASSUME Inv, NEW c \in Call,
         \/ Commit(c) \/ CommitUnacknowledged(c) \/ CommitReplay(c)
         \/ FailToBegin(c) \/ Fail(c) \/ Rollback(c)
  PROVE  SessionInv(c)'
<1>0. TypeOK /\ SessionInv(c) /\ pc \in [Call -> Label]
  BY DEF Inv, SessionsInv, TypeOK
<1>1. Failed \in Result \ {Pending}
  BY ReplyTypes
<1>2. CASE Commit(c) \/ CommitReplay(c)
  <2>1. tx[c].reply \in Result \ {Pending}
    BY <1>2, ReplyReady DEF Commit, CommitReplay
  <2> QED BY <1>0, <1>2, <2>1, AnsweredStep DEF Commit, CommitReplay, Release
<1>3. CASE CommitUnacknowledged(c)
  BY <1>0, <1>1, <1>3, AnsweredStep DEF CommitUnacknowledged, Release
<1>4. CASE FailToBegin(c) \/ Fail(c)
  BY <1>0, <1>1, <1>4, AnsweredStep, GiveUpStep DEF FailToBegin, Fail, Goto
<1>5. CASE Rollback(c)
  <2>1. pc'[c] = "done" /\ ~Waiting(c)'
    BY <1>0, <1>5 DEF Rollback, Release, SessionInv, CallInv, Waiting
  <2>2. CallInv(c)'
    BY <2>1 DEF CallInv
  <2> QED BY <2>1, <2>2, NothingKnown
<1> QED BY <1>2, <1>3, <1>4, <1>5

-----------------------------------------------------------------------------
(* What the other calls still know after it.                                 *)

LEMMA LocalStep ==
  ASSUME Inv, NEW c \in Call, NEW d \in Call, c # d,
         Step(c) \/ CommitUnacknowledged(c) \/ FailToBegin(c) \/ Fail(c)
  PROVE  LocalKept(d)
<1>0. /\ pc \in [Call -> Label] /\ tx \in [Call -> Writes]
      /\ locks \in [Call -> SUBSET Lock] /\ found \in [Call -> SUBSET Member]
      /\ result \in [Call -> Result]
  BY DEF Inv, TypeOK, TablesTypeOK
<1> USE <1>0 DEF LocalKept
<1>1. ASSUME NEW r, GiveUp(c, r), UNCHANGED locks \/ \E ls : Take(c, ls)
      PROVE  LocalKept(d)
  BY <1>1 DEF GiveUp, Answer, Goto, Take
<1>2. CASE Forbidden(c) \/ Malformed(c) \/ Admit(c) \/ Begin(c) \/ FindReceipt(c)
           \/ FailToBegin(c)
  BY <1>2 DEF Forbidden, Malformed, Admit, Begin, FindReceipt, FailToBegin,
              Answer, Goto, Silent
<1>3. CASE Reserve(c) \/ ReadReplay(c) \/ InsertOrganization(c)
  BY <1>3 DEF Reserve, ReadReplay, InsertOrganization, Goto, Silent, Take
<1>4. CASE RejectReplay(c) \/ SlugConflict(c) \/ MissOrganization(c)
           \/ MissMember(c) \/ ProtectOwner(c) \/ Fail(c)
  BY <1>1, <1>4 DEF RejectReplay, SlugConflict, MissOrganization, MissMember,
                    ProtectOwner, Fail
<1>5. CASE LockOrganization(c) \/ ReadMember(c)
  BY <1>5 DEF LockOrganization, ReadMember, Goto, Silent, Take
<1>6. CASE InsertMember(c)
  <2>1. CASE Found(c) = {}
    BY <1>6, <2>1 DEF InsertMember, Stage, Goto, Silent, Take
  <2>2. CASE Found(c) # {}
    BY <1>1, <1>6, <2>2 DEF InsertMember
  <2> QED BY <2>1, <2>2
<1>7. CASE KeepMember(c)
  BY <1>7 DEF KeepMember, Stage, Goto, Silent
<1>8. CASE UpdateMember(c)
  BY <1>8 DEF UpdateMember, Stage, Goto, Silent
<1>9. CASE Complete(c)
  BY <1>9 DEF Complete, Goto, Silent
<1>10. CASE Commit(c) \/ CommitUnacknowledged(c) \/ CommitReplay(c) \/ Rollback(c)
  BY <1>10 DEF Commit, CommitUnacknowledged, CommitReplay, Rollback, Release, Answer
<1> QED BY <1>2, <1>3, <1>4, <1>5, <1>6, <1>7, <1>8, <1>9, <1>10 DEF Step

LEMMA OtherStep ==
  ASSUME Inv, NEW c \in Call, NEW d \in Call, c # d,
         Step(c) \/ CommitUnacknowledged(c) \/ FailToBegin(c) \/ Fail(c)
  PROVE  TablesKept(d)
<1>1. CASE Commit(c) \/ CommitUnacknowledged(c)
  <2>1. pc[c] = "commit" /\ Apply(c) /\ UNCHANGED request
    BY <1>1 DEF Commit, CommitUnacknowledged, Release
  <2> QED BY <2>1, CreationKeeps, MembershipKeeps
<1>2. CASE ~(Commit(c) \/ CommitUnacknowledged(c))
  <2>1. UNCHANGED <<orgs, members, receipts, request>>
    BY <1>2
       DEF Step, Forbidden, Malformed, Admit, Begin, Reserve, FindReceipt,
           ReadReplay, RejectReplay, InsertOrganization, SlugConflict,
           LockOrganization, MissOrganization, ReadMember, MissMember,
           ProtectOwner, InsertMember, KeepMember, UpdateMember, Complete,
           CommitReplay, Rollback, Release, FailToBegin, Fail, GiveUp, Silent
  <2> QED BY <2>1, QuietKeeps
<1> QED BY <1>1, <1>2

LEMMA SessionsStep ==
  ASSUME Inv, [Next]_vars
  PROVE  SessionsInv'
<1>0. SUFFICES ASSUME NEW d \in Call
               PROVE  SessionInv(d)'
  BY DEF SessionsInv
<1>1. SessionInv(d)
  BY DEF Inv, SessionsInv
<1>2. ASSUME LocalKept(d), TablesKept(d)
      PROVE  SessionInv(d)'
  BY <1>1, <1>2, Frame
<1>3. CASE UNCHANGED vars
  <2>1. LocalKept(d) /\ TablesKept(d)
    BY <1>3, QuietKeeps DEF vars, LocalKept
  <2> QED BY <1>2, <2>1
<1>4. CASE Tick
  <2>1. LocalKept(d) /\ TablesKept(d)
    BY <1>4, QuietKeeps DEF Tick, session, LocalKept
  <2> QED BY <1>2, <2>1
<1>5. ASSUME NEW o \in Call, Archive(o)
      PROVE  SessionInv(d)'
  <2>1. LocalKept(d) /\ TablesKept(d)
    BY <1>5, ArchiveKeeps DEF Archive, session, LocalKept
  <2> QED BY <1>2, <2>1
<1>6. ASSUME NEW c \in Call,
             Step(c) \/ CommitUnacknowledged(c) \/ FailToBegin(c) \/ Fail(c)
      PROVE  SessionInv(d)'
  <2>1. CASE c = d
    BY <1>6, <2>1, EarlySteps, MembershipSteps, FinalSteps DEF Step
  <2>2. CASE c # d
    BY <1>2, <1>6, <2>2, LocalStep, OtherStep
  <2> QED BY <2>1, <2>2
<1> QED BY <1>3, <1>4, <1>5, <1>6 DEF Next

-----------------------------------------------------------------------------
(* The theorems.                                                             *)

LEMMA InvStart == ASSUME Init PROVE Inv
<1>1. TablesTypeOK /\ RowInv
  BY TypeStart, RowStart DEF Init
<1>2. TypeOK
  BY <1>1, WritesType, TimeAssumption DEF Init, TypeOK, Label
<1>3. LocksExclusive
  BY DEF Init, LocksExclusive
<1>4. SessionsInv
  BY DEF Init, TablesInit, SessionsInv, SessionInv, CallInv, KeyInv, ReplayInv,
         CreateInv, OrgInv, HoldsKey, HoldsOrg, Waiting
<1> QED BY <1>1, <1>2, <1>3, <1>4 DEF Inv

LEMMA InvStep == ASSUME Inv, [Next]_vars PROVE Inv'
<1>1. [ServiceNext]_serviceVars
  BY StepRefines
<1>2. RowInv'
  BY <1>1, RowStep DEF Inv
<1>3. TypeOK'
  BY <1>2, SessionTypes DEF RowInv
<1> QED BY <1>2, <1>3, LocksStep, SessionsStep DEF Inv

\* The inductive invariant: types, sound tables, exclusive locks, and what each
\* transaction has read and staged still being so.
THEOREM InvCorrect == Spec => []Inv
BY InvStart, InvStep, PTL DEF Spec

\* Type correctness.
THEOREM TypeCorrect == Spec => []TypeOK
<1>1. Inv => TypeOK
  BY DEF Inv
<1> QED BY <1>1, InvCorrect, PTL

\* The statement-by-statement transactions implement the indivisible commands
\* of the service, whatever the number of calls, keys and connections.
THEOREM Refinement == Spec => ImplementsService
<1>1. Init => TablesInit
  BY DEF Init
<1>2. Inv /\ [Next]_vars => [ServiceNext]_serviceVars
  BY StepRefines
<1> QED BY <1>1, <1>2, InvCorrect, PTL DEF Spec, ImplementsService, ServiceSpec

-----------------------------------------------------------------------------
(* What an insertion meets at the index of active subjects.                  *)

\* An entry of that index is only locked under the lock of its Organization.
SubjectsUnderOrg ==
  \A d \in Call : \A l \in locks[d] :
    l.on = "organization_memberships_active_subject_key" => OrgLock(l.org) \in locks[d]

LEMMA TakeUnderOrg ==
  ASSUME SubjectsUnderOrg, locks \in [Call -> SUBSET Lock],
         NEW c \in Call, NEW ls, Take(c, ls),
         \A l \in ls : l.on = "organization_memberships_active_subject_key" =>
                         OrgLock(l.org) \in locks[c]
  PROVE  SubjectsUnderOrg'
<1>1. \A d \in Call : locks'[d] = IF d = c THEN locks[c] \cup ls ELSE locks[d]
  BY DEF Take
<1> QED BY <1>1 DEF SubjectsUnderOrg, OrgLock

LEMMA UnderOrgStep ==
  ASSUME Inv, SubjectsUnderOrg, [Next]_vars
  PROVE  SubjectsUnderOrg'
<1>0. locks \in [Call -> SUBSET Lock]
  BY DEF Inv, TypeOK
<1>1. CASE UNCHANGED locks
  BY <1>1 DEF SubjectsUnderOrg, OrgLock
<1>2. ASSUME NEW c \in Call, Release(c)
      PROVE  SubjectsUnderOrg'
  BY <1>0, <1>2 DEF Release, SubjectsUnderOrg, OrgLock
<1>3. ASSUME NEW c \in Call, NEW ls, Take(c, ls),
             \A l \in ls : l.on # "organization_memberships_active_subject_key"
      PROVE  SubjectsUnderOrg'
  BY <1>0, <1>3, TakeUnderOrg
<1>4. ASSUME NEW c \in Call,
             Step(c) \/ CommitUnacknowledged(c) \/ FailToBegin(c) \/ Fail(c)
      PROVE  SubjectsUnderOrg'
  <2>1. CASE Forbidden(c) \/ Malformed(c) \/ Admit(c) \/ Begin(c) \/ FindReceipt(c)
             \/ SlugConflict(c) \/ MissMember(c) \/ KeepMember(c)
             \/ UpdateMember(c) \/ Complete(c) \/ FailToBegin(c) \/ Fail(c)
    <3>1. UNCHANGED locks
      BY <2>1 DEF Forbidden, Malformed, Admit, Begin, FindReceipt, SlugConflict,
                  MissMember, KeepMember, UpdateMember, Complete, FailToBegin, Fail
    <3> QED BY <1>1, <3>1
  <2>2. CASE Reserve(c) \/ ReadReplay(c) \/ RejectReplay(c)
    <3>1. ReceiptLock(c).on = "receipt"
      BY DEF ReceiptLock
    <3>2. \E ls \in SUBSET {ReceiptLock(c)} : Take(c, ls)
      BY <2>2 DEF Reserve, ReadReplay, RejectReplay, ReplayLocks
    <3> QED BY <1>3, <3>1, <3>2
  <2>3. CASE InsertOrganization(c)
    <3>1. SlugLock(c).on = "organizations_active_slug_key"
      BY DEF SlugLock
    <3> QED BY <1>3, <2>3, <3>1 DEF InsertOrganization
  <2>4. CASE LockOrganization(c) \/ MissOrganization(c)
    <3>1. \E ls : Take(c, ls) /\ \A l \in ls : l.on = "organization"
      BY <2>4 DEF LockOrganization, MissOrganization, OrgLock
    <3> QED BY <1>3, <3>1
  <2>5. CASE ReadMember(c) \/ ProtectOwner(c)
    <3>1. Take(c, MemberLocks(Found(c)))
      BY <2>5 DEF ReadMember, ProtectOwner
    <3>2. \A l \in MemberLocks(Found(c)) : l.on = "membership"
      BY DEF MemberLocks
    <3> QED BY <1>3, <3>1, <3>2
  <2>6. CASE InsertMember(c)
    <3>1. OrgLock(TargetOrg(c)) \in locks[c]
      BY <2>6 DEF Inv, SessionsInv, SessionInv, CallInv, OrgInv, HoldsOrg, InsertMember
    <3>2. SubjectLock(c).org = TargetOrg(c)
      BY DEF SubjectLock, TargetOrg
    <3>3. Take(c, {SubjectLock(c)})
      BY <2>6 DEF InsertMember
    <3> QED BY <1>0, <3>1, <3>2, <3>3, TakeUnderOrg
  <2>7. CASE Commit(c) \/ CommitUnacknowledged(c) \/ CommitReplay(c) \/ Rollback(c)
    BY <1>2, <2>7 DEF Commit, CommitUnacknowledged, CommitReplay, Rollback
  <2> QED BY <1>4, <2>1, <2>2, <2>3, <2>4, <2>5, <2>6, <2>7 DEF Step
<1>5. CASE \E o \in Call : Archive(o)
  BY <1>1, <1>5 DEF Archive, session
<1> QED BY <1>1, <1>4, <1>5 DEF Next, Tick, session, vars

LEMMA UnderOrgCorrect == Spec => [](Inv /\ SubjectsUnderOrg)
<1>1. Init => SubjectsUnderOrg
  BY DEF Init, SubjectsUnderOrg
<1> QED BY <1>1, UnderOrgStep, InvCorrect, PTL DEF Spec

\* The Organization's lock alone keeps an insertion from meeting another: for
\* add_member the unique index never decides anything.
THEOREM IndexNeverDecides == Spec => []InsertFindsIndexFree
<1>1. ASSUME Inv, SubjectsUnderOrg, NEW c \in Call,
             pc[c] = "write", Op(c) = "add_member", found[c] = {}
      PROVE  Found(c) = {} /\ Free(c, {SubjectLock(c)})
  <2>1. HoldsOrg(c)
    BY <1>1 DEF HoldsOrg, IsCreate
  <2>2. found[c] = Found(c) /\ OrgLock(TargetOrg(c)) \in locks[c]
    BY <1>1, <2>1 DEF Inv, SessionsInv, SessionInv, OrgInv
  <2>3. /\ SubjectLock(c).org = TargetOrg(c)
        /\ SubjectLock(c).on = "organization_memberships_active_subject_key"
    BY DEF SubjectLock, TargetOrg
  <2>4. ASSUME NEW d \in Call \ {c}, SubjectLock(c) \in locks[d]
        PROVE  FALSE
    <3>1. OrgLock(TargetOrg(c)) \in locks[d]
      BY <1>1, <2>3, <2>4 DEF SubjectsUnderOrg
    <3> QED BY <1>1, <2>2, <3>1 DEF Inv, LocksExclusive
  <2> QED BY <1>1, <2>2, <2>4 DEF Free
<1>2. Inv /\ SubjectsUnderOrg => InsertFindsIndexFree
  BY <1>1 DEF InsertFindsIndexFree
<1> QED BY <1>2, UnderOrgCorrect, PTL

\* A removal revises the very row it read, although nobody looks at the
\* UPDATE's row count.
THEOREM RemovalsMeetTheirRows == Spec => []RemovalMeetsItsRow
<1>1. ASSUME Inv, NEW c \in Call, pc[c] = "write", Op(c) = "remove_member"
      PROVE  found[c] # {} /\ found[c] \subseteq members
  <2>1. HoldsOrg(c)
    BY <1>1 DEF HoldsOrg, IsCreate
  <2>2. found[c] = Found(c) /\ Found(c) # {}
    BY <1>1, <2>1 DEF Inv, SessionsInv, SessionInv, OrgInv
  <2> QED BY <2>2 DEF Found, ActiveMembers
<1>2. Inv => RemovalMeetsItsRow
  BY <1>1 DEF RemovalMeetsItsRow
<1> QED BY <1>2, InvCorrect, PTL

\* No membership command commits to an Organization archived under it.
THEOREM CommitsMeetActive == Spec => []CommitsToActiveOrganization
<1>1. Inv => CommitsToActiveOrganization
  BY DEF Inv, SessionsInv, SessionInv, OrgInv, HoldsOrg, TargetOrg,
         CommitsToActiveOrganization
<1> QED BY <1>1, InvCorrect, PTL

-----------------------------------------------------------------------------
(* What the transactions inherit from the service they implement.            *)

\* The Postgres Plugin never has two active Organizations of one slug.
THEOREM SlugsUnique == Spec => []ActiveSlugUnique
BY Refinement, ServiceRowsCorrect, PTL DEF ImplementsService

\* It never has two active memberships of one subject in an Organization.
THEOREM MembershipsUnique == Spec => []OneActiveMembership
BY Refinement, ServiceRowsCorrect, PTL DEF ImplementsService

\* Every Organization has its one owner, active, at every moment.
THEOREM OwnersKept == Spec => []OwnerKept
BY Refinement, ServiceRowsCorrect, PTL DEF ImplementsService

\* A membership is revised once, when it is removed.
THEOREM RevisionsTellState == Spec => []RevisionTellsState
BY Refinement, ServiceRowsCorrect, PTL DEF ImplementsService

\* However often a command is retried, its confirmations agree.
THEOREM RetriesCorrect == Spec => []RetriesAgree
BY Refinement, ServiceCallsCorrect, PTL DEF ImplementsService

\* A confirmation rests on a committed receipt.
THEOREM ConfirmationsDurable == Spec => []ConfirmedIsDurable
BY Refinement, ServiceCallsCorrect, PTL DEF ImplementsService

\* Receipts are complete, unique per key, and name rows that exist.
THEOREM ReceiptsCorrect == Spec => []ReceiptsSound
BY Refinement, ServiceCallsCorrect, PTL DEF ImplementsService

\* Every row and every removal was recorded with the command that made it.
THEOREM EffectsRecorded == Spec => []EffectsHaveReceipts
BY Refinement, ServiceCallsCorrect, PTL DEF ImplementsService

\* A refused call leaves neither a row nor a used key behind.
THEOREM RefusalsClean == Spec => []RefusedWithoutTrace
BY Refinement, ServiceCallsCorrect, PTL DEF ImplementsService

\* A key conflict is only told of a key used for another command.
THEOREM ConflictsReal == Spec => []ConflictIsReal
BY Refinement, ServiceCallsCorrect, PTL DEF ImplementsService

\* No commit takes back what an earlier one made.
THEOREM TransactionsNeverTakeBack == Spec => NeverTakenBack
BY Refinement, ServiceNeverTakesBack, PTL DEF ImplementsService

\* check_membership reads the latest row by transaction time, which need not be
\* the active one; but an owner has no other, so it is always confirmed.
THEOREM OwnersConfirmed == Spec => []OwnerAlwaysConfirmed
<1>1. ASSUME Inv, RowInv, OwnersAlone, NEW m \in members, m.owner
      PROVE  CheckAnswers(m.org, m.subject) = {[active |-> TRUE, owner |-> TRUE]}
  <2>1. m.active
    BY <1>1, OwnersActive
  <2>2. m.id \in Call /\ m \in Member /\ began \in [Call -> 0..MaxTime]
    BY <1>1 DEF RowInv, TablesTypeOK, Member, Inv, TypeOK
  <2>3. {n \in members : n.org = m.org /\ n.subject = m.subject} = {m}
    BY <1>1 DEF OwnersAlone
  <2>4. LatestRows(m.org, m.subject) = {m}
    BY <2>2, <2>3 DEF LatestRows
  <2>5. [active |-> m.active, owner |-> m.owner /\ m.active] = [active |-> TRUE, owner |-> TRUE]
    BY <1>1, <2>1, <2>2 DEF Member
  <2>6. {[active |-> a.active, owner |-> b.owner /\ b.active] :
           a \in LatestRows(m.org, m.subject), b \in LatestRows(m.org, m.subject)}
         = {[active |-> m.active, owner |-> m.owner /\ m.active]}
    BY <2>4
  <2>7. LatestRows(m.org, m.subject) # {}
    BY <2>4
  <2>8. CheckAnswers(m.org, m.subject)
          = {[active |-> m.active, owner |-> m.owner /\ m.active]}
    BY <2>6, <2>7 DEF CheckAnswers
  <2> QED BY <2>5, <2>8
<1>2. Inv /\ RowInv /\ OwnersAlone => OwnerAlwaysConfirmed
  BY <1>1 DEF OwnerAlwaysConfirmed
<1> QED BY <1>2, InvCorrect, Refinement, RowCorrect, OwnersAloneCorrect, PTL
        DEF ImplementsService

-----------------------------------------------------------------------------
(* Nobody is stuck: transactions climb from lock to lock. *)

\* The order the statements of every command take their locks in.
Rank(l) ==
  IF l.on = "receipt" THEN 1
  ELSE IF l.on \in {"organizations_active_slug_key", "organization"} THEN 2 ELSE 3

\* The rank of what a call's next statement may wait for; 0 is a connection,
\* and 4 is nothing.
Level(c) ==
  IF pc[c] \in {"idle", "begin", "done"} THEN 0
  ELSE IF pc[c] \in {"reserve", "replay"} THEN 1
  ELSE IF pc[c] \in {"insert", "lock"} THEN 2
  ELSE IF pc[c] = "read" \/ (pc[c] = "write" /\ found[c] = {}) THEN 3 ELSE 4

\* A call has taken only locks that rank below what it may wait for.
LocksClimb == \A c \in Call : \A l \in locks[c] : Rank(l) < Level(c)

LEMMA LockRanks ==
  /\ \A c \in Call : Rank(ReceiptLock(c)) = 1 /\ Rank(SlugLock(c)) = 2 /\ Rank(SubjectLock(c)) = 3
  /\ \A o : Rank(OrgLock(o)) = 2
  /\ \A rows : \A l \in MemberLocks(rows) : Rank(l) = 3
  /\ \A l : Rank(l) \in 1..3
BY DEF Rank, ReceiptLock, SlugLock, SubjectLock, OrgLock, MemberLocks

LEMMA WaitsClimb ==
  ASSUME LocksClimb, NEW c \in Call, NEW d \in Call, WaitsFor(c, d)
  PROVE  Level(c) < Level(d) /\ d \in Connected
<1>1. \A e \in Call : Level(e) \in 0..4 /\ (e \in Connected <=> Level(e) # 0)
  BY DEF Level, Connected
<1>2. ASSUME NEW l \in locks[d], Awaits(c, l)
      PROVE  Level(c) < Level(d)
  <2>1. Rank(l) = Level(c)
    BY <1>2, LockRanks DEF Awaits, Level, ReplayLocks
  <2> QED BY <1>2, <2>1 DEF LocksClimb
<1>3. CASE pc[c] = "begin" /\ d \in Connected
  <2>1. Level(c) = 0
    BY <1>3 DEF Level
  <2> QED BY <1>1, <1>3, <2>1
<1>4. Level(c) < Level(d)
  BY <1>1, <1>2, <1>3 DEF WaitsFor
<1> QED BY <1>1, <1>4

\* A call on the highest level of a set waits for nobody in it.
LEMMA ClimbersAreNotStuck == ASSUME LocksClimb PROVE NobodyIsStuck
<1>1. ASSUME NEW S \in SUBSET Call, S # {}
      PROVE  \E c \in S : \A d \in S : ~WaitsFor(c, d)
  <2>1. \A c \in Call : Level(c) \in {0, 1, 2, 3, 4}
    BY DEF Level
  <2>2. \E c \in S : \A d \in S : Level(d) <= Level(c)
    <3>1. CASE \E c \in S : Level(c) = 4
      BY <2>1, <3>1
    <3>2. CASE (\E c \in S : Level(c) = 3) /\ \A d \in S : Level(d) # 4
      BY <2>1, <3>2
    <3>3. CASE (\E c \in S : Level(c) = 2) /\ \A d \in S : Level(d) \notin {3, 4}
      BY <2>1, <3>3
    <3>4. CASE (\E c \in S : Level(c) = 1) /\ \A d \in S : Level(d) \notin {2, 3, 4}
      BY <2>1, <3>4
    <3>5. CASE \A d \in S : Level(d) = 0
      BY <1>1, <2>1, <3>5
    <3> QED BY <2>1, <3>1, <3>2, <3>3, <3>4, <3>5
  <2>3. PICK c \in S : \A d \in S : Level(d) <= Level(c)
    BY <2>2
  <2>4. \A d \in S : ~WaitsFor(c, d)
    BY <2>1, <2>3, WaitsClimb
  <2> QED BY <2>4
<1> QED BY <1>1, WaitsClimb DEF NobodyIsStuck

LEMMA ClimbOn ==
  ASSUME LocksClimb, NEW c \in Call,
         \A d \in Call \ {c} : UNCHANGED <<locks[d], pc[d], found[d]>>,
         \A l \in locks'[c] : Rank(l) < Level(c)'
  PROVE  LocksClimb'
<1>1. \A d \in Call \ {c} : Level(d)' = Level(d)
  BY DEF Level
<1> QED BY <1>1 DEF LocksClimb, Rank

\* A statement that leaves its call's locks as they were, or gives them back.
LEMMA QuietClimb ==
  ASSUME TypeOK, LocksClimb, NEW c \in Call,
         \/ Forbidden(c) \/ Malformed(c) \/ Admit(c) \/ Begin(c) \/ FindReceipt(c)
         \/ SlugConflict(c) \/ MissMember(c) \/ KeepMember(c) \/ UpdateMember(c)
         \/ Complete(c) \/ FailToBegin(c) \/ Fail(c) \/ Commit(c)
         \/ CommitUnacknowledged(c) \/ CommitReplay(c) \/ Rollback(c)
  PROVE  LocksClimb'
<1>0. pc \in [Call -> Label] /\ locks \in [Call -> SUBSET Lock] /\ found \in [Call -> SUBSET Member]
  BY DEF TypeOK
<1>1. \A l \in locks[c] : Rank(l) < Level(c) /\ Rank(l) \in 1..3
  BY LockRanks DEF LocksClimb
<1>2. CASE Forbidden(c) \/ Malformed(c) \/ Admit(c) \/ FailToBegin(c) \/ Begin(c)
  <2>1. /\ UNCHANGED <<locks, found>> /\ Level(c) = 0
        /\ \A d \in Call \ {c} : pc'[d] = pc[d]
    BY <1>0, <1>2 DEF Forbidden, Malformed, Admit, FailToBegin, Begin, Goto, Level
  <2> QED BY <1>1, <2>1, ClimbOn
<1>3. CASE FindReceipt(c)
  <2>1. /\ UNCHANGED <<locks, found>> /\ Level(c) = 1
        /\ \A d \in Call \ {c} : pc'[d] = pc[d]
    BY <1>0, <1>3 DEF FindReceipt, Goto, Level
  <2> QED BY <1>1, <2>1, ClimbOn
<1>4. CASE SlugConflict(c) \/ MissMember(c) \/ KeepMember(c) \/ UpdateMember(c)
           \/ Complete(c) \/ Fail(c)
  <2>1. /\ UNCHANGED <<locks, found>>
        /\ pc' = [pc EXCEPT ![c] = "rollback"] \/ pc' = [pc EXCEPT ![c] = "complete"]
           \/ pc' = [pc EXCEPT ![c] = "commit"]
    BY <1>4 DEF SlugConflict, MissMember, KeepMember, UpdateMember, Complete, Fail, GiveUp, Goto
  <2>2. Level(c)' = 4 /\ \A d \in Call \ {c} : pc'[d] = pc[d]
    BY <1>0, <2>1 DEF Level
  <2> QED BY <1>1, <2>1, <2>2, ClimbOn
<1>5. CASE Commit(c) \/ CommitUnacknowledged(c) \/ CommitReplay(c) \/ Rollback(c)
  <2>1. Release(c)
    BY <1>5 DEF Commit, CommitUnacknowledged, CommitReplay, Rollback
  <2> QED BY <1>0, <2>1, ClimbOn DEF Release
<1> QED BY <1>2, <1>3, <1>4, <1>5

\* A statement that takes locks: each ranks below what the call waits for next.
LEMMA TakeClimb ==
  ASSUME TypeOK, LocksClimb, NEW c \in Call,
         \/ Reserve(c) \/ ReadReplay(c) \/ RejectReplay(c) \/ InsertOrganization(c)
         \/ LockOrganization(c) \/ MissOrganization(c) \/ ReadMember(c)
         \/ ProtectOwner(c) \/ InsertMember(c)
  PROVE  LocksClimb'
<1>0. pc \in [Call -> Label] /\ locks \in [Call -> SUBSET Lock] /\ found \in [Call -> SUBSET Member]
  BY DEF TypeOK
<1>1. \A l \in locks[c] : Rank(l) < Level(c) /\ Rank(l) \in 1..3
  BY LockRanks DEF LocksClimb
<1>2. ASSUME NEW ls, Take(c, ls), \A d \in Call \ {c} : UNCHANGED <<pc[d], found[d]>>,
             Level(c) <= Level(c)', Level(c) \in 0..4, Level(c)' \in 0..4,
             \A l \in ls : Rank(l) < Level(c)'
      PROVE  LocksClimb'
  <2>1. \A d \in Call : locks'[d] = IF d = c THEN locks[c] \cup ls ELSE locks[d]
    BY <1>0, <1>2 DEF Take
  <2> QED BY <1>1, <1>2, <2>1, ClimbOn
<1>3. CASE Reserve(c)
  <2>1. Take(c, {ReceiptLock(c)}) /\ Level(c) = 1 /\ Level(c)' = 2
        /\ \A d \in Call \ {c} : UNCHANGED <<pc[d], found[d]>>
    BY <1>0, <1>3 DEF Reserve, Goto, Level
  <2> QED BY <1>2, <2>1, LockRanks
<1>4. CASE LockOrganization(c)
  <2>1. Take(c, {OrgLock(request[c].intent.org)}) /\ Level(c) = 2 /\ Level(c)' = 3
        /\ \A d \in Call \ {c} : UNCHANGED <<pc[d], found[d]>>
    BY <1>0, <1>4 DEF LockOrganization, Goto, Level
  <2> QED BY <1>2, <2>1, LockRanks
<1>5. CASE ReadMember(c)
  <2>1. /\ Take(c, MemberLocks(Found(c))) /\ Level(c) = 3
        /\ Level(c)' = IF Found(c) = {} THEN 3 ELSE 4
        /\ \A d \in Call \ {c} : UNCHANGED <<pc[d], found[d]>>
    BY <1>0, <1>5 DEF ReadMember, Goto, Level
  <2>2. Found(c) = {} => MemberLocks(Found(c)) = {}
    BY DEF MemberLocks
  <2>3. \A l \in MemberLocks(Found(c)) : Rank(l) < Level(c)'
    BY <2>1, <2>2, LockRanks
  <2> QED BY <1>2, <2>1, <2>3
<1>6. CASE ReadReplay(c) \/ RejectReplay(c) \/ InsertOrganization(c)
           \/ MissOrganization(c) \/ ProtectOwner(c) \/ InsertMember(c)
  <2>1. /\ \E ls : Take(c, ls)
        /\ UNCHANGED found
        /\ \/ pc' = [pc EXCEPT ![c] = "commit_replay"] \/ pc' = [pc EXCEPT ![c] = "rollback"]
           \/ pc' = [pc EXCEPT ![c] = "commit"] \/ pc' = [pc EXCEPT ![c] = "complete"]
    BY <1>6 DEF ReadReplay, RejectReplay, InsertOrganization, MissOrganization, ProtectOwner,
                InsertMember, GiveUp, Goto
  <2>2. Level(c)' = 4 /\ Level(c) \in 0..4 /\ \A d \in Call \ {c} : pc'[d] = pc[d]
    BY <1>0, <2>1 DEF Level
  <2> QED BY <1>2, <2>1, <2>2, LockRanks
<1> QED BY <1>3, <1>4, <1>5, <1>6

LEMMA ClimbStep == ASSUME TypeOK, LocksClimb, [Next]_vars PROVE LocksClimb'
<1>1. ASSUME NEW c \in Call,
             Step(c) \/ CommitUnacknowledged(c) \/ FailToBegin(c) \/ Fail(c)
      PROVE  LocksClimb'
  BY <1>1, QuietClimb, TakeClimb DEF Step
<1>2. CASE UNCHANGED <<pc, locks, found>>
  BY <1>2 DEF LocksClimb, Level, Rank
<1>3. CASE \E o \in Call : Archive(o)
  BY <1>2, <1>3 DEF Archive, session
<1> QED BY <1>1, <1>2, <1>3 DEF Next, Tick, session, vars

\* However many calls share however few connections, they cannot deadlock: each
\* set of calls has one that none of the others keeps waiting, over a lock or
\* over a connection.  It rests on the one order in which the commands lock the
\* receipt, the Organization and the membership, and take their connection.
THEOREM NoDeadlock == Spec => []NobodyIsStuck
<1>1. Init => LocksClimb
  BY DEF Init, LocksClimb
<1>2. LocksClimb => NobodyIsStuck
  BY ClimbersAreNotStuck
<1> QED BY <1>1, <1>2, ClimbStep, TypeCorrect, PTL DEF Spec

=============================================================================
