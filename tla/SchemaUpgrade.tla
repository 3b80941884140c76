---------------------------- MODULE SchemaUpgrade ----------------------------
(***************************************************************************)
(* OrganizationOperator::setup and ::upgrade: the four migrations of the   *)
(* Postgres schema, statement by statement, in a database that may hold    *)
(* Organizations of the time when ownership was a role.                    *)
(*                                                                         *)
(* The kit that runs migrations is external.  It runs them in the order of *)
(* their versions, in transactions that end at the end of a migration: of  *)
(* each, or of several at once.  An error rolls the transaction back, and  *)
(* the Operator tries again.                                               *)
(***************************************************************************)
EXTENDS Naturals

CONSTANTS
  Orgs,
  Members,      \* membership rows
  MemberOrg,    \* the Organization of each
  MaxMishaps    \* bound: crashes and writes of the old program

ASSUME UpgradeAssumption == MemberOrg \in [Members -> Orgs] /\ MaxMishaps \in Nat

VARIABLES
  schema,     \* committed: [version, objects, owners]; owners is the column
              \* is_owner, as the set of rows where it is true
  active,     \* Organizations with archived_at IS NULL
  live,       \* memberships with removed_at IS NULL
  ownerRole,  \* memberships whose role has the system_key 'owner'; the last
              \* value before the roles are dropped
  step,       \* the next statement, "commit", or "idle"
  work,       \* the schema as the open transaction sees it
  mishaps

upgradeVars == <<schema, active, live, ownerRole, step, work, mishaps>>

-----------------------------------------------------------------------------
\* What each version of the schema consists of.
Objects(v) ==
  (IF v >= 1 THEN {"organizations", "memberships"} ELSE {})
  \cup (IF v = 1 THEN {"roles"} ELSE {})
  \cup (IF v >= 2 THEN {"is_owner"} ELSE {})
  \cup (IF v >= 3 THEN {"creation_requests"} ELSE {})
  \cup (IF v >= 4 THEN {"revision", "membership_commands"} ELSE {})

Statements ==
  {"create_organizations", "add_is_owner", "project_owners", "check_owners",
   "drop_roles", "create_requests", "add_membership_administration"}

FirstStatement(v) ==
  IF v = 0 THEN "create_organizations"
  ELSE IF v = 1 THEN "add_is_owner"
  ELSE IF v = 2 THEN "create_requests"
  ELSE "add_membership_administration"

OwnedBy(o, owners) == \E m \in Members : MemberOrg[m] = o /\ m \in live /\ m \in owners

\* ALTER TABLE organization_memberships locks the table until the transaction
\* ends: of the old program's writes only archivals get through.
Locked == step \in {"project_owners", "check_owners", "drop_roles"} \/ work.version > 1

-----------------------------------------------------------------------------
\* setup or upgrade: the plan says what is missing.
Begin ==
  /\ step = "idle" /\ schema.version < 4
  /\ step' = FirstStatement(schema.version)
  /\ work' = schema
  /\ UNCHANGED <<schema, active, live, ownerRole, mishaps>>

\* One statement that goes on to another.
Run(stmt, then, objects, owners) ==
  /\ step = stmt /\ step' = then
  /\ work' = [version |-> work.version, objects |-> objects, owners |-> owners]
  /\ UNCHANGED <<schema, active, live, ownerRole, mishaps>>

\* The last statement of a migration: commit, or go on to the next one.
RunLast(stmt, version, objects) ==
  /\ step = stmt
  /\ work' = [version |-> version, objects |-> objects, owners |-> work.owners]
  /\ step' \in {"commit"} \cup (IF version < 4 THEN {FirstStatement(version)} ELSE {})
  /\ UNCHANGED <<schema, active, live, ownerRole, mishaps>>

CreateOrganizations ==
  RunLast("create_organizations", 1, work.objects \cup {"organizations", "roles", "memberships"})

AddIsOwner ==
  Run("add_is_owner", "project_owners", work.objects \cup {"is_owner"}, {})

\* Mutant: only what is still a member is projected.
ProjectLive ==
  Run("project_owners", "check_owners", work.objects, ownerRole \cap live)

ProjectOwners == Run("project_owners", "check_owners", work.objects, ownerRole)

\* Mutant: removed owners count.
CheckAnyOwner ==
  /\ \A o \in active : \E m \in Members : MemberOrg[m] = o /\ m \in work.owners
  /\ Run("check_owners", "drop_roles", work.objects, work.owners)

\* The exception is RefuseUpgrade.
CheckOwners ==
  /\ \A o \in active : OwnedBy(o, work.owners)
  /\ Run("check_owners", "drop_roles", work.objects, work.owners)

\* Mutant: the exception ends the statement, not the transaction.
RefuseAndCommit ==
  /\ step = "check_owners"
  /\ \E o \in active : ~OwnedBy(o, work.owners)
  /\ step' = "commit"
  /\ UNCHANGED <<schema, active, live, ownerRole, work, mishaps>>

\* Mutant: the failed transaction stays open, and with it its locks.
RefuseAndHold ==
  /\ step = "check_owners"
  /\ \E o \in active : ~OwnedBy(o, work.owners)
  /\ UNCHANGED upgradeVars

RefuseUpgrade ==
  /\ step = "check_owners"
  /\ \E o \in active : ~OwnedBy(o, work.owners)
  /\ step' = "idle" /\ work' = schema
  /\ UNCHANGED <<schema, active, live, ownerRole, mishaps>>

DropRoles == RunLast("drop_roles", 2, work.objects \ {"roles"})

CreateRequests ==
  RunLast("create_requests", 3, work.objects \cup {"creation_requests"})

AddMembershipAdministration ==
  RunLast("add_membership_administration", 4,
          work.objects \cup {"revision", "membership_commands"})

Commit ==
  /\ step = "commit"
  /\ schema' = work /\ step' = "idle"
  /\ UNCHANGED <<active, live, ownerRole, work, mishaps>>

-----------------------------------------------------------------------------
(* Around the migrations. *)

\* The Operator's process, its connection or the database is gone.
Crash ==
  /\ step # "idle" /\ mishaps < MaxMishaps
  /\ step' = "idle" /\ work' = schema /\ mishaps' = mishaps + 1
  /\ UNCHANGED <<schema, active, live, ownerRole>>

\* The old program goes on serving the schema with roles.
OldProgramArchives(o) ==
  /\ schema.version = 1 /\ mishaps < MaxMishaps
  /\ o \in active /\ active' = active \ {o} /\ mishaps' = mishaps + 1
  /\ UNCHANGED <<schema, live, ownerRole, step, work>>

OldProgramChanges(m) ==
  /\ schema.version = 1 /\ ~Locked /\ mishaps < MaxMishaps
  /\ \/ live' = live \ {m} /\ ownerRole' = ownerRole
     \/ live' = live /\ ownerRole' \in {ownerRole \cup {m}, ownerRole \ {m}}
  /\ mishaps' = mishaps + 1
  /\ UNCHANGED <<schema, active, step, work>>

\* The Operator makes a membership the active owner its Organization lacks,
\* or archives an Organization.
Repair ==
  /\ schema.version = 1 /\ ~Locked
  /\ \E o \in active :
       /\ ~OwnedBy(o, ownerRole)
       /\ \/ \E m \in Members :
               /\ MemberOrg[m] = o
               /\ live' = live \cup {m} /\ ownerRole' = ownerRole \cup {m}
               /\ active' = active
          \/ active' = active \ {o} /\ UNCHANGED <<live, ownerRole>>
  /\ UNCHANGED <<schema, step, work, mishaps>>

-----------------------------------------------------------------------------
\* Nothing is installed, or the schema of the time before ownership was a
\* fact of its own, with any rows in it.
UpgradeInit ==
  /\ \/ /\ schema = [version |-> 0, objects |-> {}, owners |-> {}]
        /\ active = {} /\ live = {} /\ ownerRole = {}
     \/ /\ schema = [version |-> 1, objects |-> Objects(1), owners |-> {}]
        /\ active \in SUBSET Orgs /\ live \in SUBSET Members
        /\ ownerRole \in SUBSET Members
  /\ step = "idle" /\ work = schema /\ mishaps = 0

Statement ==
  \/ CreateOrganizations
  \/ AddIsOwner \/ ProjectOwners \/ CheckOwners \/ RefuseUpgrade \/ DropRoles
  \/ CreateRequests \/ AddMembershipAdministration

UpgradeNext ==
  \/ Begin \/ Statement \/ Commit \/ Crash \/ Repair
  \/ \E o \in Orgs : OldProgramArchives(o)
  \/ \E m \in Members : OldProgramChanges(m)

\* An upgrade runs on, the Operator tries again, and repairs between two
\* tries what the last one was refused for.
UpgradeFairness ==
  /\ WF_upgradeVars(Begin \/ Statement \/ Commit)
  /\ SF_upgradeVars(Repair)

UpgradeSpec == UpgradeInit /\ [][UpgradeNext]_upgradeVars
FairUpgradeSpec == UpgradeSpec /\ UpgradeFairness

-----------------------------------------------------------------------------
(* Properties. *)

Schema ==
  [version : 0..4,
   objects : SUBSET {"organizations", "memberships", "roles", "is_owner",
                     "creation_requests", "revision", "membership_commands"},
   owners : SUBSET Members]

\* Committed and uncommitted schemas have their types.
UpgradeTypeOK ==
  /\ schema \in Schema /\ work \in Schema
  /\ active \in SUBSET Orgs /\ live \in SUBSET Members
  /\ ownerRole \in SUBSET Members
  /\ step \in Statements \cup {"idle", "commit"}
  /\ mishaps \in Nat

\* Once ownership is a fact of its own, every active Organization has an
\* active owner: what the Plugin's commands rely on to keep it so, and what
\* the roles are gone for good to tell.
UpgradedAreOwned ==
  schema.version >= 2 => \A o \in active : OwnedBy(o, schema.owners)

\* The owners after the upgrade are exactly those the roles made owners before
\* it, whatever the old program wrote while it ran.
OwnersAreFormerOwners == schema.version >= 2 => schema.owners = ownerRole

\* The recorded version tells what is there: no crash or refusal leaves a
\* migration half done, so that the next attempt may start from the version.
VersionTellsSchema ==
  /\ schema.objects = Objects(schema.version)
  /\ step = "idle" => work = schema

\* With the Operator repairing what is refused, the upgrade comes through.
UpgradeEnds == <>(schema.version = 4)

=============================================================================
