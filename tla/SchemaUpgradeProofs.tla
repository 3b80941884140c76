------------------------ MODULE SchemaUpgradeProofs ------------------------
(* Theorems about the migrations of the Postgres schema. *)
EXTENDS SchemaUpgrade, TLAPS

\* How far the open transaction is: before each statement the schema is that
\* of the version, or on its way from the first to the second.
WorkTellsStep ==
  /\ step = "create_organizations" => work.version = 0
  /\ step \in {"add_is_owner", "project_owners", "check_owners", "drop_roles"} =>
       work.version = 1
  /\ step = "create_requests" => work.version = 2
  /\ step = "add_membership_administration" => work.version = 3
  /\ work.objects = IF step \in {"project_owners", "check_owners", "drop_roles"}
                    THEN Objects(1) \cup {"is_owner"}
                    ELSE Objects(work.version)

\* What the open transaction has established about owners, and locked.
WorkIsOwned ==
  /\ step \in {"check_owners", "drop_roles"} \/ work.version >= 2 => work.owners = ownerRole
  /\ step = "drop_roles" \/ work.version >= 2 => \A o \in active : OwnedBy(o, work.owners)

UpgradeInv ==
  /\ UpgradeTypeOK
  /\ WorkTellsStep
  /\ WorkIsOwned
  /\ UpgradedAreOwned
  /\ OwnersAreFormerOwners
  /\ VersionTellsSchema

LEMMA UpgradeStart == ASSUME UpgradeInit PROVE UpgradeInv
<1>1. Objects(0) = {} /\ Objects(1) = {"organizations", "memberships", "roles"}
  BY DEF Objects
<1>2. UpgradeTypeOK
  BY <1>1 DEF UpgradeInit, UpgradeTypeOK, Schema
<1>3. schema.version \in {0, 1} /\ work = schema /\ step = "idle"
      /\ schema.objects = Objects(schema.version)
  BY <1>1 DEF UpgradeInit
<1> QED
  BY <1>2, <1>3 DEF UpgradeInv, WorkTellsStep, WorkIsOwned, UpgradedAreOwned,
                    OwnersAreFormerOwners, VersionTellsSchema

\* What a version adds to the one before it.
LEMMA ObjectsGrow ==
  /\ Objects(1) = Objects(0) \cup {"organizations", "roles", "memberships"}
  /\ Objects(2) = (Objects(1) \cup {"is_owner"}) \ {"roles"}
  /\ Objects(3) = Objects(2) \cup {"creation_requests"}
  /\ Objects(4) = Objects(3) \cup {"revision", "membership_commands"}
BY DEF Objects

\* A statement works on what is not committed.
LEMMA StatementStep ==
  ASSUME UpgradeInv, Statement
  PROVE  UpgradeInv'
<1>0. /\ UpgradeTypeOK /\ WorkTellsStep /\ WorkIsOwned /\ VersionTellsSchema
      /\ UNCHANGED <<schema, active, live, ownerRole, mishaps>>
  BY DEF UpgradeInv, Statement, CreateOrganizations, AddIsOwner, ProjectOwners, CheckOwners,
         RefuseUpgrade, DropRoles, CreateRequests, AddMembershipAdministration, Run, RunLast
<1>1. UpgradedAreOwned' /\ OwnersAreFormerOwners'
  BY <1>0 DEF UpgradeInv, UpgradedAreOwned, OwnersAreFormerOwners, OwnedBy
<1> SUFFICES UpgradeTypeOK' /\ WorkTellsStep' /\ WorkIsOwned' /\ VersionTellsSchema'
  BY <1>1 DEF UpgradeInv
<1>2. CASE CreateOrganizations
  <2>1. /\ work'.version = 1 /\ work'.objects = Objects(1) /\ work'.owners = work.owners
        /\ step' \in {"commit", "add_is_owner"} /\ work' \in Schema
    BY <1>0, <1>2, ObjectsGrow
       DEF CreateOrganizations, RunLast, FirstStatement, WorkTellsStep, UpgradeTypeOK, Schema
  <2> QED BY <1>0, <2>1 DEF UpgradeTypeOK, WorkTellsStep, WorkIsOwned, VersionTellsSchema, Statements
<1>3. CASE AddIsOwner
  <2>1. /\ work'.version = 1 /\ work'.objects = Objects(1) \cup {"is_owner"}
        /\ step' = "project_owners" /\ work' \in Schema
    BY <1>0, <1>3, ObjectsGrow DEF AddIsOwner, Run, WorkTellsStep, UpgradeTypeOK, Schema
  <2> QED BY <1>0, <2>1 DEF UpgradeTypeOK, WorkTellsStep, WorkIsOwned, VersionTellsSchema, Statements
<1>4. CASE ProjectOwners
  <2>1. /\ work'.version = 1 /\ work'.objects = Objects(1) \cup {"is_owner"}
        /\ work'.owners = ownerRole
        /\ step' = "check_owners" /\ work' \in Schema
    BY <1>0, <1>4 DEF ProjectOwners, Run, WorkTellsStep, UpgradeTypeOK, Schema
  <2> QED BY <1>0, <2>1 DEF UpgradeTypeOK, WorkTellsStep, WorkIsOwned, VersionTellsSchema, Statements
<1>5. CASE CheckOwners
  <2>1. /\ work' = work /\ step = "check_owners" /\ step' = "drop_roles"
        /\ \A o \in active : OwnedBy(o, work.owners)
    BY <1>0, <1>5 DEF CheckOwners, Run, UpgradeTypeOK, Schema
  <2> QED BY <1>0, <2>1 DEF UpgradeTypeOK, WorkTellsStep, WorkIsOwned, VersionTellsSchema,
                            Statements, OwnedBy
<1>6. CASE RefuseUpgrade
  <2>1. work' = schema /\ step' = "idle"
    BY <1>6 DEF RefuseUpgrade
  <2> QED BY <1>0, <2>1 DEF UpgradeInv, UpgradeTypeOK, WorkTellsStep, WorkIsOwned, OwnedBy,
                            VersionTellsSchema, UpgradedAreOwned, OwnersAreFormerOwners
<1>7. CASE DropRoles
  <2>1. /\ work'.version = 2 /\ work'.objects = Objects(2) /\ work'.owners = work.owners
        /\ step = "drop_roles" /\ step' \in {"commit", "create_requests"} /\ work' \in Schema
    BY <1>0, <1>7, ObjectsGrow
       DEF DropRoles, RunLast, FirstStatement, WorkTellsStep, UpgradeTypeOK, Schema
  <2> QED BY <1>0, <2>1 DEF UpgradeTypeOK, WorkTellsStep, WorkIsOwned, VersionTellsSchema,
                            Statements, OwnedBy
<1>8. CASE CreateRequests
  <2>1. /\ work'.version = 3 /\ work'.objects = Objects(3) /\ work'.owners = work.owners
        /\ work.version = 2
        /\ step' \in {"commit", "add_membership_administration"} /\ work' \in Schema
    BY <1>0, <1>8, ObjectsGrow
       DEF CreateRequests, RunLast, FirstStatement, WorkTellsStep, UpgradeTypeOK, Schema
  <2> QED BY <1>0, <2>1 DEF UpgradeTypeOK, WorkTellsStep, WorkIsOwned, VersionTellsSchema,
                            Statements, OwnedBy
<1>9. CASE AddMembershipAdministration
  <2>1. /\ work'.version = 4 /\ work'.objects = Objects(4) /\ work'.owners = work.owners
        /\ work.version = 3 /\ step' = "commit" /\ work' \in Schema
    BY <1>0, <1>9, ObjectsGrow
       DEF AddMembershipAdministration, RunLast, WorkTellsStep, UpgradeTypeOK, Schema
  <2> QED BY <1>0, <2>1 DEF UpgradeTypeOK, WorkTellsStep, WorkIsOwned, VersionTellsSchema,
                            Statements, OwnedBy
<1> QED BY <1>2, <1>3, <1>4, <1>5, <1>6, <1>7, <1>8, <1>9 DEF Statement

\* The old program and the Operator write nothing that the open transaction
\* has looked at, but for archiving.
LEMMA OutsideStep ==
  ASSUME UpgradeInv,
         \/ Repair
         \/ \E o \in Orgs : OldProgramArchives(o)
         \/ \E m \in Members : OldProgramChanges(m)
  PROVE  UpgradeInv'
<1>1. /\ UNCHANGED <<schema, step, work>> /\ active' \subseteq active /\ mishaps' \in Nat
      /\ live' \in SUBSET Members /\ ownerRole' \in SUBSET Members
      /\ schema.version = 1
      /\ Locked => UNCHANGED <<live, ownerRole>>
  BY UpgradeAssumption
     DEF UpgradeInv, UpgradeTypeOK, Repair, OldProgramArchives, OldProgramChanges
<1>2. UpgradeTypeOK' /\ WorkTellsStep' /\ VersionTellsSchema'
  BY <1>1 DEF UpgradeInv, UpgradeTypeOK, WorkTellsStep, VersionTellsSchema
<1>3. work.version \in 0..4
  BY DEF UpgradeInv, UpgradeTypeOK, Schema
<1>4. WorkIsOwned'
  BY <1>1, <1>3 DEF UpgradeInv, WorkIsOwned, Locked, OwnedBy
<1> QED
  BY <1>1, <1>2, <1>4 DEF UpgradeInv, UpgradedAreOwned, OwnersAreFormerOwners

LEMMA UpgradeStep ==
  ASSUME UpgradeInv, [UpgradeNext]_upgradeVars
  PROVE  UpgradeInv'
<1>0. UpgradeTypeOK /\ WorkTellsStep /\ WorkIsOwned /\ VersionTellsSchema
      /\ UpgradedAreOwned /\ OwnersAreFormerOwners
  BY DEF UpgradeInv
<1>1. CASE Begin
  <2>1. step' = FirstStatement(schema.version) /\ work' = schema /\ schema.version \in 0..3
        /\ schema.objects = Objects(schema.version)
        /\ UNCHANGED <<schema, active, live, ownerRole, mishaps>>
    BY <1>0, <1>1 DEF Begin, UpgradeTypeOK, VersionTellsSchema, Schema
  <2> QED BY <1>0, <2>1 DEF UpgradeInv, UpgradeTypeOK, WorkTellsStep, WorkIsOwned, OwnedBy,
              VersionTellsSchema, UpgradedAreOwned, OwnersAreFormerOwners, FirstStatement, Statements
<1>2. CASE Commit
  <2>1. /\ step = "commit" /\ step' = "idle" /\ schema' = work
        /\ UNCHANGED <<active, live, ownerRole, work, mishaps>>
    BY <1>2 DEF Commit
  <2> QED BY <1>0, <2>1 DEF UpgradeInv, UpgradeTypeOK, WorkTellsStep, WorkIsOwned, OwnedBy,
                            VersionTellsSchema, UpgradedAreOwned, OwnersAreFormerOwners
<1>3. CASE Crash
  <2>1. /\ step' = "idle" /\ work' = schema /\ mishaps' \in Nat
        /\ UNCHANGED <<schema, active, live, ownerRole>>
    BY <1>0, <1>3 DEF Crash, UpgradeTypeOK
  <2> QED BY <1>0, <2>1 DEF UpgradeInv, UpgradeTypeOK, WorkTellsStep, WorkIsOwned, OwnedBy,
                            VersionTellsSchema, UpgradedAreOwned, OwnersAreFormerOwners
<1>4. CASE UNCHANGED upgradeVars
  BY <1>4 DEF upgradeVars, UpgradeInv, UpgradeTypeOK, WorkTellsStep, WorkIsOwned, OwnedBy,
              VersionTellsSchema, UpgradedAreOwned, OwnersAreFormerOwners
<1> QED BY <1>1, <1>2, <1>3, <1>4, StatementStep, OutsideStep DEF UpgradeNext

-----------------------------------------------------------------------------
LEMMA UpgradeInvCorrect == UpgradeSpec => []UpgradeInv
<1>1. UpgradeInit => UpgradeInv
  BY UpgradeStart
<1>2. UpgradeInv /\ [UpgradeNext]_upgradeVars => UpgradeInv'
  BY UpgradeStep
<1> QED BY <1>1, <1>2, PTL DEF UpgradeSpec

\* Committed and uncommitted schemas keep their types.
THEOREM UpgradeTypesKept == UpgradeSpec => []UpgradeTypeOK
<1>1. UpgradeInv => UpgradeTypeOK
  BY DEF UpgradeInv
<1> QED BY <1>1, UpgradeInvCorrect, PTL

\* Whatever crashes and whatever the old program writes while the migrations
\* run, an upgraded schema has an active owner for every active Organization:
\* a migration that would leave one without is refused.
THEOREM UpgradesKeepOwned == UpgradeSpec => []UpgradedAreOwned
<1>1. UpgradeInv => UpgradedAreOwned
  BY DEF UpgradeInv
<1> QED BY <1>1, UpgradeInvCorrect, PTL

\* The owners after the upgrade are those whom the owner role made owners: the
\* table locks keep the old program from changing roles under the migration.
THEOREM UpgradesKeepOwners == UpgradeSpec => []OwnersAreFormerOwners
<1>1. UpgradeInv => OwnersAreFormerOwners
  BY DEF UpgradeInv
<1> QED BY <1>1, UpgradeInvCorrect, PTL

\* The recorded version tells what is installed after every crash, refusal and
\* repair, so that the next attempt starts where the last commit ended.
THEOREM VersionsTellSchema == UpgradeSpec => []VersionTellsSchema
<1>1. UpgradeInv => VersionTellsSchema
  BY DEF UpgradeInv
<1> QED BY <1>1, UpgradeInvCorrect, PTL

-----------------------------------------------------------------------------
(* Whole migrations. *)

\* The open transaction is never behind what is committed, and ahead of it
\* when it commits.
WorkIsAhead ==
  /\ step # "idle" => work.version >= schema.version
  /\ step = "commit" => work.version > schema.version

\* The database goes from one version of the schema to a later one, whole, in
\* a step that touches no row.  The step that brings the column is_owner takes
\* the owners from the roles; no later one changes them.
WholeMigrations ==
  [][schema' # schema =>
       /\ schema'.version > schema.version
       /\ schema'.objects = Objects(schema'.version)
       /\ schema'.version >= 2 =>
            schema'.owners = IF schema.version >= 2 THEN schema.owners ELSE ownerRole
       /\ UNCHANGED <<active, live, ownerRole>>]_upgradeVars

LEMMA AheadStart == ASSUME UpgradeInit PROVE WorkIsAhead
BY DEF UpgradeInit, WorkIsAhead

LEMMA AheadStep ==
  ASSUME UpgradeInv, WorkIsAhead, [UpgradeNext]_upgradeVars
  PROVE  WorkIsAhead'
<1>0. /\ schema.version \in 0..4 /\ work.version \in 0..4 /\ WorkTellsStep
      /\ step = "idle" => work = schema
  BY DEF UpgradeInv, UpgradeTypeOK, Schema, VersionTellsSchema
<1>1. CASE Begin \/ RefuseUpgrade \/ Commit \/ Crash
  BY <1>0, <1>1 DEF WorkIsAhead, Begin, RefuseUpgrade, Commit, Crash, FirstStatement
<1>2. CASE AddIsOwner \/ ProjectOwners \/ CheckOwners
  BY <1>0, <1>2 DEF WorkIsAhead, AddIsOwner, ProjectOwners, CheckOwners, Run
<1>3. CASE CreateOrganizations \/ DropRoles \/ CreateRequests \/ AddMembershipAdministration
  <2>1. PICK v \in 1..4 : /\ work.version = v - 1 /\ work'.version = v
                          /\ schema' = schema /\ step # "idle"
    BY <1>0, <1>3 DEF CreateOrganizations, DropRoles, CreateRequests,
                      AddMembershipAdministration, RunLast, WorkTellsStep
  <2> QED BY <1>0, <2>1 DEF WorkIsAhead
<1>4. CASE \/ Repair \/ UNCHANGED upgradeVars
           \/ \E o \in Orgs : OldProgramArchives(o)
           \/ \E m \in Members : OldProgramChanges(m)
  BY <1>4 DEF WorkIsAhead, Repair, OldProgramArchives, OldProgramChanges, upgradeVars
<1> QED BY <1>1, <1>2, <1>3, <1>4 DEF UpgradeNext, Statement

LEMMA CommitsWhole ==
  ASSUME UpgradeInv, WorkIsAhead, [UpgradeNext]_upgradeVars, schema' # schema
  PROVE  /\ schema'.version > schema.version
         /\ schema'.objects = Objects(schema'.version)
         /\ schema'.version >= 2 =>
              schema'.owners = IF schema.version >= 2 THEN schema.owners ELSE ownerRole
         /\ UNCHANGED <<active, live, ownerRole>>
<1>1. Commit
  BY DEF UpgradeNext, upgradeVars, Begin, Statement, Crash, Repair, OldProgramArchives,
         OldProgramChanges, CreateOrganizations, AddIsOwner, ProjectOwners, CheckOwners,
         RefuseUpgrade, DropRoles, CreateRequests, AddMembershipAdministration, Run, RunLast
<1>2. schema' = work /\ step = "commit" /\ UNCHANGED <<active, live, ownerRole>>
  BY <1>1 DEF Commit
<1>3. work.version > schema.version /\ work.objects = Objects(work.version)
  BY <1>2 DEF UpgradeInv, WorkIsAhead, WorkTellsStep
<1>4. /\ work.version >= 2 => work.owners = ownerRole
      /\ schema.version >= 2 => schema.owners = ownerRole
  BY DEF UpgradeInv, WorkIsOwned, OwnersAreFormerOwners
<1> QED BY <1>2, <1>3, <1>4

\* However the migrations are grouped into transactions and wherever they are
\* cut off, what is committed is a sequence of whole migrations, forward only,
\* and what one of them has made of the owners the next ones leave alone.
THEOREM MigrationsAreWhole == UpgradeSpec => WholeMigrations
<1>1. UpgradeInit => WorkIsAhead
  BY AheadStart
<1>2. UpgradeInv /\ WorkIsAhead /\ [UpgradeNext]_upgradeVars => WorkIsAhead'
  BY AheadStep
<1>3. UpgradeInv /\ WorkIsAhead /\ [UpgradeNext]_upgradeVars =>
        [schema' # schema =>
           /\ schema'.version > schema.version
           /\ schema'.objects = Objects(schema'.version)
           /\ schema'.version >= 2 =>
                schema'.owners = IF schema.version >= 2 THEN schema.owners ELSE ownerRole
           /\ UNCHANGED <<active, live, ownerRole>>]_upgradeVars
  BY CommitsWhole
<1> QED BY <1>1, <1>2, <1>3, UpgradeInvCorrect, PTL DEF UpgradeSpec, WholeMigrations

=============================================================================
