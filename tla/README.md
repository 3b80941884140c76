# Verification of the Lenso Organization Plugin

TLA+ models, TLC runs and TLAPS proofs about the Organization Plugin: the
Organizations, their memberships, and the idempotent commands that change
them, on Postgres and on Cloudflare D1; the lists that read them, the life of
the Plugin and of its schema, and the contracts and Agent Tools by which it is
called.

## The system

| Part | State | Operations |
|---|---|---|
| Postgres Plugin (`lenso-organization-postgres-plugin`) | five tables in one schema; an `Rc<RefCell<Option<PreparedOrganization>>>` with the pool | `create_organization`, `add_member`, `remove_member`; `list_organizations`, `list_members`, `list_for_subject`, `get_organization`, `check_membership`; `instantiate`, `prepare`, `deactivate` |
| D1 Plugin (`lenso-organization-d1-plugin`) | the same data in D1, a one-row workspace `organization_operation`, a `Cell<bool>` | the same operations, each command as one batch of statements |
| Schema operator and migrations | the Postgres schema | setup, upgrade, verify |
| Shared policy (`lenso-organization-core`) | none | `exact_caller`, the validators |
| Agent Tools Plugin (`lenso-organization-agent-tools-plugin`) | none | `catalog` (a constant), `execute`: agent tool calls to Capabilities |
| Capability contracts (`lenso-capability-organization-*`) | none | generated types, codecs, endpoints, clients |
| Secrets fixture, Workers smoke test | none | test support |

Clients reach the Plugin through Capabilities; the kernel vouches for the
caller's Instance name. A command is admitted if the caller is on the allowlist
and its request is well formed. It is then one database transaction that
reserves the caller's idempotency key, does its work and records the outcome
under the key. Calls of one process are concurrent tasks on one connection
pool, several processes may share a database, and the Operator archives
Organizations behind the Plugin's back (`archived_at`, resp. `active`; no
product code of the repository sets them, its tests do). An Agent reaches the
Plugin through the Agent Tools Plugin, which forwards its executions as calls
of the same Capabilities.

What is hard: two commands under one key, on one subject or for one slug,
interleaved at their statements; the answer to a refused command leaving before
its rollback; a commit whose acknowledgement is lost and the retry that
follows; a failure or cancellation at any await; archiving at any time; locks
taken in several orders on a pool of few connections; timestamps that order
rows by when their transaction began; a chain of guarded statements that must
come to exactly one answer; pages read while their rows come and go; a
deactivate between the making and the polling of a call, or in the middle of a
prepare; a crash in the middle of a migration while the old program still
writes; an answer that crosses builds and lanes; an error told to an Agent that
may already have changed something.

What makes each part correct:

- *Commands, on either storage*: each takes effect indivisibly between call and
  answer, at most once per key; confirmations survive, refusals leave nothing
  behind; active slugs and active memberships are unique; every Organization
  keeps its owner; nothing committed is taken back.
- *Postgres transactions*: the above at READ COMMITTED, statement by statement;
  every call returns.
- *D1 batches*: every chain of `WHERE` clauses decides.
- *Membership check*: it says who is an active member, and an owner.
- *Paged lists*: a row that is there throughout a walk is seen exactly once, no
  row is seen twice.
- *Lifecycle*: what is served is neither closed nor left over from before a
  deactivate; a deactivate ends, and leaves nobody in its pool.
- *Migrations*: an upgrade leaves every active Organization its former owners or
  does nothing, and can be tried again.
- *Contracts*: an answer arrives as what it is, or as a failure.
- *Agent Tools*: an error means that nothing was done, its cause is true, an
  intent takes effect once however often it is tried, what was named can be read.

## Modules

```
OrganizationTables      tables, calls, what queries select and statements write
  OrganizationService     the promise: one indivisible step per command
  OrganizationSafety      properties of tables and answers, for any storage
    OrganizationPostgres    transactions of statements, locks, a pool
    OrganizationD1          batches of guarded statements
  OrganizationReads       what the read operations are asked and refuse
    OrganizationLists       a walk over a paged list, while the service serves
    AgentTools              executions of Tools as calls of the service
OrderedScan             the promise of a walk
PluginLifecycle         an Instance: instantiate, prepare, calls, deactivate
SchemaUpgrade           the four Postgres migrations
CapabilityContract      shapes, Domain Errors and their codec
  CapabilityCalls         a call over builds and lanes
  AgentTools
```

Each module `M` with a run has a module `MCM` with its instances, and `MProofs`
with its theorems; `OrganizationServiceProofs` holds those that the two
storages, the lists and the Agent Tools inherit.

`OrganizationService` is what the parts meet in. Both storages are shown to
implement it (`ImplementsService`), so what is built on top, `OrganizationLists`
and `AgentTools`, composes with the service and not with a storage.

### Commands

`OrganizationTables` declares the durable state once: `orgs`, `members` and
`receipts` are the sets of committed rows of the tables (the two receipt tables
are one set, told apart by `family`), `request[c]` is what call `c` asks for and
`result[c]` what it was answered. A call is one invocation, a retry is another
call with the same request. An identifier *is* the call that drew it: every
identifier is 144 random bits drawn by one call, taken to be
unique. `Offered[c]` is the set of requests call `c` may turn out to be, so one
run covers many mixes of commands.

`OrganizationService` is the abstract specification. Each action is a whole
command, its answer included; `Confirm` lets an answer get lost.

`OrganizationPostgres` has one action per statement of the three commands
(`Reserve`, `ReadReplay`, `LockOrganization`, `ReadMember`, `InsertMember`,
`UpdateMember`, `Complete`, `Commit`, ...). `pc[c]` is the statement a call runs
next, `tx[c]` its uncommitted writes, `locks[c]` the row locks and unique-index
entries it holds, `found[c]` the row it read, `began[c]` its
`transaction_timestamp()`. A statement that meets another transaction's lock is
not enabled. `Fail` ends a call at any await (an error, a cancellation or a
crash of its process); `GiveUp` is a `return Ok(Err(..))`: the answer leaves
now, `Rollback` follows. `CommitUnacknowledged` commits and loses the
acknowledgement. `Archive` is the Operator, `Tick` the database's clock.

`OrganizationD1` has one action per batch (`Send`, `Execute`, `Abort`), since
the binding's contract is that a batch is atomic. Within a batch each
statement on the one-row workspace is an operator from row to row
(`AdmitRow`, `MarkConflict`, `LoadReplay`, `RejectOrganization`, ...), composed
in the code's order; `Row(c)` is the row at the end, and `Write` and `Record`
are the statements that write the tables from it. `prepared` and `verifying`
are what `ready()` depends on.

### Paged lists

`OrganizationLists` runs one client over one list next to `ServiceNext`. `walk`
is its request, `cursor` the rank of `next_cursor`; `rank` gives the random
identifiers an order, since the lists are ordered by the identifiers' text.
`ReadPage` is one page: `Rows` are those the `WHERE` and `JOIN` select, `Beyond`
the cursor comparison, the inner `Firsts` what is shown of the outer `Firsts`
fetched (`LIMIT n + 1`), `HasMore` and `LastOf` the next cursor. `RefuseWalk`
has the handlers' refusals in their order (`OrganizationReads`). A page is one
statement, or, in the Postgres `list_members`, two under one REPEATABLE READ
snapshot: one read of what is committed, on either storage. `seen` and `stable`
are history. `OrderedScan` is the abstract specification: a page reports
exactly what lies between two cursors.

### Lifecycle

`PluginLifecycle` is one Instance of the Postgres Plugin. `state` is the shared
cell, `callPool[c]` and `taken[d]` what a call and a deactivate took of it when
they were *called*; each goes on when it is *polled*, and any may be dropped at
an await (`DropCall`, `DropDeactivate`, `FailPrepare`). A pool is named after
the prepare that opened it; `closed` are those whose `close()` has begun, and
`EndDeactivate` waits until their connections have come back. The D1 Plugin
holds a flag instead of a pool; what `ready()` depends on is in
`OrganizationD1`.

### Migrations

`SchemaUpgrade` has one action per statement of the migrations that matters to
what follows (`AddIsOwner`, `ProjectOwners`, `CheckOwners` or `RefuseUpgrade`,
`DropRoles`, ...). `schema` is committed, `work` what the open transaction sees.
The kit that runs the migrations is external: a transaction may span one or
several of them, an error rolls it back, one upgrade runs at a time. The old
program writes until `ALTER TABLE` locks it out (`Locked`); it may still archive.

### Contracts

`CapabilityContract` has of each operation the required fields, the Domain
Errors, and the codec of errors: a known one is a string, `Unknown` an object.
`CapabilityCalls` takes a call down a `route` of programs, of this build or a
later one that adds operations, errors and fields, and its answer up again.
`Descend` and `Reject` are the endpoints' dispatch, `Typed` the native
downcast, `Received` what a client makes of an answer. Kernel and lanes are
external: a lane between neighbours carries native values or portable text, and
may fail before or after the call was handled (`Lose`).

### Agent Tools

`AgentTools` follows executions of the six Tools: `Misuse` (no such Tool, bad
arguments), `Send`, `Serve` or `ServeRead`, `Tell` with the six error mappings,
named as in the code. The Agent retries an intent under the same idempotency
key while it is told of failures, as the Tools' descriptions ask it to
(`Earlier`, `MayStart`). The failure may be told while the call goes on:
`Abandon` is an await that is dropped, expires or loses its lane, be the request
still queued, a transaction running or a D1 batch in flight (the D1 binding's
`JsFuture` can be dropped or rejected at any time). `Serve` then executes the
call at any later time, after the retry was executed and after other commands
were, and nobody is told of it. A code of `forgotten` reaches the Tool as
`Unknown`, which is what `CapabilityCalls` shows a contract on the way can make of it.

### Differences from the code

And why they do not matter to the properties:

- READ COMMITTED is modelled by what the statements rely on: each sees what is
  committed when it runs, waits for row locks and for uncommitted entries of
  unique indexes, and sees the row's latest version after the wait.
- Foreign keys, the receipts' key in D1, and D1's unique indexes are not guards:
  `ReceiptsSound`, `MembersHaveOrg`, `ActiveSlugUnique` and
  `OneActiveMembership` show that they never fire.
- An answer that is lost is `Failed`, given in the step that commits. In the
  storage modules a caller told of a failure earlier than that, while the commit
  is still under way, changes nothing: no other call of theirs waits for an
  answer. In `AgentTools` one does, the retry, and there a failure may come at
  any time before the effect (`Abandon`).
- A membership command may name an Organization that is created later; the code
  cannot know the identifier but a client can guess it.
- `next_membership_revision` cannot overflow: a membership is revised once
  (`RevisionTellsState`).
- The workspace row of D1 exists only inside a batch: the batch deletes it first
  and last.
- Names are three values with a `Trim`; validators are the flag `valid`.
- Where ownership came from an upgrade, an Organization may have several active
  owners, and removed rows of revision 1: `RevisionTellsState` and the theorem
  about the owner's check speak of tables the Plugin filled itself.
- A Domain Error keeps its code; payloads, and what else an `Unknown` carries,
  are left out. Optional values are required fields that may be null, as in the
  contracts.
- A failed read of a list changes nothing and the client sends the same cursor
  again, so it is no step.

## Runs

| Run | Question | Distinct states |
|---|---|---|
| `creation_race` | four calls race for a slug and a key with names equal up to blanks, or add, remove and add again at whatever times: are slugs unique, conflicts real, refusals clean, and is the owner always confirmed? | 1 771 270 |
| `membership_race` | a creation and three membership commands on one subject, under shared and separate keys: do the transactions implement `OrganizationService`, and are its properties kept? | 156 088 |
| `liveness` | with two connections for four calls, do calls never wait for each other in a circle, and does every call return? | 121 404 |
| `check_violation` | is an active member always found? (violated) | |
| `order_violation` | is the Organization locked before the key is reserved, as the Plugin card says? (violated) | |
| `d1_commands` | does every batch decide, do batches implement `OrganizationService`, is the membership check right? | 207 864 |
| `list_walks` | is every stable row listed, nothing twice, does the walk implement `OrderedScan` and end? | 801 516 |
| `lifecycle` | is what is served open and current, does a deactivate end and leave nobody inside? | 282 084 |
| `schema_upgrade` | does an upgrade keep owners, survive crashes and refusals, and end? | 8 283 |
| `capability_calls` | does every answer arrive as what it is, over every route? | 72 701 |
| `agent_tools` | does an error told to an Agent mean that nothing was done, is its cause true, does a retry do nothing twice though the try before it may still be running, and is what was named readable? | 1 193 187 |
| `agent_violation` | are two refusals of one Tool told apart? (violated) | |

### Bounds

- *Commands.* Three or four calls are enough for the interesting schedules: a
  property about two racing commands needs the creation of their Organization,
  the two, and one that changes the subject in between; re-adding needs four
  (create, add, remove, add). Two subjects are an owner and another; two slugs
  and two callers are a shared and a different one. `PoolSize` 3 lets three
  transactions overlap, 2 (`liveness`) makes calls wait for connections.
  `MaxTime` 1 lets a transaction begin before another; where no property reads
  `began` it is 0.
- *Lists.* One and two rows to a page over up to three rows: full, partial,
  last and empty pages, and a row added or removed before, at and beyond the
  cursor. Two orders of the identifiers: that of the calls, and a mixed one.
  Seven walks that are served, whole or filtered, one for each refusal, and two
  over lists that are not there or empty.
- *Lifecycle.* Two prepares, calls and deactivates: each can overlap one of its
  own kind. One connection makes the second call wait. The configuration is a
  good one, or fails one check.
- *Migrations.* Two Organizations, three memberships, so that one Organization
  may have two owners; `MaxMishaps` 2, for a crash and a write of the old
  program, or two of either. The old rows may be any.
- *Contracts.* Routes of two to four programs, so that a build that forwards may
  stand between two that differ from it; every mix of builds and lanes; the
  later build extends some operations by an error, some by a field, some by
  both, and has one of its own.
- *Agent Tools.* A creation, an add, a third mutation and its retry, and one
  read. Two commands of one intent show every schedule of a lost answer, and of
  a try that is abandoned and overtaken by its retry and by the add; the read may
  come before, between and after. The third mutation adds or removes, meets the
  owner, a used key or a refused caller, or is invalid; its code `invalid_request`
  is unknown on the way, the others are known. `slug_conflict` comes up in the
  theorems only.

The theorems below have none of these bounds.

`CHECK_DEADLOCK FALSE` everywhere: once every call has been answered, the walk
or the upgrade has ended, the system rightly stops. That nobody waits for ever
is what `NobodyIsStuck`, `EveryCallSettles`, `WalkEnds`, `CallsSettle`, `DeactivateEnds` and
`UpgradeEnds` say.

### Fairness

- *Commands* (`FairSpec` of `OrganizationPostgres`): weak fairness of each
  call's `Step`: its task is polled, each of its statements is answered, a
  dropped transaction is rolled back. Nothing is assumed of failures, of lost
  acknowledgements, of the Operator or of the clock. Weak fairness is enough
  although locks are taken by others: a lock or a connection, once free, may be
  taken again, but only by calls that have not settled, and there are finitely
  many.
- *Lists* (`FairSpec` of `OrganizationLists`): the client asks for the next page
  for as long as it is given a cursor. Nothing is assumed of the commands.
- *Lifecycle* (`LifeFairness`): the runtime polls each call and deactivate until
  it ends, and what a call waits for comes or fails: a pool has an acquire
  timeout, a connection answers or breaks. Nothing is assumed of prepares, nor
  of when the kernel calls or drops.
- *Migrations* (`UpgradeFairness`): the upgrade runs on and the Operator tries
  again (weak); it repairs, between two tries, what the last one was refused
  for (strong, since a try that locks the tables disables the repair again and
  again). Without a repair an upgrade of unowned Organizations is refused for
  ever, as the migration means it to be.

### What an error does not say

An error told to a retry speaks of the tries that the Organization Plugin was
done with. One that was abandoned while it was under way can take effect after
the error: c3 removes s2 and its D1 batch is delayed, the Agent is told of a
failure, its retry c4 finds no member and is told `not_found`, c2 adds s2, and
then the batch of c3 removes s2. No document of the repository promises
otherwise, so this is no finding; `ErrorsMeanNothingDone` says how far an error
goes. It is final where its cause stands (`permission_denied`,
`invalid_arguments`, `idempotency_conflict`, `owner_protected`), and before a
cause that can pass (a slug that is taken, a row that is not there) it is final
for every try that is done. What holds in every order is
`IntentsTakeEffectOnce`: one try takes effect at most, and no other is refused
after it. On Postgres the window is smaller than in the model, since a
transaction that has reserved the key makes its retry wait.

### Findings

- `check_violation`. `check_membership` of the Postgres Plugin takes the newest
  row by `created_at`, which is the *begin* time of the inserting transaction.
  c4 begins; c2 adds s2 and commits, c3 removes s2 and commits, c4 adds s2
  again and commits. The active row is older by `created_at` than the removed
  one, and every check answers that s2 is not a member, until s2 is removed and
  added once more. The D1 Plugin orders by an insertion sequence and is right
  (`CheckTellsMembership`); an owner has a single row and is always confirmed
  (`OwnerAlwaysConfirmed`).
- `order_violation`. The Plugin card (`docs/plugin-card.md:49-51`) says that the
  membership commands lock the active Organization and then reserve the command
  identity. The code reserves first: this is what lets a retry be answered after
  its Organization was archived, so the card is what should change.
- `agent_violation`. The card of the Agent Tools
  (`docs/plugin-card-agent-tools.md:20-21`) says that the adapter preserves
  Domain Errors. `remove_member` maps `membership_not_found` and
  `organization_not_found` both to a bare `NotFound`: an Agent cannot tell an
  Organization that does not exist from a member who is not there.

## Proofs

All theorems hold for every value of the constants under the assumptions of
their modules: of the commands `TrimAssumption` (trimming twice is trimming
once), `OfferedAssumption`, `PoolAssumption`, `TimeAssumption` and, for D1,
`NullAssumption`; of the rest, the types of the constants (`RanksAssumption`,
`WalksAssumption`, `LifecycleAssumption`, `UpgradeAssumption`,
`RoutesAssumption`, `ReadAssumption`) and that `Earlier` is transitive and never
names the execution itself (`EarlierAssumption`).

*Service* (`OrganizationServiceProofs`). `RowInv` is the inductive invariant of
the tables: rows are named after answered calls (`IdsSpent`), so a new row's
identifier is new, and with it identifiers are distinct, members have their
Organization, and the uniqueness properties hold. `ServiceInv` adds what
receipts and answers say of each other: every receipt and row stems from a call
that took effect under the receipt's key (`ReceiptsHaveCalls`, `RowsHaveCalls`),
and one call per receipt claims the change (`OneChange`). From them
`ServiceCallsCorrect`, `ServiceRowsCorrect` and `ServiceNeverTakesBack`.

*Postgres* (`OrganizationPostgresProofs`). The committed tables say nothing of
what a transaction has read, so `Inv` adds, for each statement a call may
stand at, what it knows (`SessionInv`) and which lock keeps that so while others
commit: the receipt's lock keeps its key unused, the slug's entry keeps the
slug free, the Organization's lock keeps the Organization active and its
subjects unchanged; `LocksExclusive` makes these locks mean something. `Inv`
gives `TypeCorrect`, `Refinement` (each commit is one action of the service,
every other step stutters) and the three properties of transactions on their
way (`IndexNeverDecides`, `RemovalsMeetTheirRows`, `CommitsMeetActive`).
Through `Refinement` the Plugin inherits all theorems of the service, and with
them `OwnersAlone`: the subject of an owner's row has no other row in its
Organization, because nothing removes an owner and nothing adds an active
member. So the owner's row is the newest whatever `began` says, which is
`OwnersConfirmed`.

Deadlock freedom (`NoDeadlock`) has an invariant of its own. `Rank` orders the
locks as the statements of every command take them: receipt, then slug or
Organization, then membership. `Level` is the rank a call may wait for at its
statement, with the connection at the bottom and nothing on top. `LocksClimb`
says that a call has only taken locks that rank below its level, so whoever it
waits for stands on a higher level, and on the highest level of any set of calls
nobody waits for another of the set. This is the safety half of
`EveryCallSettles`, for any number of calls and connections.

*D1* (`OrganizationD1Proofs`). `RowOutcome` follows the row through the chain of
statements and shows that it comes to one of the service's cases; `Refinement`
and `BatchesDecide` rest on it. Through `Refinement` the D1 Plugin inherits the
same theorems about rows, retries, receipts and refusals as the Postgres Plugin,
under the same names; `BatchesNeverTakeBack` is its action property.
`ListInv` (the active row of a subject has its greatest sequence number) gives
`ChecksTellMembership`.

*Lists* (`OrganizationListsProofs`). `ListInv` is `RowInv` with `Passed`: whatever
stable key lies at or before the cursor has been listed, and nothing listed
lies beyond it. `KeysDistinct` has the lists' keys be keys, for the workspaces
because active memberships are unique; `MiddlePage` and `LastPage` say what the
two `Firsts` of a page come to, from the cardinalities of finite sets. With
`RankFunctions` one-to-one, `StableRowsAreListed`, `KeysListedOnce` and
`ListsImplementScan` follow, for pages of every size.

*Lifecycle* (`PluginLifecycleProofs`). `LifeInv` adds to the properties that a
prepare which has not published is known to nobody and counts as current
(`PreparingIsNew`), that a call past its first poll holds a pool, and that what
a deactivate closes is closed. From it `ServedPoolsCurrent`,
`DeactivatesQuiesce` and `StaleCallsNeverAnswered`.

*Migrations* (`SchemaUpgradeProofs`). `UpgradeInv` adds what the open transaction
has established at each statement (`WorkTellsStep`, `WorkIsOwned`) and, by
`Locked`, that the old program cannot undo: archiving only makes less to own.
From it `UpgradesKeepOwned`, `UpgradesKeepOwners` and `VersionsTellSchema`. With
`WorkIsAhead` (what is about to be committed is ahead of what is) follows
`MigrationsAreWhole`: the committed schema only ever moves forward by whole
migrations, in steps that touch no row.

*Contracts* (`CapabilityCallsProofs`). `AnswerArrives` is inductive with
`LanesFit`, which has neighbours on a native lane be of one build, so that an
`Unknown` of one is one of the other; and `Handled`. `AnswersArrive` holds for
every route and every extension. For routes of one build, `FieldsFit` says that
what is passed on has the fields of the contract it is passed on by and that the
Provider answers errors of its own contract; then no endpoint rejects, no client
fails to decode (`NothingRefused`), and `SameBuildsUnderstand` follows.

*Agent Tools* (`AgentToolsProofs`). `ToolInv` joins `ServiceInv` with what stages
and replies say: a call that changed a table left its receipt
(`EffectsLeaveReceipts`), receipts stay, and a refusal means that the intent has
none or that the caller was never admitted (`RefusalsMeanNothingDone`, from
`Outcome` of every service action). Tries of one intent ask the same
(`TriesFollow`), and one that was told to have failed is settled or abandoned
(`StagesTell`). Where a try took effect, every other finds the receipt of its own
intent, and `Outcome` leaves it nothing but the replay or a failure:
`IntentsTakeEffectAtMostOnce`. `RefusalsInContract` (the service
refuses with errors of the operation's contract) and `AnswersPassOn` (a reply is
what the mapping makes of the answer of its call) give `ToolCausesAreTrue`; only
there the mappings are expanded, error by error. `CausesStand` says of four
causes what no later step undoes: the caller is not admitted, the key's receipt
is another intent's, the subject is the owner. A try that took effect after all
would have left a receipt that denies it, for the owner one of a second revision
(`RemovalsRevise`) of a row that has had none. With the causes of the replies
this gives `ToolErrorsMeanNothingDone`, abandoned tries included. `NamedExist`
(Organizations that answers, replies and executions name are in the table) and `MissesAreNew`
(a read that was answered `not_found` had not been told of its Organization)
give `ToolsFindWhatTheyTold`, from the service's receipts naming rows and its
deleting none.

Only model-checked is liveness: `EveryCallSettles`, `WalkEnds`, `CallsSettle`,
`DeactivateEnds` and `UpgradeEnds` rest on fairness, that is on ENABLED, which
is out of the prover's reach. Every other property of the runs that pass is a
theorem.

`WholeMigrations`, `RefusalsInContract`, `RevisionTellsState` and the type
invariants other than that of `OrganizationPostgres` are only proved.

## Not modelled

- D1 configuration and schema plan: `validate` and `instantiate` are decisions
  without state, and the plan is one migration that the external
  `lenso-migration-d1` installs and verifies.
- The late flag of the D1 Plugin: a prepare that awaits its verification sets
  the flag again after a deactivate. Nothing was closed, and batches executed
  after a deactivate are part of `OrganizationD1`; no property forbids them.
- Verification of the Postgres schema at prepare is one outcome of
  `PluginLifecycle`; how the external kit compares catalogues is left out, as is
  that it serialises upgrades.
- The validators' character classes and length limits: data no property
  distinguishes. A request is valid or not.
- The Agent Tools' catalogue: constants (names, schemas, execution classes).
- Revisions and counters at the end of the integers: a membership is revised
  once, D1's sequence numbers are 64 bits wide.
- The secrets fixture, the Workers smoke test, packaging and CI: test support
  and tools.
