# TLA+ models of terraform-provider-clickhousedbops

The provider manages ClickHouse objects from Terraform. Most resources send one
statement to one server. The schema resources (`clickhousedbops_table`, `view`,
`materialized_view`, `dictionary`, `table_contents`) can be *fanned out*: the
provider reads and changes every node of a cluster itself, one after the other,
while Keeper replicates part of what it does and other clients keep working. On
top of that, `enforce_sql_plan` promises that an apply sends only the SQL the
operator has reviewed. The other half of the provider are resources for
entities of the server, from roles to named collections, and for grants: one
statement each, but between reads that may come too early or too late, on names
that move. The models follow these three: fan-out, reviewed plans, entities.

Contents: [parts of the system](#parts-of-the-system) ·
[modules](#modules) · [runs](#runs) · [bounds](#bounds) · [fairness](#fairness) ·
[proofs](#proofs) · [findings](#findings) ·
[what is not modelled](#what-is-not-modelled) · [plan](#plan)

## Parts of the system

| Part | State it keeps | Operations | What makes it correct |
|---|---|---|---|
| Node convergence `pkg/resource/schemahelpers/nodes.go` | none between calls: Terraform's state, the nodes | `PlanNodeStates`, `ReadNodes`, `ConvergeNodes`, `DeleteNodes` | success means every node holds the object; a failed node leaves a plan that finishes the work; nothing foreign is touched without adoption |
| Table resource `pkg/resource/table/table.go` | Terraform's state (`force_destroy`, attributes) | `ModifyPlan`, `Create`, `Read`, `Update`, `Delete`, `convergeTable`, `recreateOnNode`, `guardDataLoss` | no rows are dropped unless `force_destroy` allows it; a new replica declares what Keeper holds; a replicated ALTER runs once |
| Column planner `table/planner.go`, `table/sqlpreview.go` | none | `planTableUpdate`, `planColumnUpdate`, `applySafeRenames`, `previewUpdatedTable` | the action groups fit each other and reach the configuration; the preview shows what they do; unmanaged columns stay |
| Other schema resources `pkg/resource/view`, `materializedview`, `dictionary` | Terraform's state | the same closures for `ConvergeNodes` | as above |
| Table contents `pkg/resource/tablecontents`, `dbops/tablecontents.go` | Terraform's state (a checksum) | `ReplaceTableContents`: stage, insert, replace partitions, drop partitions | every partition goes from its old to its declared rows; a failed replacement is finished by the next; the state tells when nodes differ |
| Schema objects `dbops/schemaobject.go` | none | `GetTable`, `CreateTable`, `AlterTable`, `TableRows`, `DeleteTable`, and for views and dictionaries | what is parsed from `create_table_query` is what was created |
| Node discovery `dbops/schemanodes.go` | node list and connections, cached per client | `SchemaNodes` | every node of the cluster, in a stable order |
| Waiting for ALTERs `dbops/alterwait.go` | none | `waitForAlter`, `waitForReplicaMetadata`, `mutationsSince` | an ALTER is over only when all replicas of the table have applied it |
| Reviewed SQL `clickhouseclient/sqlplan.go`, `pkg/provider/sqlplan.go` | `SQLPlan` of a call: operations, positions, preview; `sql_plan_digest` in Terraform's state | recording, `Exec` under enforcement, `PlanResourceChange`, `ApplyResourceChange` | only reviewed writes, each at most once, in order on each target |
| Read after write `dbops/retry.go` | none | polls until an entity is visible | what was created gets into the state, and nothing else |
| Grants `dbops/grantprivilege.go`, `dbops/grantrole.go`, `internal/grants`, resources | Terraform's state | grant, read, revoke; coverage of one grant by another | what the state records is held; a grant that adds nothing is told, not recorded; resources of one apply do not undo each other's grants |
| Access entities: users, roles, profiles, settings, row and masking policies, named collections, databases | Terraform's state (id or name) | create, read by id or name, rename, alter, drop | the entity of the state is the one that is changed; success means applied; an empty plan hides no difference |
| Query builder `internal/querybuilder`, transports `clickhouseclient/native.go`, `http.go`, provider configuration `pkg/provider` | none after start | text, input and output | – |

**How they interact.** Terraform core calls a resource for a plan
(`ModifyPlan`), plans once more while applying, and then calls `Create`,
`Update` or `Delete`; nothing in core or the provider locks the cluster in
between. A resource calls `ConvergeNodes` with closures that read, create and
reconcile one node; these call `dbops`, which builds statements and sends them
through a client. With `enforce_sql_plan` the client is wrapped: the same
resource code runs in a plan with a client that records statements and shows
the simulated object to later reads, and in an apply with a client that
compares each statement with the recorded list before it sends it. The
resources of access entities, grants and table contents call `dbops` directly;
several of them run at the same time, and meet only on the server. Keeper and
the replicas act on their own.

**What is hard here.** Reads and statements of other clients fall between any
two calls of the provider. Every call may fail before or after it took effect,
and there is no rollback. An ALTER reaches other replicas later than the answer
(`alter_sync = 0`), some parts of a table are replicated and others are not. A
plan may be applied to a cluster that has changed, and the apply re-computes
what was reviewed. A SELECT may be answered by a replica that has not caught up with
the statement before it. A name may belong to another entity than it did when
the state was written. `PROJECT.json` lists these hazards by line.

## Modules

| Module | Models | Extends |
|---|---|---|
| `TableCluster` | the nodes, Keeper and what statements do to them; everything in it is outside `src/` and taken from how `dbops` and the table resource use it | |
| `NodeConvergence` | a table resource under `fanout_cluster`: plan, `ConvergeNodes` with the closures of `convergeTable`, `guardDataLoss` and `DeleteNodes` | `TableCluster` |
| `SQLPlan` | `enforce_sql_plan`: recording, preview, re-plan, enforcement, for any resource given as constant operators | |
| `ReviewedTable`, `ReviewedView` | a table and a view as `SQLPlan` sees them | |
| `ColumnPlanner` | how `planColumnUpdate` turns a difference in columns into four ALTERs, and what `previewUpdatedTable` makes of them | |
| `DeclaredContents` | what `table_contents` promises, as an abstract specification | |
| `TableContents` | `table_contents`: plan, staging table, swap and drop of partitions on node after node, checksums of all nodes; with review and without | instantiates `DeclaredContents` |
| `AccessEntities` | what the handlers of roles, users, settings profiles, row and masking policies and databases send and what they make of a row: pure operators | |
| `NamedCollections` | the same for named collections, with plain, secret and flagged keys | `AccessEntities` |
| `ManagedEntity` | one such resource, any kind, call by call, against other clients and a lagging replica | `NamedCollections` |
| `Grants` | several `grant_privilege` and `grant_role` resources of one grantee, at the same time | |
| `MCNodeConvergence`, `MCSQLPlanTable`, `MCSQLPlanView`, `MCColumnPlanner`, `MCTableContents`, `MCManagedEntity`, `MCGrants` | constants of the runs; `MCSQLPlan*` compose `SQLPlan` with a resource | the above |
| `NodeConvergenceProofs`, `SQLPlanProofs`, `TableContentsProofs`, `ManagedEntityProofs`, `ManagedEntitySuccess`, `GrantsProofs` | theorems | the above, `TLAPS` |
| `ColumnListProofs`, `ColumnPlannerProofs` | lemmas on lists of columns, and the theorems on `ColumnPlanner` that rest on them | `ColumnPlanner`, `TLAPS` |

Definitions whose comment begins with "Bug:" are variants that the properties
must tell from the code; no specification uses them.

### NodeConvergence

A node has a table or none. A definition is split by how ClickHouse treats it:
`key` cannot be altered, `cols` is altered through Keeper on a replica,
`settings` belongs to one replica. The half of `cols` called `unmanaged` is what
`unmanaged_columns` hides from the provider. `Lags(n)` says that replica `n`
has not applied what Keeper holds yet.

The provider's program counter `pc` follows the loops of `nodes.go`:

| `pc` | Code | Actions |
|---|---|---|
| `survey` | first loop of `ConvergeNodes`: read every node | `Survey`, `SurveyDone` (an object that may not be adopted is an error) |
| `reread` | an existing node is read again, because an earlier ALTER may have reached it | `SkipMissing`, `ReconcileInPlace`, `ReconcileByRecreate`, `ReconcileRefused` |
| `alter`, `wait` | one ALTER per action group, then `waitForReplicaMetadata` | `Alter`, `AlterGone`, `Wait`, `WaitTimeout`, `Reconciled` |
| `recreate`, `redrop`, `recreated` | `recreateOnNode`: count rows, drop, create | `RecreateAllowed`, `RecreateRefused`, `RecreateDrop`, `RecreateCreate` |
| `create`, `creating` | second loop: read the reference of the shard, create | `SkipExisting`, `ReadReference`, `CreateMissing`, `CreateRejected` |
| `final` | the object is read back and the state stored | `Final` |
| `guard`, `drop` | `guardDataLoss` and `DeleteNodes`, each over all nodes, collecting errors | `Guard`, `GuardDone`, `DropNode`, `DropNodeFails`, `DropDone` |

`CallFails` and `AnswerLost` end an operation at any call; a killed provider
process leaves the same behind. `OtherClient` inserts, drops, creates and alters
between any two steps. `Refresh`, `PlanCreate`, `PlanUpdate`, `PlanReplace` and
`PlanDestroy` are the decisions of `Read` and `ModifyPlan`, each taken in one
step: their reads change nothing, and the apply reads again.

Variables marked "history" are not part of the program. `disturbed` says that
another client changed the table during the operation; `unseen` is the set of
nodes another client changed after the last check of their rows; `altered`
counts the ALTERs sent through a Keeper path.

Abstractions: the ALTERs of one kind count as one that reaches its goal
(`ColumnPlanner` shows that this is so up to the order of columns), settings are
one value, a mutation that fails after the statement is a lost answer.

### SQLPlan

The resource code that a plan records and an apply enforces is the same, so the
actions of `ConvergeNodes` and `DeleteNodes` are there once; `Exec` is
`Record` or `Perform` depending on `stage`. `operations`, `positions` and
`preview` are the fields of the Go `SQLPlan`. A call sequence is
`MakePlan … Planned`, then `StartApply`, for a replacement the enforced drops,
then the re-plan (`Replan … Replanned`), then the enforced apply.

- A digest is taken for collision-free: the model keeps the list itself.
- Terraform core is external: a saved plan is stale when the state is another
  (`StartApply`), and the re-plan must agree with the planned digest and known
  attributes (`Bound`). A plan may be tried again after a failed apply that left
  the state alone.
- The survey is one step here and one per node in `NodeConvergence`; the steps
  of a preview interleave with other clients.
- Rows, lagging replicas, settings of unmanaged parts are in `NodeConvergence`
  only.

### ColumnPlanner

Columns are a sequence of names with the kind of their default expression. The
state machine is one `Reconcile`: it reads the table, computes `ActionGroups`
(renames, adds, modifies, drops) and the preview, and sends one ALTER per
group. `PlanColumn` is one turn of the loop of `planColumnUpdate` on the
simulated order (`Planned` is the loop, a fold over the configured columns);
`PreviewColumn` is one turn of the loop of
`previewUpdatedTable` on the physical one. `AlterTable` is what the server does
with the actions. Type, codec, TTL and comment of a column are left out: they
differ or not, as a default expression does, and have no order.

### TableContents and DeclaredContents

`table` is what each node holds, by partition; `kept` is what all replicas will
hold once they have caught up. `replicated` and `enforced` are chosen once: the
nodes are replicas of one table or tables of their own, and `enforce_sql_plan`
is on or off. A write walks the nodes as `write` does (`NextNode`), and on each
one follows `ReplaceTableContents`: `Stage` (drop a leftover, create, insert),
`ListPartitions`, one `Swap` per `REPLACE PARTITION`, one `Drop` per
`DROP PARTITION`, `NodeWritten` (the deferred drop of the staging table). Then
`nodesChecksum` reads node after node (`Look`), and `Read` or `write` make the
state of what was seen. A failing call, a killed provider, replication and
statements of other clients fall between any two steps. A checksum stands for
the rows it was computed from. A saved plan whose apply failed is made anew.

`DeclaredContents` knows of no nodes in turn, staging tables, skips, plans or
retries: rows change only from what a partition held to what is declared, and
the state claims what every node was seen to hold or that they differ.

### AccessEntities, NamedCollections and ManagedEntity

The handlers of seven kinds of resource have the same shape and differ in what
they do with a row. `AccessEntities` and `NamedCollections` have what differs,
one operator per function: `CreateRole` is the entity a `CREATE ROLE` makes,
`UpdateRole` what the ALTER makes of an entity, `GetRole` the row a SELECT
returns, `RoleRead`, `RoleCreated`, `RoleUpdated` and `RoleImported` the states
that `Read`, `Create`, `Update` and `ImportState` store. `ManagedEntity` has the
shape: `Begin` starts an operation, `Find` (by name), `Lookup` (by id) and
`Elements` (the second SELECT of a settings profile) are the SELECTs,
`Write` is the statement, `GiveUp` the deadline of `retryWithBackoff`.
`Arrive` and `Missing` say what each operation does with a row, and without.
`Create` of a database asks for its row a second time (`SyncsAgain`).

`Read` of a row or masking policy sends one SELECT more: it asks the server for
the normal form of the expression in the state, to compare it with the row's
(`Asks`, `Normalize`). That call is the one of all whose failure is not the
failure of the refresh (`NormalizeFails`): the expression of the state is kept,
compared or not; see "Compared with nothing" under [findings](#findings).

`server` has the entities, `view` the copy that SELECTs are answered from: a
replica of the access storage that `CatchUp` brings up to date. Other clients
create, rename, change and drop entities. Terraform core is external: a state
that is not as planned is an error and taints what was created (`Record`).
"History" variables say whether the view was current (`fresh`, `synced`),
whether others acted (`disturbed`), both for the whole way from a refresh to
the end of its apply (`sure`), and whether the last refresh had an answer from
`NormalizeExpression` if it asked (`compared`). A refresh leaves a tainted state
tainted.

What the models tell of the code's data: the server prints a row filter or a
masking condition in another form than it was written in (`Normal`), prints
masks so that only their fingerprint can be compared, and hides the values of
named collections.

### Grants

`server.on` has the rights of the grantee on everything and on each database;
a right is a privilege with or without the option to grant it on. A GRANT reaches
what lies in its scope, a REVOKE on a database punches a hole in a grant on
everything. `Rows` is what `system.grants` shows of it: own rows for what is
granted with the option, and a group as one row or as its members, depending on
`grouped` (the server's version). `Check`, `GrantStatement`, `Match`, `Covered`
and `Retry` are the calls of a create; a replacement revokes first. Resources
run at the same time. Databases stand for all that narrows a grant.

## Runs

| Run | Module, configuration | Properties | States | Shows |
|---|---|---|---|---|
| `conv_replicated` | three replicas of one Keeper path in two shards of the cluster; adopt and update; one fault, one change by another client | `TypeOK`, `SuccessMeansConverged`, `NewReplicaAccepted`, `StructureAlteredOnce` | 220 000 | success leaves the configured table everywhere, a joining replica is accepted, one ALTER per path and apply |
| `conv_lifecycle` | two nodes of a local table; all configurations, one edit, one fault, one change by another client | `SuccessMeansConverged`, `DestroyedMeansGone`, `ForeignTablesUntouched`, `RowsKept` | 118 000 | create, replace, recreate and destroy keep rows and foreign tables, and end where they say |
| `conv_liveness` | three nodes, two shards, a Keeper path per shard | `EventuallyConverged` | 423 000 | applying again after failures gets every node there |
| `conv_insert_race` | two local tables, one insert | `RowsKeptUnderInserts` | violated | finding 1 |
| `conv_shared_new` | as `conv_replicated`, without faults or changes | `JoiningReplicaAccepted` | violated | finding 2 |
| `sqlplan_table` | two replicas, adoption, alterations, replacement, drop | `TypeOK`, `ReviewedWritesOnly`, `UndisturbedPlanApplies`, `EventuallyApplied` | 336 000 | only reviewed writes; review blocks nothing while nobody interferes; the operator gets there |
| `sqlplan_view` | two views, no adoption, replacement in place | `ReviewedWritesOnly` | 103 000 | the same for a resource whose update is CREATE OR REPLACE |
| `sqlplan_empty` | one view whose columns leave the configuration | `EmptyPlanWritesNothing` | violated | finding 3 |
| `columns` | every table of up to three columns against every configuration of up to three | `TypeOK`, `PreviewAgrees`, `StatementsAccepted`, `AppliedUpToOrder`, `OrderIgnored`, `UnmanagedKept` | 689 000 | the planner reaches the configuration, in order at the second apply; preview and execution agree |
| `access` | one resource of seven kinds; two names, three ids; one edit or destroy, two statements of others, one failing call, of the reads, the statement or the normalisation, a lagging replica | `TypeOK`, `SuccessMeansApplied`, `SurePlanApplies`, `DriftSeen`, `OnlyOwnEntity`, `DroppedMeansGone` | 3 026 000 | the entity of the state is the one that is read, changed and dropped; success, empty plans and destroys mean what they say, but for an expression that was not compared |
| `contents` | two nodes, replicas or not, reviewed or not; two partitions; one edit, one statement of others, one failing call | `TypeOK`, `QuietWriteSucceeds`, `DriftSeen`, `NeverEmptied`, `ImplementsDeclared`, `EventuallyHeld` | 240 000 | the write in many steps implements the promise in one; it is never refused without a cause; the operator gets there |
| `grants` | two resources: disjoint, nested, group and member, source and role, with and without the option | `TypeOK`, `RecordedMeansHeld`, `CoveredNotRecorded`, `CoveredTold`, `EventuallySettled` | 105 000 | concurrent grants do not undo each other; coverage is told; every resource settles |

`CHECK_DEADLOCK FALSE` is set where the system may really stop: once the bounds
on faults, edits and changes are used up and the plan is empty, nothing is left
to do.

## Bounds

- **Nodes.** Two suffice for one node to fail, lag or differ while another has
  been changed. Three are needed for a shard of two and another shard, hence for
  a new replica with and without a mate (`conv_replicated`, `conv_liveness`).
- **Values.** A part of a definition has the configured value or another one;
  the code only ever compares for equality. The start tables of
  `conv_lifecycle` include one for each reason a table cannot be altered.
- **`MaxFaults = 1`, `MaxDrift = 1`.** One failing call at any point of any
  operation, including the retries after it, and one change by another client
  between any two steps. After the operation ended the result is a start state
  of the next, and the initial states include every mixture of tables.
  `sqlplan_table` has `MaxDrift = 3`, since a plan, its re-plan and its apply
  are three places to interfere with one apply.
- **`MaxChanges`.** One edit of the configuration covers "planned with one,
  applied with another" and, in `conv_lifecycle`, `force_destroy` edited
  together with what needs it. `sqlplan_empty` takes two edits to get from one
  applied configuration to another and back.
- **`access`.** Two names make every exchange of names between the own entity and
  another possible, three ids the old, the new and a foreign entity. Two
  statements of others are what a swap of names takes. Configurations differ in
  the name, in each attribute treated in a way of its own, and in both; those of
  a user also in the hosts, which replace it.
- **`contents`.** Two nodes are one that is written and one that is skipped or
  follows; two partitions are one that is replaced and one that goes, or both.
  After one failing call every later apply starts from a mixture.
- **`grants`.** Two resources are enough for each pair that overlaps. The seven
  declarations are the ways in which two grants can meet, and any of the two may
  be wanted at first. `MaxEvents = 1`: one resource added or removed, or one
  statement of another client, or one failing call, at any point; with two, the
  run takes longer than one can wait for on every change.
- **Columns.** Three columns on each side give a column that moves, one that is
  added beside it and one that goes; with two, the group order cannot matter.
  The five names are: `a`, with every kind of expression; `b`, which an expression
  names, so that it can be neither dropped nor renamed; `c`, never
  configured; `d`, never there at first; `u`, unmanaged. Any table
  meets any configuration at the start, so no action edits the configuration.

## Fairness

`conv_liveness` assumes weak fairness of the plan, of the provider's steps in
`Converge` and `Delete`, and of each replica's `CatchUp`. Provider calls end
because every client call has a query timeout; replicas fetch metadata
from Keeper in the background; and an operator who wants the configuration
applies again while the plan is not empty. Faults and other clients are not
fair, and their number is bounded: the property is about what happens once they
stop. It asks for `adopt_existing`, since a create that failed after it had
created one node leaves an object that only adoption gets past.

`sqlplan_table` needs *strong* fairness of `MakePlan` and `StartApply`. Both are
enabled again and again, between the calls of other plans and applies; the
operator is taken to be somebody who neither plans for ever without applying
nor applies the same refused plan for ever.

`contents` assumes that the provider's steps end, that replicas catch up, and
*strong* fairness of the operator who refreshes, plans and applies again, as
above. It asks that no node lost the table: the provider does not create it.
`grants` assumes weak fairness of each resource's calls and of replication, and
strong fairness of refresh and change per resource: one refresh at a time, and
changes only between refreshes, so either is disabled again and again by the
other. `EventuallySettled` leaves groups out, because a group whose members are
granted elsewhere may wait for its row until the deadline each time. There is no
liveness property of `access`: the replica may lag at every apply, so a
replacement may go on for ever, as it would with the code.

`ColumnPlanner` states the same idea as safety (`AppliedUpToOrder`): an apply
that adds nothing leaves the configured order, and after any apply there is
nothing left to add, so the second apply is the last.

## Proofs

All theorems hold for every value of the constants that satisfies the `ASSUME`
of the module (`ClusterAssumption`, `ConvergenceAssumption`,
`SQLPlanAssumption`, `ContentsAssumption`, the assumptions of `ManagedEntity`,
`GrantsAssumption`, `ColumnAssumption`): any number of nodes, shards, tables, entities, resources
and configurations, any bounds, and for `SQLPlan` any resource whose operators
have the right types. `PlansApply` needs more of the resource, and says it in
three further assumptions of `SQLPlan`. What is still to be sent to a node is
`Due`: the create, or the alterations. `StatementsAssumption`: while no node has
to be replaced, the next due statement of a node is accepted (a create only
after all that exist were altered); it leaves that node one statement less;
and every other node keeps its object or its absence, and needs then a
subsequence of what it needed before. `RemovalAssumption`: a drop removes the
object and brings back no other. `ReadAssumption`: when nothing is due, a
refresh finds the configuration. A statement of a view touches one node; a
column change of a replicated table is done for all replicas, which is the
subsequence. TLC evaluates all three for both resources, in the runs of
`SQLPlan`. `NodeConvergence` has a resource that does not satisfy them: a
shard with several Keeper paths, where a create is not accepted (finding 2). The other assumptions say that the constants are of their types,
that a `None` is not a value, and what the code or ClickHouse makes sure of: a
configuration of a named collection has passed `ValidateConfig`, a group of
privileges has members, a role is granted on no database. One is a restriction:
where the server shows the values of named collections, none of them is
literally `[HIDDEN]`, the text by which the provider knows a hidden one
(`HiddenAssumption`).

| Theorem | Statement |
|---|---|
| `NodeConvergenceProofs!TypeCorrect` | `Spec => []TypeOK` |
| `NodeConvergenceProofs!ForeignTablesSafe` | `Spec => ForeignTablesUntouched` |
| `NodeConvergenceProofs!RowsSafe` | `Spec => RowsKept` |
| `NodeConvergenceProofs!DestroyedGone` | `Spec => []DestroyedMeansGone` |
| `NodeConvergenceProofs!SuccessConverged` | `Spec => []SuccessMeansConverged` |
| `NodeConvergenceProofs!AlteredOnce` | `Spec => []StructureAlteredOnce` |
| `NodeConvergenceProofs!NewReplicaSafe` | `Spec => [](OnePathPerShard => NewReplicaAccepted)` |
| `SQLPlanProofs!TypeCorrect` | `Spec => []TypeOK` |
| `SQLPlanProofs!ReviewedSafe` | `Spec => []ReviewedWritesOnly` |
| `SQLPlanProofs!PlansApply` | `Spec => []UndisturbedPlanApplies` |
| `TableContentsProofs!TypeCorrect` | `Spec => []TypeOK` |
| `TableContentsProofs!Implementation` | `Spec => ImplementsDeclared` |
| `TableContentsProofs!QuietWrites` | `Spec => []QuietWriteSucceeds` |
| `TableContentsProofs!DriftIsSeen` | `Spec => []DriftSeen` |
| `TableContentsProofs!RowsStay` | `Spec => NeverEmptied` |
| `ManagedEntityProofs!TypeCorrect` | `Spec => []TypeOK` |
| `ManagedEntityProofs!OwnEntity` | `Spec => OnlyOwnEntity` |
| `ManagedEntityProofs!NothingLeft` | `Spec => DroppedMeansGone` |
| `ManagedEntitySuccess!SuccessApplied` | `Spec => []SuccessMeansApplied` |
| `ManagedEntitySuccess!SurePlansApply` | `Spec => []SurePlanApplies` |
| `ManagedEntitySuccess!EmptyPlansAreTrue` | `Spec => []DriftSeen` |
| `GrantsProofs!TypeCorrect` | `Spec => []TypeOK` |
| `GrantsProofs!RecordedHeld` | `Spec => []RecordedMeansHeld` |
| `GrantsProofs!OwnRecorded` | `Spec => CoveredNotRecorded` |
| `GrantsProofs!CoveredIsTold` | `Spec => CoveredTold` |
| `ColumnPlannerProofs!TypeCorrect` | `Spec => []TypeOK` |
| `ColumnPlannerProofs!PreviewKept` | `Spec => []PreviewAgrees` |
| `ColumnPlannerProofs!NothingRejected` | `Spec => []StatementsAccepted` |
| `ColumnPlannerProofs!ConfigurationApplied` | `Spec => []AppliedUpToOrder` |
| `ColumnPlannerProofs!OrderLeftAlone` | `Spec => []OrderIgnored` |
| `ColumnPlannerProofs!UnmanagedLeftAlone` | `Spec => UnmanagedKept` |

**NodeConvergence.** `TypeOK` is not inductive: a CREATE is only typed, and
Keeper's structure for an altered replica only there, if the loop stands at a
node it surveyed. The inductive invariant is `Safe`: `TypeOK`,
`KeeperConsistent` (Keeper has a structure for a path exactly while a replica
uses it) and `PositionInv` (where `at` and `existing` are in each loop, and that
a create without adoption surveyed no table). The proof first reduces every
action to one of the *statements* of `TableCluster` and shows what statements
preserve, then goes through the actions. `ForeignTablesUntouched` follows from
the last part of `PositionInv`: with `existing` empty, the only statement of a
create is one on a node without the table. `RowsKept` adds `RowsInv`: nodes
that passed their row check, and that nobody changed since, hold no rows. The
work is in showing that no provider step puts rows on such a node: a created
replica fetches rows only from replicas that have them, and `CatchUp` moves no
rows. `DestroyedMeansGone` adds `GoneInv`: the nodes the drop loop has passed
without an error lack the table.

What an undisturbed apply achieves has an invariant of its own,
`FitInv`, which has three parts. `LagInv`: a lagging replica waits only for the
configured structure. That is so because `Begin` takes any other lag for a
disturbance, and because each statement of the operation preserves it.
`AlteringInv`: what no action group is left for is as configured on the node, or
on its way to it while the operation waits. `PassedInv`: the nodes each loop has
passed have the configured definition. `StructureAlteredOnce` needs `OnceInv`:
once a path was altered, all its replicas hold the configured structure when the
wait ends, so the next of them has no difference left to alter.
`NewReplicaAccepted` needs `JoinInv`: a reference is what Keeper holds for the
shard. It is proved where the nodes of a shard share one Keeper path
(`OnePathPerShard`); with several paths in a shard the first node of the shard
may have the structure of another table, and the argument does not apply.
Finding 2 is the same case across shards.

**SQLPlan.** `TypeOK` needs `CallInv` (which `pc` goes with which stage, and that a plan is saved in
all but planning). `SavedInv` adds what the reviewed list means: the digest of a
saved plan with SQL is its list, and the list under enforcement is the saved one. `ReviewedWritesOnly` speaks of a matching
between writes and the reviewed list, which is no inductive formula: the proof
keeps one as a witness. `Traced(writes, list, pos)` says that every write has a
place in the list, increasing on each target, and none beyond `pos` of its
target. The invariant `TrailInv` says that `wrote` is traced in `Shown` with the
bound `Reached`, the positions of the running call shifted by the length of the
drops when the creates run; `PositionsInv` keeps the positions within the
list. A write extends the trace because `Found` looks only behind the position,
and the second list of a replacement starts behind the first. The digest
comparison enters once: the list enforced by the apply is the recorded one
because `Bound` compared them.

`UndisturbedPlanApplies` says that nothing is blocked or refused; its invariant
`QuietInv` says why. The list that `ConvergeNodes` makes of the objects it reads
is described without running it: `Recorded(s, want, k, list)` holds of the list
after `k` of the `2 * N` turns, first the nodes that have the object, then those
that have none. A recording call is always in the middle of that list
(`RecordInv`: `Whole`, the recorded statements and those of the node it is at).
So a saved plan is the complete list of the objects and configuration it
was made from. Until its apply ends this stays true of the objects there are (`Faithful`),
or the configuration has been applied (`Done`): then the plan before the apply
finds nothing to do. A replacement is recorded as if all nodes were bare, and so they
are when its drops are done (`ReplacementInv`, `DeleteInv`). Two records
of the same objects are equal (`RecordedOnce`), therefore the digests fit. In the
apply what is due on a node always has places in the list, in order and
behind the position of that node (`Embedded`, `Awaited`); a statement to one
node moves its position and by `StatementsAssumption` leaves the others a
subsequence of what they needed, which has places too. Nodes that the loops
have passed need nothing (`Passed`), so at the end all are converged, and
`AppliedGone` cannot happen either.

**TableContents.** The refinement mapping is the identity on what both
specifications see: the rows of the nodes, the declared data, what was seen, the
state and the statements of others. All else (the position in the loop, the
staging table, the plan) is hidden. Most steps are stutters; a `Swap` or `Drop`
must be an abstract `Swap` of the partition's declared rows. That needs an
invariant (`IInv`): while a node is written its staging table holds exactly
`goal`, and only partitions that the goal does not have are to be dropped
(`Loaded`); what the replicas will hold of a partition one of them holds already, so
that `CatchUp` is a step of replication (`Sourced`); and a checksum stored at the end of the loop has seen every node
(`LookedAt`). The proof has one lemma per action, for the invariant and for the
refinement.

What a write does that nobody disturbs rests on a second invariant, `Quiet`.
`Position` and `Planned` say where the loop stands and what a reviewed plan
contains, disturbed or not. `Undisturbed` says that the replicas agree and will
agree (`Together`), that every node has the table, that what is to be dropped now
was there when the plan was made (`Covered`), what is left to do on the node
(`Remaining`), that the nodes the loop has passed hold the goal (`Held`), and that
what the checksums saw is still so (`SeenStill`). `QuietWriteSucceeds` needs all
of them: a statement is refused by the review only if a partition is dropped that
was not there before.
`DriftSeen` is `SeenStill` at the end of a refresh. `NeverEmptied`, an action
property, follows from both invariants: a swap brings rows from a staging table
that holds the goal (`Loaded`), and when a partition is dropped those of the goal
are in (`Remaining`), on all replicas (`Together`).

**ManagedEntity.** The invariant `Inv` adds to the types what a handler has in
hand at each of its calls (`Progress`: the id of its state when it looks up, the
row with that id when it writes), that names are unique on the server
(`UniqueIn`), that the row is that of an entity as long as nobody acted since it
was read (`Current`), and that the view is the server's while an undisturbed
drop is under way (`Calm`). `OnlyOwnEntity` is then the uniqueness of the name
in the row, and `DroppedMeansGone` has a second case, the lookup that misses.
What the handlers return is typed kind by kind first; the steps only use those
lemmas.

`ManagedEntitySuccess` has what an operation promises. Its lemmas relate
configuration, entity, row and state through the handlers, kind by kind:
a CREATE or an ALTER leaves an entity that bears the configuration (`Bears`), the
row of an entity that bears it makes a state that tracks the entity (`Tracks`), and
a state that tracks an entity and equals the plan's wish means that the entity bears
it. The invariant `Promise` carries this through the calls: what is stored is in
normal form (`ServerClean`), the secret keys of a state are known to it
(`StateMarked`), an operation began from a state that tracks its entity as long as
the way from the refresh was undisturbed (`Begun`, `Alone`, `InStep`), the row in
hand is that of the entity (`RowInHand`), after the statement the entity bears the
configuration (`Made`), and so do the ends (`Outcomes`). Of an expression that `NormalizeExpression`
was not able to answer for, `Tracks` only claims that a state without one was read
from an entity without one. A plan made from such a state is applied as promised
all the same: an update writes every expression that is configured, and a masking
policy whose state has a condition that is configured no longer is replaced. The
proof showed
that two cases of an earlier definition of `Mine` overlapped, so that its value
was not determined; the model checker had silently taken the first.

**Grants.** Types need that an option to grant comes with its right (`Sound`),
and that nothing read from a row gets into the state of a privilege grant but
that it is there (`AsDeclared`).
`RecordedMeansHeld` needs that a resource whose GRANT went out holds its rights
before the state says so (`Holds`), and that a REVOKE takes nothing from a grant
that is disjoint from it (`HeldRevoking`). The theorem has any number of
resources; the run has two.

The other two properties are about what the rows of `system.grants` tell. The
lemmas of "What the rows tell" have the link: what is found has a member with a
row of its own at its scope (`FoundOwn`); a privilege with such a row is found,
unless the row of a group stands for it (`OwnFound`); and what everything covers
is told as covered (`CoveredByAll`). `QuietInv` has what a create meets that
nobody disturbs: it is the only operation, the replica lags at most behind its
own statement, so the rights on everything are the same on both and the
replica has no right that the server lacks; and once it waits, not everything
was covered. So the row it waits for is own, and shown once the replica has
caught up. The attempt to prove the two properties as they first stood failed,
and each time the model checker, given richer declarations, had a counterexample:
see the last two points under [findings](#findings).

**ColumnPlanner.** The planner is all loops over lists, and the library's
induction theorems cannot be used with an operator of one's own. `ColumnListProofs`
therefore begins with induction as a fact about sets: a set of numbers with zero
and every successor (`Induct`), a set of lists with the empty one and every extension
(`SeqInduct`). From it follows that recursive functions and the folds have
the values that their equations say, turn by turn, as if unrolled. Its other
lemmas say what one step does to a list with distinct names: `Only`, which
everything that filters is made of, insertion and moving, and each of the five
actions. They split a list around one of its columns (`Around`).

`PreviewAgrees` and `StatementsAccepted` share an invariant, `OnTheWay`: the
groups still to send lead from the table to the preview (`Leads`), each accepted
on the way. That one line needs two walks to be run side by side: `planColumnUpdate`
works on the columns that are managed, already aligned and renamed, the preview
and the server on the physical ones. `WalkOK` holds the two together after `k` turns:
same simulated order, and sending the adds planned so far makes the
physical list of the preview. `ModOK` does it for the moves, which the preview makes after
all adds; `DropAll` for the drops.

`AppliedUpToOrder` adds `Arrives`: the preview is a table the configuration is
satisfied with, in order if nothing was added. The order is the part with an
argument. `Shape` says of the simulated order after `k` turns: the first `k`
configured columns, then those configured columns whose place is not to change, then
the rest; the turn `k + 1` keeps that, whichever of its branches it takes
(`ShapeTurn`). After the last turn the configured columns are together and in
order. Without adds the moves alone make this order of the physical
columns too, unmanaged ones between them (`Placed`).

`OrderIgnored` and `UnmanagedKept` look at single actions: `Careful` says that
all groups to be sent consist of actions that touch no hidden column and, with
`ignore_column_order`, move none the table had before (`Fine`). That the plan has no
move of such a column is `Shape` once more: with the order aligned, each column of the
table is at its place when its turn comes. Nothing is asked of other clients here, so
`UnmanagedKept` holds for tables they changed between two groups.

**Only model-checked.** Liveness (`EventuallyConverged`, `EventuallyApplied`,
`EventuallyHeld`, `EventuallySettled`) and anything about `ENABLED` is out of
the prover's reach. All other properties of the passing runs are theorems.

## Findings

1. **Rows inserted between check and drop** (`conv_insert_race`).
   `guardDataLoss` counts rows on all nodes first, the drops follow; rows that a
   client inserts in between are lost although `force_destroy` is off, against
   the wording of `docs/resources/table.md`.
2. **New replica of a path used in another shard** (`conv_shared_new`).
   `ConvergeNodes` takes the reference of a new replica from its topology shard
   only. When the Keeper path is shared across shards and has unmanaged columns,
   the CREATE is rejected on every apply.
3. **A plan without SQL that writes** (`sqlplan_empty`). A preview that
   records nothing keeps the digest of the last apply. If the object is dropped
   before the apply, the re-plan records the old list again, its digest fits,
   and the apply sends statements the operator was never shown. This is why
   `ReviewedWritesOnly` excludes plans that showed no create or alter.

Met while modelling, told here because the properties allow for them:

- *Adds before moves.* Adds and moves of columns are planned in one walk but
  sent in two groups, so a column added behind one that moves ends elsewhere, and a
  successful apply leaves a plan that is not empty. The preview shows the same
  order (`PreviewAgrees`), and the next apply settles it (`AppliedUpToOrder`).
- *A dead id.* After a replacement, the SELECT after the CREATE may be answered
  with the entity of the same name that was just dropped; its id is recorded and
  the apply succeeds (`SuccessMeansApplied` asks for a current row).
- *Compared with nothing.* `rowpolicy.go:249` says "Keep non-normalized form if
  its normalization equals server value", `maskingpolicy.go:340` that
  `normalizedEquals` "reports whether an expression returned by the server is equal
  to state". When the SELECT of `NormalizeExpression` fails, `Read` of a row policy
  keeps the filter of the state, and `normalizedEquals` says that the conditions
  are equal. The refresh succeeds, and what another client made of the expression
  is hidden by an empty plan until a later refresh has an answer. `DriftSeen` therefore
  leaves out the expression, and only that, when the call failed (`compared`).
- *Created, not recorded.* When the deadline of `retryWithBackoff` passes or the
  answer is lost, the entity exists and the state does not know it; the next
  create fails on its name, or adopts a settings profile of that name and, when
  that inherits otherwise, taints it and will drop it (`SurePlanApplies`).
- *Panics.* A role that is gone before its ALTER, a role or user that is missing
  after it, or imported by an unknown name, is dereferenced as nil
  (`UpdateMissing`, `UpdatedMissing`, `ImportMissing`). So is a database that a
  create or an import finds by name and then misses by its id
  (`CreatedDatabaseMissing`).
- *Forgotten.* A settings profile missed by the SELECT after its ALTER leaves
  the state, although it exists.
- *Conditions left.* `maskingpolicy.go:74` speaks of an ALTER that "re-asserts
  the full desired definition", but without a configured WHERE it has no such
  clause and keeps a condition another client set (`Applied`).
- *REVOKE on a shadowed name.* A create checks that no user has the role's name,
  a destroy does not: the user of that name loses the privilege and the role
  keeps it (`RecordedMeansHeld` is for calm runs).
- *Holes.* A narrow grant created before a broad one of the same apply is
  recorded; destroying it later leaves a partial revoke in the broad one, which
  no refresh notices, because a group matches by any member and a broader row
  does not match at all.
- *Waiting for groups.* A server that expands groups into rows never shows the
  row of a covered group, so its create waits for the whole deadline
  (`CoveredTold` is for single privileges); stored names that are prefixes of
  others count as covering them, so a grant may be refused as covered although
  it was made.
- *The option is not matched.* `ClassicGrantMatcher` does not look at
  `grant_option`: where another resource has the same privilege with the option,
  a grant without it is taken for found, although a broader grant covers it and
  its own row never appears. Destroying it takes the other's
  (`CoveredNotRecorded` asks only that the grantee holds some of it there).
- *The group's row.* On a server that shows groups as one row, a privilege that
  completes a group has no row of its own: the row of the group stands for it. The create is
  then told that its grant overlaps, and when the replica lags at that check, it
  waits for the whole deadline (`CoveredTold` excludes this by `ShownInGroup`).

## What is not modelled

- The parsing of `create_table_query`, the normalisation of types, and the query
  builder: text without state. The models compare values. Of the normalisation of
  expressions the text is left out, and the call, which may fail, is in
  `ManagedEntity`.
- The transports, authentication, and provider configuration: pure input and
  output.
- Import of schema objects and grants, validation of attributes, warnings: no
  state.
- Materialized views and dictionaries: the closures they pass to `ConvergeNodes`
  are those of a view with more attributes. A materialized view is replaced
  where a table is, without rows to count; a dictionary is replaced in place
  where a view is. What is their own is parsing, and that a dictionary's
  password is compared only with `manage_dictionary_passwords`. The theorems on
  `SQLPlan` hold for them, as for any resource with its operators.
- Single settings and settings-profile associations: a statement each and no
  read-back, or one that retries.
- The mutation watch of `alterwait.go`, and that mutations are matched by the
  second: `NodeConvergence` takes the wait as a guard.
- The latched error of `impl.go:98`, and nodes that join after the node list was
  cached: constants of a run of the provider.

## Plan

Done, in the order of importance: `TableCluster`, `NodeConvergence`, its proofs,
`SQLPlan` with its two resources, its proofs, `ColumnPlanner`; then
`TableContents` with its abstract specification and the proof that it
implements it, `ManagedEntity` with the operators of seven kinds, `Grants`, and
the proofs about both; the proofs of what an undisturbed apply or destroy achieves
of nodes, entities and reviewed plans, of what an undisturbed write of
contents achieves, and of what grants tell; and the proofs about `ColumnPlanner`.

Next:

1. `AlterWait`: the reads of `replicaMetadataVersions` and the mutation watch one
   by one; shown to implement the guard `MetadataApplied` that `NodeConvergence`
   uses.
2. A materialized view as a further parameter of `SQLPlan`.

The models are to stay few enough to be run on every change: later modules are
composed with what is there rather than given many runs of their own.
