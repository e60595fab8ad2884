-------------------------- MODULE NodeConvergence --------------------------
(***************************************************************************)
(* One clickhousedbops_table resource under fanout_cluster: Terraform      *)
(* plans it, and the provider makes every node hold it                     *)
(* (schemahelpers.ConvergeNodes with the closures of table.convergeTable)  *)
(* or drops it from every node (table.Delete, schemahelpers.DeleteNodes).  *)
(*                                                                         *)
(* Every read of a node and every statement is a step of its own, so other *)
(* clients of the cluster, lagging replicas and failing calls come between *)
(* any two of them.  A call fails before its statement took effect or      *)
(* after; either way the operation ends with an error, Terraform keeps the *)
(* state it had, and the nodes stay as far as the operation got.  A        *)
(* provider process that is killed leaves exactly that behind as well.     *)
(***************************************************************************)
EXTENDS TableCluster

CONSTANTS
    Desired,        \* the configured definition
    NoUnmanaged,    \* the unmanaged half of a table created from the configuration
    Configurations, \* the other settings an operator may choose
    StartTables,    \* tables other clients may have created
    Meddling,       \* what other clients do meanwhile
    MaxDrift,       \* bound: changes by other clients
    MaxChanges,     \* bound: changes of the configuration
    MaxFaults       \* bound: calls that fail and waits that time out

(* Whether the resource is there at all, ignore_drop_dependencies,            *)
(* force_destroy, and adopt_existing of the provider.                         *)
Configuration ==
    [wanted : BOOLEAN, recreate : BOOLEAN, force : BOOLEAN, adopt : BOOLEAN]

ASSUME ConvergenceAssumption ==
    /\ Desired \in Definition
    /\ NoUnmanaged \in Values
    /\ Configurations \subseteq Configuration
    /\ StartTables \subseteq Table
    /\ MaxDrift \in Nat
    /\ MaxChanges \in Nat
    /\ MaxFaults \in Nat

VARIABLES
    conf,       \* the configuration
    tf,         \* the Terraform state of the resource: None, or its force_destroy
    kind,       \* the operation that runs
    pc,         \* the call it makes next
    at,         \* the node it is at
    existing,   \* ConvergeNodes: the nodes whose first read found the table
    groups,     \* planTableUpdate: action groups left to run on the node
    refs,       \* ConvergeNodes: the structure read as reference for a shard
    failed,     \* guardDataLoss, DeleteNodes: an error was collected
    last,       \* history: how the last operation ended
    disturbed,  \* history: another client changed the table since it began
    altered,    \* history: ALTERs it has sent through each Keeper path
    unseen,     \* history: nodes changed by others since a guard read them
    faults, drift, changes

loopVars    == <<existing, groups, refs, failed>>
historyVars == <<last, disturbed, altered, unseen>>
opVars      == <<kind, pc, at, loopVars>>
vars        == <<clusterVars, conf, tf, opVars, historyVars, faults, drift, changes>>

State == [force : BOOLEAN]
Kind  == {"none", "create", "update", "replace", "destroy"}
PC    == {"idle", "survey", "reread", "alter", "wait", "recreate", "redrop",
          "recreated", "create", "creating", "final", "guard", "drop"}
Group == {"structure", "settings"}

TypeOK ==
    /\ ClusterTypeOK
    /\ conf \in Configuration
    /\ tf \in State \cup {None}
    /\ kind \in Kind
    /\ pc \in PC
    /\ at \in 1 .. N + 1
    /\ existing \subseteq Node
    /\ groups \subseteq Group
    /\ refs \in [Shard -> Structure \cup {None}]
    /\ failed \in BOOLEAN
    /\ last \in {"none", "applied", "destroyed", "failed"}
    /\ disturbed \in BOOLEAN
    /\ altered \in [Path -> Nat]
    /\ unseen \subseteq Node
    /\ faults \in 0 .. MaxFaults
    /\ drift \in 0 .. MaxDrift
    /\ changes \in 0 .. MaxChanges

-----------------------------------------------------------------------------
(* What the provider compares.                                               *)

Matches(table) ==
    /\ table.engine = Desired.engine
    /\ table.key = Desired.key
    /\ table.cols.managed = Desired.managed
    /\ table.settings = Desired.settings

(* planTableUpdate: only the MergeTree family is altered in place.            *)
(* Bug: the engine is not compared.                                           *)
NeedsReplaceByKey(table) ==
    \/ table.key # Desired.key
    \/ ~IsMergeTree(Desired.engine) /\ ~Matches(table)

NeedsReplace(table) ==
    \/ table.engine # Desired.engine
    \/ table.key # Desired.key
    \/ ~IsMergeTree(Desired.engine) /\ ~Matches(table)

(* Bug: settings are taken for part of what Keeper replicates.                *)
DifferencesButSettings(table) ==
    IF table.cols.managed # Desired.managed THEN {"structure"} ELSE {}

Differences(table) ==
    (IF table.cols.managed # Desired.managed THEN {"structure"} ELSE {})
    \cup (IF table.settings # Desired.settings THEN {"settings"} ELSE {})

HoldsRows(n) == Has(n) /\ IsMergeTree(tables[n].engine) /\ tables[n].rows

Converged == \A n \in Node : Has(n) /\ Matches(tables[n])

-----------------------------------------------------------------------------
Init ==
    /\ tables \in [Node -> StartTables \cup {None}]
    /\ keeper \in [Path -> Structure \cup {None}]
    /\ KeeperConsistent
    /\ \A n \in Node : ~Lags(n)
    /\ conf \in Configurations
    /\ tf \in State \cup {None}
    /\ kind = "none" /\ pc = "idle" /\ at = 1
    /\ existing = {} /\ groups = {} /\ failed = FALSE
    /\ refs = [s \in Shard |-> None]
    /\ last = "none" /\ disturbed = FALSE
    /\ altered = [p \in Path |-> 0]
    /\ unseen = {}
    /\ faults = 0 /\ drift = 0 /\ changes = 0

ClearLoop ==
    /\ at' = 1
    /\ existing' = {} /\ groups' = {} /\ failed' = FALSE
    /\ refs' = [s \in Shard |-> None]

(* Replicas that lag at the start only lack what the operation wants anyway,  *)
(* or another client's ALTER is still on its way to them.                     *)
OnlyOwnLag ==
    \A n \in Node : Lags(n) =>
        keeper[PathOf[n]] = [tables[n].cols EXCEPT !.managed = Desired.managed]

Begin(operation, first) ==
    /\ pc = "idle"
    /\ kind' = operation /\ pc' = first
    /\ ClearLoop
    /\ last' = "none"
    /\ disturbed' = ~OnlyOwnLag
    /\ altered' = [p \in Path |-> 0]
    /\ unseen' = {}
    /\ UNCHANGED <<clusterVars, conf, faults, drift, changes>>

(* The operation ends; Terraform stores newTf.                                *)
End(outcome, newTf) ==
    /\ pc' = "idle" /\ kind' = "none"
    /\ ClearLoop
    /\ last' = outcome
    /\ tf' = newTf
    /\ UNCHANGED <<conf, disturbed, altered, unseen, drift, changes>>

Fail == End("failed", tf)

Fault == faults < MaxFaults /\ faults' = faults + 1

(* The operation makes its next call.                                         *)
Goto(next) ==
    /\ pc' = next
    /\ UNCHANGED <<conf, tf, kind, failed, last, disturbed, faults, drift, changes>>

-----------------------------------------------------------------------------
(* terraform plan and apply.  A refresh and the plan read every node; nothing *)
(* is written until the apply, which reads again.                             *)

(* Bug: adopting is allowed to whoever wants to create.                       *)
AlwaysAdopting == TRUE

Adopting == kind = "update" \/ conf.adopt

(* The operator edits the configuration.                                      *)
Reconfigure ==
    /\ pc = "idle" /\ changes < MaxChanges
    /\ conf' \in Configurations \ {conf}
    /\ changes' = changes + 1
    /\ UNCHANGED <<clusterVars, tf, opVars, historyVars, faults, drift>>

(* Read: the resource leaves the state when no node has the table.            *)
Refresh ==
    /\ pc = "idle" /\ tf # None /\ Present = {}
    /\ tf' = None
    /\ UNCHANGED <<clusterVars, conf, opVars, historyVars, faults, drift, changes>>

Unplaced == \E n \in Present : NeedsReplace(tables[n])

PlanCreate ==
    /\ conf.wanted /\ tf = None
    /\ Begin("create", "survey")
    /\ UNCHANGED tf

PlanUpdate ==
    /\ conf.wanted /\ tf # None /\ Present # {}
    /\ ~Converged \/ tf.force # conf.force
    /\ Unplaced => /\ conf.recreate
                   /\ conf.force \/ \A n \in Node : ~HoldsRows(n)
    /\ Begin("update", "survey")
    /\ UNCHANGED tf

(* Bug: the configured force_destroy counts before it was applied.            *)
ForcedByConfiguration == conf.force

Forced == tf # None /\ tf.force

PlanReplace ==
    /\ conf.wanted /\ tf # None /\ Unplaced /\ ~conf.recreate
    /\ Forced \/ \A n \in Node : ~HoldsRows(n)
    /\ Begin("replace", "guard")
    /\ UNCHANGED tf

PlanDestroy ==
    /\ ~conf.wanted /\ tf # None /\ Present # {}
    /\ Forced \/ \A n \in Node : ~HoldsRows(n)
    /\ Begin("destroy", "guard")
    /\ UNCHANGED tf

-----------------------------------------------------------------------------
(* ConvergeNodes.                                                            *)

Survey ==
    /\ pc = "survey" /\ at \in Node
    /\ existing' = IF Has(at) THEN existing \cup {at} ELSE existing
    /\ at' = at + 1
    /\ Goto("survey")
    /\ UNCHANGED <<clusterVars, groups, refs, altered, unseen>>

SurveyDone ==
    /\ pc = "survey" /\ at = N + 1
    /\ IF ~Adopting /\ existing # {}
       THEN Fail
       ELSE /\ at' = 1
            /\ Goto("reread")
            /\ UNCHANGED <<existing, groups, refs, altered, unseen>>
    /\ UNCHANGED <<clusterVars, faults>>

(* First the nodes that have the table, each read again.                      *)
SkipMissing ==
    /\ pc = "reread" /\ at \in Node \ existing
    /\ at' = at + 1
    /\ Goto("reread")
    /\ UNCHANGED <<clusterVars, existing, groups, refs, altered, unseen>>

(* The table has gone, or cannot be altered into the configured one.          *)
ReconcileRefused ==
    /\ pc = "reread" /\ at \in existing
    /\ Has(at) => NeedsReplace(tables[at]) /\ ~conf.recreate
    /\ Fail
    /\ UNCHANGED <<clusterVars, faults>>

ReconcileInPlace ==
    /\ pc = "reread" /\ at \in existing
    /\ Has(at) /\ ~NeedsReplace(tables[at])
    /\ groups' = Differences(tables[at])
    /\ Goto("alter")
    /\ UNCHANGED <<clusterVars, at, existing, refs, altered, unseen>>

ReconcileByRecreate ==
    /\ pc = "reread" /\ at \in existing
    /\ Has(at) /\ NeedsReplace(tables[at]) /\ conf.recreate
    /\ Goto("recreate")
    /\ UNCHANGED <<clusterVars, at, existing, groups, refs, altered, unseen>>

(* AlterTable, one action group at a time; settings come after the columns.   *)
NextGroup == IF "structure" \in groups THEN "structure" ELSE "settings"

ExecAlter ==
    /\ pc = "alter" /\ groups # {} /\ Has(at)
    /\ IF NextGroup = "structure"
       THEN AlterStructure(at, Desired.managed)
       ELSE AlterSettings(at, Desired.settings)
    /\ altered' = IF NextGroup = "structure" /\ IsReplica(at)
                  THEN [altered EXCEPT ![PathOf[at]] = @ + 1] ELSE altered

Alter ==
    /\ ExecAlter
    /\ groups' = groups \ {NextGroup}
    /\ Goto("wait")
    /\ UNCHANGED <<at, existing, refs, unseen>>

AlterGone ==
    /\ pc = "alter" /\ groups # {} /\ ~Has(at)
    /\ Fail
    /\ UNCHANGED <<clusterVars, faults>>

(* Bug: the replica that ran the ALTER is the only one waited for.            *)
OwnMetadataApplied == ~Lags(at)

(* waitForReplicaMetadata: every replica under the table's Keeper path, and   *)
(* no wait for a table that is not replicated.                                *)
MetadataApplied == IsReplica(at) => CaughtUp(PathOf[at])

Wait ==
    /\ pc = "wait" /\ MetadataApplied
    /\ Goto("alter")
    /\ UNCHANGED <<clusterVars, at, existing, groups, refs, altered, unseen>>

WaitTimeout ==
    /\ pc = "wait" /\ ~MetadataApplied
    /\ Fault /\ Fail
    /\ UNCHANGED clusterVars

Reconciled ==
    /\ pc = "alter" /\ groups = {}
    /\ at' = at + 1
    /\ Goto("reread")
    /\ UNCHANGED <<clusterVars, existing, groups, refs, altered, unseen>>

(* recreateOnNode.                                                            *)
RecreateRefusal ==
    \/ IsReplica(at) /\ IsReplicated(Desired.engine)
    \/ HoldsRows(at) /\ ~conf.force

RecreateRefused ==
    /\ pc = "recreate" /\ RecreateRefusal
    /\ Fail
    /\ UNCHANGED <<clusterVars, faults>>

RecreateAllowed ==
    /\ pc = "recreate" /\ ~RecreateRefusal
    /\ unseen' = unseen \ {at}
    /\ Goto("redrop")
    /\ UNCHANGED <<clusterVars, at, existing, groups, refs, altered>>

(* DeleteTable reads once more and drops only what exists.                    *)
DropIfPresent == IF Has(at) THEN DropTable(at) ELSE UNCHANGED clusterVars

RecreateDrop ==
    /\ pc = "redrop" /\ DropIfPresent
    /\ Goto("recreated")
    /\ UNCHANGED <<at, existing, groups, refs, altered, unseen>>

Configured(structure) ==
    [engine |-> Desired.engine, key |-> Desired.key, cols |-> structure,
     settings |-> Desired.settings, rows |-> FALSE]

ConfiguredTable == Configured([managed |-> Desired.managed, unmanaged |-> NoUnmanaged])

ExecRecreate ==
    /\ pc = "recreated" /\ CanCreate(at, ConfiguredTable)
    /\ CreateTable(at, ConfiguredTable)

RecreateCreate ==
    /\ ExecRecreate
    /\ at' = at + 1
    /\ Goto("reread")
    /\ UNCHANGED <<existing, groups, refs, altered, unseen>>

ReconcileDone ==
    /\ pc = "reread" /\ at = N + 1
    /\ at' = 1
    /\ Goto("create")
    /\ UNCHANGED <<clusterVars, existing, groups, refs, altered, unseen>>

(* Then the nodes that lack it, each with the structure of its shard.         *)
SkipExisting ==
    /\ pc = "create" /\ at \in existing
    /\ at' = at + 1
    /\ Goto("create")
    /\ UNCHANGED <<clusterVars, existing, groups, refs, altered, unseen>>

ShardMates(n) == {m \in existing : ShardOf[m] = ShardOf[n]}

FirstInShard(n) ==
    CHOOSE m \in ShardMates(n) : \A k \in ShardMates(n) : m <= k

(* Of the object that is kept, only the structure is asked for later.         *)
Reference(n) == tables[n].cols

ReadReference ==
    /\ pc = "create" /\ at \in Node \ existing
    /\ refs' = IF ShardMates(at) # {} /\ refs[ShardOf[at]] = None /\ Has(FirstInShard(at))
               THEN [refs EXCEPT ![ShardOf[at]] = Reference(FirstInShard(at))]
               ELSE refs
    /\ Goto("creating")
    /\ UNCHANGED <<clusterVars, at, existing, groups, altered, unseen>>

(* Bug: a new replica is created from the configuration alone.                *)
NewTableFromConfiguration(n) == ConfiguredTable

(* Bug: whether the shard has a reference is not asked.                       *)
NewTableFromAnyReference(n) ==
    IF IsReplicated(Desired.engine) THEN Configured(refs[ShardOf[n]]) ELSE ConfiguredTable

NewTable(n) ==
    IF IsReplicated(Desired.engine) /\ refs[ShardOf[n]] # None
    THEN Configured(refs[ShardOf[n]])
    ELSE ConfiguredTable

ExecCreate ==
    /\ pc = "creating" /\ CanCreate(at, NewTable(at))
    /\ CreateTable(at, NewTable(at))

CreateMissing ==
    /\ ExecCreate
    /\ at' = at + 1
    /\ Goto("create")
    /\ UNCHANGED <<existing, groups, refs, altered, unseen>>

CreateRejected ==
    /\ \/ pc = "creating" /\ ~CanCreate(at, NewTable(at))
       \/ pc = "recreated" /\ ~CanCreate(at, ConfiguredTable)
    /\ Fail
    /\ UNCHANGED <<clusterVars, faults>>

CreateDone ==
    /\ pc = "create" /\ at = N + 1
    /\ at' = 1
    /\ Goto("final")
    /\ UNCHANGED <<clusterVars, existing, groups, refs, altered, unseen>>

(* The object is read back from the first node, and the state is stored.      *)
Final ==
    /\ pc = "final"
    /\ IF Has(1) THEN End("applied", [force |-> conf.force]) ELSE Fail
    /\ UNCHANGED <<clusterVars, faults>>

-----------------------------------------------------------------------------
(* Delete: guardDataLoss over all nodes, then DeleteNodes.                   *)

Guard ==
    /\ pc = "guard" /\ ~Forced /\ at \in Node
    /\ failed' = (failed \/ HoldsRows(at))
    /\ unseen' = unseen \ {at}
    /\ at' = at + 1
    /\ UNCHANGED <<clusterVars, conf, tf, kind, pc, existing, groups, refs, last, disturbed,
                   altered, faults, drift, changes>>

GuardRefuses == failed

GuardDone ==
    /\ pc = "guard" /\ (Forced \/ at = N + 1)
    /\ IF GuardRefuses
       THEN Fail
       ELSE /\ at' = 1
            /\ Goto("drop")
            /\ UNCHANGED <<existing, groups, refs, altered, unseen>>
    /\ UNCHANGED <<clusterVars, faults>>

DropNode ==
    /\ pc = "drop" /\ at \in Node
    /\ DropIfPresent
    /\ at' = at + 1
    /\ Goto("drop")
    /\ UNCHANGED <<existing, groups, refs, altered, unseen>>

(* Bug: a node whose drop failed is forgotten.                                *)
FailureForgotten(before) == before

FailureCollected(before) == TRUE

(* An error on one node does not keep the others from being dropped.          *)
DropNodeFails ==
    /\ pc = "drop" /\ at \in Node /\ Fault
    /\ DropIfPresent \/ UNCHANGED clusterVars
    /\ failed' = FailureCollected(failed)
    /\ at' = at + 1
    /\ UNCHANGED <<conf, tf, kind, pc, existing, groups, refs, historyVars, drift, changes>>

(* Terraform goes on to create what it replaces once the delete succeeded.    *)
DropDone ==
    /\ pc = "drop" /\ at = N + 1
    /\ CASE failed -> Fail
         [] ~failed /\ kind = "replace" ->
              /\ tf' = None
              /\ kind' = "create" /\ pc' = "survey"
              /\ ClearLoop
              /\ UNCHANGED <<conf, historyVars, drift, changes>>
         [] OTHER -> End("destroyed", None)
    /\ UNCHANGED <<clusterVars, faults>>

-----------------------------------------------------------------------------
(* Failing calls.                                                             *)

(* A read or a statement fails and leaves nothing behind.                     *)
CallFails ==
    /\ pc \notin {"idle", "drop"}
    /\ Fault /\ Fail
    /\ UNCHANGED clusterVars

(* A statement takes effect, and then its answer is lost, a mutation it       *)
(* started fails, or the process dies.                                        *)
AnswerLost ==
    /\ \/ ExecAlter
       \/ pc = "redrop" /\ DropIfPresent /\ UNCHANGED altered
       \/ ExecRecreate /\ UNCHANGED altered
       \/ ExecCreate /\ UNCHANGED altered
    /\ Fault
    /\ pc' = "idle" /\ kind' = "none" /\ ClearLoop /\ last' = "failed"
    /\ UNCHANGED <<conf, tf, disturbed, unseen, drift, changes>>

-----------------------------------------------------------------------------
(* Everyone else.                                                             *)

ReplicaCatchesUp(n) ==
    /\ CatchUp(n)
    /\ UNCHANGED <<conf, tf, opVars, historyVars, faults, drift, changes>>

OtherClient(n) ==
    /\ drift < MaxDrift /\ drift' = drift + 1
    /\ \/ "insert" \in Meddling /\ Insert(n)
       \/ "drop" \in Meddling /\ Has(n) /\ DropTable(n)
       \/ \E table \in StartTables :
            \/ "create" \in Meddling /\ CanCreate(n, table) /\ CreateTable(n, table)
            \/ /\ "alter" \in Meddling /\ Has(n)
               /\ \/ AlterStructure(n, table.cols.managed)
                  \/ AlterSettings(n, table.settings)
    /\ disturbed' = TRUE
    /\ unseen' = unseen \cup {n} \cup {m \in Node : tables'[m] # tables[m]}
    /\ UNCHANGED <<conf, tf, opVars, last, altered, faults, changes>>

Plan == Refresh \/ PlanCreate \/ PlanUpdate \/ PlanReplace \/ PlanDestroy

Converge ==
    \/ Survey \/ SurveyDone
    \/ SkipMissing \/ ReconcileRefused \/ ReconcileInPlace \/ ReconcileByRecreate
    \/ Alter \/ AlterGone \/ Wait \/ Reconciled
    \/ RecreateRefused \/ RecreateAllowed \/ RecreateDrop \/ RecreateCreate
    \/ ReconcileDone \/ SkipExisting \/ ReadReference
    \/ CreateMissing \/ CreateRejected \/ CreateDone \/ Final

Delete == Guard \/ GuardDone \/ DropNode \/ DropDone

Failure == WaitTimeout \/ DropNodeFails \/ CallFails \/ AnswerLost

Next ==
    \/ Reconfigure \/ Plan \/ Converge \/ Delete \/ Failure
    \/ \E n \in Node : ReplicaCatchesUp(n) \/ OtherClient(n)

Spec == Init /\ [][Next]_vars

-----------------------------------------------------------------------------
(* Properties.                                                                *)

(* Steps the provider takes, as against other clients and replicas.           *)
ProviderStep == <<pc, at>>' # <<pc, at>>

(* What ConvergeNodes promises, "makes every node hold the desired object":   *)
(* an apply that reports success while nobody else touched the table leaves   *)
(* the configured definition on every node, lagging replicas included.        *)
SuccessMeansConverged ==
    last = "applied" /\ ~disturbed =>
        /\ Converged
        /\ \A n \in Node : Lags(n) => keeper[PathOf[n]].managed = Desired.managed

(* DeleteNodes drops "on every node": Terraform forgets the table only when   *)
(* no node has it any more.                                                   *)
DestroyedMeansGone == last = "destroyed" /\ ~disturbed => Present = {}

(* Without adopt_existing a create changes no table that exists when the step *)
(* is taken, whoever created it and however late.                             *)
ForeignTablesUntouched ==
    [][kind = "create" /\ ~conf.adopt /\ ProviderStep =>
        \A n \in Node : Has(n) => tables'[n] = tables[n]]_vars

(* "ClickHouse replicates every ALTER of a Replicated table through Keeper":  *)
(* the replicas of one table are altered by one statement per apply, because  *)
(* each node is read again after the replicas caught up.                      *)
StructureAlteredOnce == ~disturbed => \A p \in Path : altered[p] <= 1

(* A new replica is created "with the column and index list that the shard    *)
(* already holds": the server never rejects the CREATE of a replica that      *)
(* joins a shard whose table the provider has just reconciled.                *)
NewReplicaAccepted ==
    pc = "creating" /\ ~disturbed
        /\ (\E m \in ShardMates(at) : PathOf[m] = PathOf[at])
    => CanCreate(at, NewTable(at))

(* "A new replica must declare the structure that Keeper holds": the same for *)
(* a replica whose Keeper path is in use on a node of any other shard.        *)
JoiningReplicaAccepted ==
    pc = "creating" /\ ~disturbed
        /\ (\E m \in existing : PathOf[m] = PathOf[at])
    => CanCreate(at, NewTable(at))

(* "Refuses to drop a MergeTree-family table that holds rows on any node,     *)
(* unless force_destroy is true in state", again before the drop: a table     *)
(* with rows only goes with the force_destroy of the state, or, recreated     *)
(* within an update, of the configuration.  Nodes another client changed      *)
(* after the last check of that node are left out.                            *)
DropAllowed == IF pc = "drop" THEN tf # None /\ tf.force ELSE conf.force

LosesRows(n) ==
    Has(n) /\ tables[n].engine # "Memory" /\ tables[n].rows /\ tables'[n] = None

RowsKept ==
    [][ProviderStep => \A n \in Node \ unseen : LosesRows(n) => DropAllowed]_vars

(* "A change that drops the table is refused while a MergeTree-family table   *)
(* holds rows on any node" (docs/resources/table.md): the same for rows that  *)
(* a client inserts while the provider works.                                 *)
RowsKeptUnderInserts ==
    [][ProviderStep => \A n \in Node : LosesRows(n) => DropAllowed]_vars

(* What the properties above rest on.  The loops stand at a node they surveyed *)
(* or lack, and a create without adoption found none.                         *)
PositionInv ==
    /\ pc = "idle" => kind = "none"
    /\ pc \in {"alter", "wait", "recreate", "redrop", "recreated"} => at \in existing
    /\ pc = "creating" => at \in Node \ existing
    /\ pc \in {"guard", "drop"} => kind \in {"replace", "destroy"}
    /\ kind = "create" /\ ~conf.adopt /\ pc # "survey" => existing = {}

(* Nodes that passed a check of their rows, and that nobody changed since,    *)
(* hold none.                                                                 *)
RowsInv ==
    /\ pc = "redrop" /\ at \notin unseen => ~HoldsRows(at) \/ conf.force
    /\ pc = "guard" /\ ~Forced /\ ~failed =>
          \A n \in Node \ unseen : n < at => ~HoldsRows(n)
    /\ pc = "drop" /\ ~Forced => \A n \in Node \ unseen : ~HoldsRows(n)

(* A partly applied change does not stick: whoever keeps applying gets every  *)
(* node to the configured definition once calls stop failing, if it may adopt *)
(* what a failed create left behind and the tables can be altered into it.    *)
EventuallyConverged ==
    <>[](conf.wanted /\ conf.adopt) => <>[](Converged /\ tf # None)

(* Replicas apply what Keeper holds, the provider goes on, and the operator   *)
(* applies again while the plan is not empty.                                 *)
Fairness ==
    /\ WF_vars(Plan)
    /\ WF_vars(Converge)
    /\ WF_vars(Delete)
    /\ \A n \in Node : WF_vars(ReplicaCatchesUp(n))

FairSpec == Spec /\ Fairness
=============================================================================
