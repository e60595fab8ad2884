---------------------------- MODULE TableContents ----------------------------
(***************************************************************************)
(* table_contents (pkg/resource/tablecontents over                         *)
(* internal/dbops/tablecontents.go): every row of a table, declared.       *)
(*                                                                         *)
(* A write goes from node to node, skips replicas of a path it has         *)
(* written, and on each node loads the data into a staging table, swaps    *)
(* its partitions in one at a time and drops the partitions the data does  *)
(* not have.  Then every node must hold the data.  A refresh looks at      *)
(* every node, one at a time.  With enforce_sql_plan the swaps and drops   *)
(* are those that the plan recorded, or fewer.                             *)
(*                                                                         *)
(* The rows of a partition are one value, and a checksum is as good as the *)
(* rows it was computed from.  Steps are calls to a node; the calls that   *)
(* only touch the staging table are one step.                              *)
(***************************************************************************)
EXTENDS Naturals, FiniteSets

CONSTANTS N,           \* number of nodes; the provider is connected to node 1
          Partitions,  \* ids of partitions, in their order
          Rows,        \* what a partition may hold
          NoRows,      \* a partition that is not there
          NoTable,     \* the table is missing on the node
          Unseen,      \* nodesChecksum did not look at the node yet
          Differ,      \* nodesDiffer
          None,        \* nothing: no state, no plan
          Declarations,\* the data the operator may declare
          MaxChanges,  \* edits of the data
          MaxDrift,    \* statements of other clients
          MaxFaults    \* failing calls and crashes

Node == 1 .. N

Contents == [Partitions -> Rows \cup {NoRows}]

NoContents == [p \in Partitions |-> NoRows]

ASSUME ContentsAssumption ==
    /\ N \in Nat \ {0} /\ Partitions \subseteq Nat
    /\ Declarations \subseteq Contents
    /\ {NoTable, Unseen, Differ, None} \cap Contents = {}
    /\ NoTable # Unseen /\ Differ # NoTable /\ Differ # Unseen /\ Differ # None
    /\ NoRows \notin Rows
    /\ None \notin [swaps : SUBSET Partitions, drops : SUBSET Partitions]
    /\ {MaxChanges, MaxDrift, MaxFaults} \subseteq Nat

VARIABLES replicated,  \* the nodes are replicas of one table
          enforced,    \* enforce_sql_plan
          table,       \* what each node holds of the table
          kept,        \* replicated: what every replica will hold
          staging,     \* _tf_contents_<table>
          data,        \* the declared data
          tf,          \* the checksum in Terraform's state, or None
          plan,        \* the saved plan, or None
          op, pc, at,  \* the operation, its next step and its node
          goal,        \* the data being written
          written,     \* the write has written the path of the replicas
          swaps, drops,\* partitions yet to swap in and to drop on the node
          sums,        \* nodesChecksum: what was seen of each node
          outcome,     \* how the last operation ended
          disturbed,   \* history: others acted, or replicas lagged, since the plan
          faulty,      \* history: a call failed in this operation
          changes, drift, faults

shape   == <<replicated, enforced>>
control == <<op, pc, at, written, swaps, drops>>
budget  == <<changes, drift, faults>>
vars    == <<shape, table, kept, staging, data, tf, plan, control, goal, sums, outcome,
             disturbed, faulty, budget>>

-----------------------------------------------------------------------------
(* What the nodes hold.                                                       *)

PartitionsOf(contents) == {p \in Partitions : contents[p] # NoRows}

Exists(n) == table[n] # NoTable

(* A statement on a partition of node n: without replicas it is done there,   *)
(* and with alter_sync = 2 on every replica.                                  *)
Reached(n) == IF replicated THEN Node ELSE {n}

Hold(nodes, p, rows) ==
    /\ table' = [m \in Node |-> IF m \in nodes /\ Exists(m)
                                THEN [table[m] EXCEPT ![p] = rows] ELSE table[m]]
    /\ kept' = IF replicated THEN [kept EXCEPT ![p] = rows] ELSE kept

-----------------------------------------------------------------------------
(* Operations of the operator.                                                *)

Begin(o, at0) ==
    /\ pc = "idle"
    /\ op' = o /\ pc' = at0 /\ at' = 1
    /\ written' = FALSE /\ swaps' = {} /\ drops' = {}
    /\ sums' = [n \in Node |-> Unseen]
    /\ outcome' = "none" /\ faulty' = FALSE
    /\ UNCHANGED <<shape, table, kept, staging, tf>>

End(result, state) ==
    /\ outcome' = result /\ tf' = state
    /\ op' = "none" /\ pc' = "idle" /\ at' = 1
    /\ written' = FALSE /\ swaps' = {} /\ drops' = {}

Lagging == replicated /\ \E n \in Node : table[n] # kept

Refresh ==
    /\ tf # None
    /\ Begin("refresh", "look")
    /\ plan' = None
    /\ disturbed' = Lagging
    /\ UNCHANGED <<data, goal, budget>>

(* The checksum of the data is in the plan; the same checksum is no change.   *)
(* Without the table on node 1 there is none to plan.                         *)
Differs == tf # data \/ ~Exists(1)

(* The statements that the write would send to node n, recorded for review:   *)
(* of replicas, the first node is written.                                    *)
Reviewed(n) ==
    IF ~enforced \/ (replicated /\ n # 1) THEN None
    ELSE [swaps |-> PartitionsOf(data), drops |-> PartitionsOf(table[n]) \ PartitionsOf(data)]

Plan ==
    /\ pc = "idle" /\ Differs
    /\ enforced => \A n \in Node : Exists(n)
    /\ plan' = [goal |-> data, reviewed |-> [n \in Node |-> Reviewed(n)]]
    /\ disturbed' = (Lagging \/ \E n \in Node : ~Exists(n))
    /\ outcome' = "none"
    /\ UNCHANGED <<shape, table, kept, staging, data, tf, control, goal, sums, faulty, budget>>

Apply ==
    /\ plan # None
    /\ Begin("write", "node")
    /\ goal' = plan.goal
    /\ UNCHANGED <<data, plan, disturbed, budget>>

Declare ==
    /\ pc = "idle" /\ changes < MaxChanges
    /\ data' \in Declarations \ {data}
    /\ plan' = None
    /\ changes' = changes + 1
    /\ UNCHANGED <<shape, table, kept, staging, tf, control, goal, sums, outcome,
                   disturbed, faulty, drift, faults>>

(* Delete leaves the rows in place.                                           *)
Forget ==
    /\ pc = "idle" /\ tf # None /\ changes < MaxChanges
    /\ tf' = None /\ plan' = None
    /\ outcome' = "none"
    /\ changes' = changes + 1
    /\ UNCHANGED <<shape, table, kept, staging, data, control, goal, sums,
                   disturbed, faulty, drift, faults>>

-----------------------------------------------------------------------------
(* ReplaceTableContents.                                                      *)

Abort == End("failed", tf) /\ plan' = None

(* The deferred DROP of the staging table, whose error is ignored.            *)
DropStaging == staging' = [staging EXCEPT ![at] = None]

(* Bug: tables without a Keeper path count as replicas of one another.        *)
SkipWhateverWritten(n) == written

(* A replica of a path that was written; a missing table has no path.         *)
Skips(n) == written /\ replicated /\ Exists(n)

NextNode ==
    /\ pc = "node"
    /\ \/ /\ at > N
          /\ pc' = "look" /\ at' = 1
          /\ UNCHANGED <<op, written, swaps, drops, tf, plan, outcome>>
       \/ /\ at <= N /\ Skips(at)
          /\ at' = at + 1
          /\ UNCHANGED <<op, pc, written, swaps, drops, tf, plan, outcome>>
       \/ /\ at <= N /\ ~Skips(at) /\ Exists(at)
          /\ pc' = "stage"
          /\ UNCHANGED <<op, at, written, swaps, drops, tf, plan, outcome>>
       \/ at <= N /\ ~Skips(at) /\ ~Exists(at) /\ Abort
    /\ UNCHANGED <<shape, table, kept, staging, data, goal, sums, disturbed, faulty, budget>>

(* enforce_sql_plan: the statements of this node were recorded.               *)
Allowed(n, kind, p) ==
    ~enforced \/ (plan.reviewed[n] # None /\ p \in plan.reviewed[n][kind])

(* Bug: what was left of an earlier staging table is kept.                    *)
StagedOnLeftover(n) ==
    [p \in Partitions |-> IF staging[n] # None /\ goal[p] = NoRows THEN staging[n][p] ELSE goal[p]]

(* A leftover staging table goes first, then the data is loaded.              *)
Staged(n) == goal

(* DROP and CREATE of the staging table, and the INSERT of the data.          *)
Stage ==
    /\ pc = "stage"
    /\ \/ /\ Exists(at) /\ (enforced => plan.reviewed[at] # None)
          /\ staging' = [staging EXCEPT ![at] = Staged(at)]
          /\ pc' = "list"
          /\ UNCHANGED <<op, at, written, swaps, drops, tf, plan, outcome>>
       \/ /\ ~Exists(at) \/ (enforced /\ plan.reviewed[at] = None)
          /\ Abort /\ DropStaging
    /\ UNCHANGED <<shape, table, kept, data, goal, sums, disturbed, faulty, budget>>

(* Bug: partitions that the data does not have are left alone.                *)
ListNew(n) == /\ swaps' = PartitionsOf(staging[n])
              /\ drops' = {}

(* The partitions of both tables; a table that is gone has none.              *)
List(n) == /\ swaps' = PartitionsOf(staging[n])
           /\ drops' = IF Exists(n) THEN PartitionsOf(table[n]) \ PartitionsOf(staging[n]) ELSE {}

ListPartitions ==
    /\ pc = "list"
    /\ List(at)
    /\ pc' = "swap"
    /\ UNCHANGED <<shape, table, kept, staging, data, tf, plan, op, at, written, goal, sums,
                   outcome, disturbed, faulty, budget>>

(* system.parts is listed in the order of the ids.                            *)
IsFirst(p, ids) == \A q \in ids : p <= q

(* REPLACE PARTITION ... FROM the staging table.                              *)
Swap ==
    /\ pc = "swap"
    /\ \E p \in swaps :
       /\ IsFirst(p, swaps)
       /\ \/ /\ Exists(at) /\ Allowed(at, "swaps", p)
              /\ Hold(Reached(at), p, staging[at][p])
              /\ swaps' = swaps \ {p}
              /\ UNCHANGED <<staging, op, pc, at, written, drops, tf, plan, outcome>>
           \/ /\ ~(Exists(at) /\ Allowed(at, "swaps", p))
              /\ Abort /\ DropStaging /\ UNCHANGED <<table, kept>>
    /\ UNCHANGED <<shape, data, goal, sums, disturbed, faulty, budget>>

(* Bug: the old partitions go first.                                          *)
DropFirst == pc = "swap"

(* DROP PARTITION, once the new partitions are in.                            *)
MayDrop == pc = "swap" /\ swaps = {}

Drop ==
    /\ MayDrop
    /\ \E p \in drops :
       /\ IsFirst(p, drops)
       /\ \/ /\ Exists(at) /\ Allowed(at, "drops", p)
              /\ Hold(Reached(at), p, NoRows)
              /\ drops' = drops \ {p}
              /\ UNCHANGED <<staging, op, pc, at, written, swaps, tf, plan, outcome>>
           \/ /\ ~(Exists(at) /\ Allowed(at, "drops", p))
              /\ Abort /\ DropStaging /\ UNCHANGED <<table, kept>>
    /\ UNCHANGED <<shape, data, goal, sums, disturbed, faulty, budget>>

NodeWritten ==
    /\ pc = "swap" /\ swaps = {} /\ drops = {}
    /\ DropStaging
    /\ written' = TRUE
    /\ pc' = "node" /\ at' = at + 1
    /\ UNCHANGED <<shape, table, kept, data, tf, plan, op, swaps, drops, goal, sums, outcome,
                   disturbed, faulty, budget>>

-----------------------------------------------------------------------------
(* nodesChecksum, and what Read and write make of it.                         *)

Look ==
    /\ pc = "look" /\ at <= N
    /\ sums' = [sums EXCEPT ![at] = table[at]]
    /\ at' = at + 1
    /\ UNCHANGED <<shape, table, kept, staging, data, tf, plan, op, pc, written, swaps, drops,
                   goal, outcome, disturbed, faulty, budget>>

(* Bug: nodes without the table do not count.                                 *)
AgreedOnFound ==
    LET found == {sums[n] : n \in Node} \ {NoTable}
    IN  IF found = {} THEN None
        ELSE IF Cardinality(found) = 1 THEN CHOOSE c \in found : TRUE ELSE Differ

(* Bug: only the node the provider is connected to counts.                    *)
AgreedOnFirst == sums[1]

(* What every node agrees on; None if no node has the table.                  *)
Agreed ==
    IF \A n \in Node : sums[n] = NoTable THEN None
    ELSE IF \A n \in Node : sums[n] = sums[1] THEN sums[1] ELSE Differ

Looked ==
    /\ pc = "look" /\ at > N
    /\ \/ op = "refresh" /\ End(IF Agreed = None THEN "removed" ELSE "refreshed", Agreed)
          /\ UNCHANGED plan
       \/ op = "write" /\ Agreed = goal /\ End("applied", Agreed) /\ plan' = None
       \/ op = "write" /\ Agreed # goal /\ Abort
    /\ UNCHANGED <<shape, table, kept, staging, data, goal, sums, disturbed, faulty, budget>>

-----------------------------------------------------------------------------
(* Faults and the environment.                                                *)

(* A call fails; a swap or a drop may have been done on the node, with the    *)
(* other replicas late.                                                       *)
CallFails ==
    /\ pc # "idle" /\ faults < MaxFaults
    /\ \/ UNCHANGED <<table, kept>>
       \/ \E p \in swaps :
             /\ pc = "swap" /\ IsFirst(p, swaps) /\ Exists(at) /\ Allowed(at, "swaps", p)
             /\ Hold({at}, p, staging[at][p])
       \/ \E p \in drops :
             /\ MayDrop /\ IsFirst(p, drops) /\ Exists(at) /\ Allowed(at, "drops", p)
             /\ Hold({at}, p, NoRows)
    /\ UNCHANGED staging \/ (at \in Node /\ DropStaging)
    /\ Abort
    /\ faulty' = TRUE /\ faults' = faults + 1
    /\ UNCHANGED <<shape, data, goal, sums, disturbed, changes, drift>>

CatchUp ==
    /\ replicated
    /\ \E n \in Node, p \in Partitions :
          /\ Exists(n) /\ table[n][p] # kept[p]
          /\ table' = [table EXCEPT ![n][p] = kept[p]]
    /\ UNCHANGED <<shape, kept, staging, data, tf, plan, control, goal, sums, outcome,
                   disturbed, faulty, budget>>

(* An INSERT, a DELETE, or DROP or CREATE of the table on a node that has no  *)
(* replicas.                                                                  *)
OtherClient ==
    /\ drift < MaxDrift
    /\ \/ \E n \in Node, p \in Partitions, rows \in Rows \cup {NoRows} :
             Exists(n) /\ table[n][p] # rows /\ Hold({n}, p, rows)
       \/ \E n \in Node :
             /\ ~replicated
             /\ table' = [table EXCEPT ![n] = IF Exists(n) THEN NoTable ELSE NoContents]
             /\ UNCHANGED kept
    /\ disturbed' = TRUE
    /\ drift' = drift + 1
    /\ UNCHANGED <<shape, staging, data, tf, plan, control, goal, sums, outcome, faulty,
                   changes, faults>>

-----------------------------------------------------------------------------
Init ==
    /\ replicated \in BOOLEAN /\ enforced \in BOOLEAN
    /\ table = [n \in Node |-> NoContents] /\ kept = NoContents
    /\ staging = [n \in Node |-> None]
    /\ data \in Declarations
    /\ tf = None /\ plan = None
    /\ op = "none" /\ pc = "idle" /\ at = 1
    /\ goal = NoContents
    /\ written = FALSE /\ swaps = {} /\ drops = {}
    /\ sums = [n \in Node |-> Unseen]
    /\ outcome = "none"
    /\ disturbed = FALSE /\ faulty = FALSE
    /\ changes = 0 /\ drift = 0 /\ faults = 0

Provider == NextNode \/ Stage \/ ListPartitions \/ Swap \/ Drop \/ NodeWritten \/ Look \/ Looked

Next ==
    \/ Refresh \/ Plan \/ Apply \/ Declare \/ Forget
    \/ Provider
    \/ CallFails \/ CatchUp \/ OtherClient

Spec == Init /\ [][Next]_vars

(* The operator refreshes, plans and applies again and again.                 *)
FairSpec ==
    /\ Spec
    /\ WF_vars(Provider) /\ WF_vars(CatchUp)
    /\ SF_vars(Refresh) /\ SF_vars(Plan) /\ SF_vars(Apply)

-----------------------------------------------------------------------------
(* Properties.                                                                *)

RowsOK ==
    /\ table \in [Node -> Contents \cup {NoTable}]
    /\ kept \in Contents
    /\ staging \in [Node -> Contents \cup {None}]
    /\ data \in Contents /\ goal \in Contents
    /\ sums \in [Node -> Contents \cup {NoTable, Unseen}]

TerraformOK ==
    /\ tf \in Contents \cup {None, Differ}
    /\ plan = None \/ plan.goal \in Contents
    /\ outcome \in {"none", "applied", "failed", "refreshed", "removed"}
    /\ changes \in Nat /\ drift \in Nat /\ faults \in Nat

ControlOK ==
    /\ op \in {"none", "refresh", "write"}
    /\ pc \in {"idle", "node", "stage", "list", "swap", "look"}
    /\ at \in 1 .. N + 1
    /\ swaps \subseteq Partitions /\ drops \subseteq Partitions
    /\ pc \in {"stage", "list", "swap"} => at \in Node
    /\ pc \in {"node", "stage", "list", "swap"} => op = "write" /\ plan # None
    /\ pc = "idle" <=> op = "none"

FlagsOK == {replicated, enforced, written, disturbed, faulty} \subseteq BOOLEAN

(* Every step of a write and of the checksums has what the code takes for     *)
(* granted: a node to work on, its plan, partitions to swap.  The state says  *)
(* only what a table holds, that the nodes differ, or nothing.                *)
TypeOK == RowsOK /\ TerraformOK /\ ControlOK /\ FlagsOK

(* An apply that nobody disturbs, and whose calls all succeed, never ends in  *)
(* an error: the partitions it needs are among the reviewed ones, and the     *)
(* nodes agree at the end, whatever earlier applies left (write).             *)
QuietWriteSucceeds ==
    ~(outcome = "failed" /\ ~disturbed /\ ~faulty)

(* The provider's statements never leave a table empty that had rows, unless  *)
(* no rows are declared (the comment of ReplaceTableContents).                *)
NeverEmptied ==
    [][(Provider /\ ~disturbed) =>
          \A n \in Node :
             /\ Exists(n) /\ PartitionsOf(table[n]) # {}
             /\ PartitionsOf(goal) # {}
             => PartitionsOf(table'[n]) # {}]_vars

(* A refresh during which nobody acts never reports as the contents of the    *)
(* table what some node does not hold, or has no table for (nodesChecksum).   *)
DriftSeen ==
    outcome = "refreshed" /\ tf # Differ /\ ~disturbed =>
        \A n \in Node : table[n] = tf

Declared == INSTANCE DeclaredContents
            WITH Nodes <- Node, rows <- table, seen <- sums, claim <- tf,
                 others <- drift, Unknown <- None

(* Node by node, skipping replicas and one statement at a time, the provider  *)
(* does what table_contents promises.                                         *)
ImplementsDeclared == Declared!Spec

(* Once the others are done, and if no node lost the table, the table holds   *)
(* the declared rows for good.                                                *)
EventuallyHeld ==
    (<>[](\A n \in Node : Exists(n))) => <>[](\A n \in Node : table[n] = data)
=============================================================================
