---------------------------- MODULE TableCluster ----------------------------
(***************************************************************************)
(* The ClickHouse cluster as the provider uses it, for one table name.     *)
(* Everything here is outside src/: it is what the statements built in     *)
(* internal/querybuilder do to a server, as internal/dbops and             *)
(* pkg/resource/table rely on it.                                          *)
(*                                                                         *)
(* A node either has the table or does not.  The part of a definition the  *)
(* provider can change in place is split in two, because ClickHouse        *)
(* replicates one of them and not the other: "cols" (columns, indexes,     *)
(* projections, constraints) lives in Keeper for a Replicated table, while *)
(* "settings" belongs to the replica.  "key" is everything ClickHouse      *)
(* cannot alter (partition_by, primary_key, ...).  The unmanaged half of   *)
(* the columns matches an unmanaged_columns pattern: the provider must     *)
(* never report or change it.                                              *)
(***************************************************************************)
EXTENDS Naturals, FiniteSets

CONSTANTS
    N,          \* number of nodes; SchemaNodes lists them by shard, then replica
    ShardOf,    \* shard number of each node
    PathOf,     \* Keeper path a Replicated table has on each node
    Values,     \* values a part of a definition can take
    None        \* no table on the node, no structure under the Keeper path

Node  == 1 .. N
Shard == {ShardOf[n] : n \in Node}
Path  == {PathOf[n] : n \in Node}

Engine     == {"MergeTree", "ReplicatedMergeTree", "Memory"}
Structure  == [managed : Values, unmanaged : Values]
Definition == [engine : Engine, key : Values, managed : Values, settings : Values]
Table      == [engine : Engine, key : Values, cols : Structure,
               settings : Values, rows : BOOLEAN]

ASSUME ClusterAssumption ==
    /\ N \in Nat \ {0}
    /\ ShardOf \in [Node -> Nat]
    /\ \A m, n \in Node : m <= n => ShardOf[m] <= ShardOf[n]
    /\ DOMAIN PathOf = Node
    /\ None \notin Table
    /\ None \notin Structure

VARIABLES
    tables,     \* the table each node has, or None
    keeper      \* the structure Keeper holds for each replication path, or None

clusterVars == <<tables, keeper>>

IsReplicated(engine) == engine = "ReplicatedMergeTree"
IsMergeTree(engine)  == engine \in {"MergeTree", "ReplicatedMergeTree"}

Has(n)      == tables[n] # None
Present     == {n \in Node : Has(n)}
IsReplica(n) == Has(n) /\ IsReplicated(tables[n].engine)
Replicas(p) == {n \in Node : IsReplica(n) /\ PathOf[n] = p}

(* A replica lags when it has not applied the structure Keeper holds.  Every *)
(* ALTER runs with alter_sync = 0, so even the replica that ran it lags.     *)
Lags(n)     == IsReplica(n) /\ tables[n].cols # keeper[PathOf[n]]
CaughtUp(p) == \A n \in Replicas(p) : ~Lags(n)

ClusterTypeOK ==
    /\ tables \in [Node -> Table \cup {None}]
    /\ keeper \in [Path -> Structure \cup {None}]

(* Keeper has a structure for a path exactly while a replica uses the path. *)
KeeperConsistent == \A p \in Path : (keeper[p] = None) <=> (Replicas(p) = {})

-----------------------------------------------------------------------------
(* Statements.  A guard that is false makes the server answer with an error. *)

(* CREATE TABLE has no IF NOT EXISTS, and a new replica must declare the      *)
(* structure Keeper holds.                                                    *)
CanCreate(n, table) ==
    /\ ~Has(n)
    /\ IsReplicated(table.engine) => keeper[PathOf[n]] \in {None, table.cols}

(* A new replica fetches the rows of the others.                              *)
CreateTable(n, table) ==
    /\ tables' = [tables EXCEPT ![n] =
                    [table EXCEPT !.rows = /\ IsReplicated(table.engine)
                                           /\ \E m \in Replicas(PathOf[n]) : tables[m].rows]]
    /\ keeper' = IF IsReplicated(table.engine)
                 THEN [keeper EXCEPT ![PathOf[n]] = table.cols]
                 ELSE keeper

(* DROP TABLE ... SYNC releases the replica in Keeper.                        *)
DropTable(n) ==
    /\ tables' = [tables EXCEPT ![n] = None]
    /\ keeper' = [keeper EXCEPT ![PathOf[n]] =
                    IF Replicas(PathOf[n]) \subseteq {n} THEN None ELSE @]

(* An ALTER of the structure: at once on a local table, through Keeper on a   *)
(* replica.  Unmanaged columns are never named by the statement.              *)
AlterStructure(n, managed) ==
    IF IsReplica(n)
    THEN /\ keeper' = [keeper EXCEPT ![PathOf[n]].managed = managed]
         /\ UNCHANGED tables
    ELSE /\ tables' = [tables EXCEPT ![n].cols.managed = managed]
         /\ UNCHANGED keeper

(* MODIFY SETTING and RESET SETTING change only the replica that runs them.   *)
AlterSettings(n, settings) ==
    /\ tables' = [tables EXCEPT ![n].settings = settings]
    /\ UNCHANGED keeper

(* A replica applies the structure Keeper holds.                              *)
CatchUp(n) ==
    /\ Lags(n)
    /\ tables' = [tables EXCEPT ![n].cols = keeper[PathOf[n]]]
    /\ UNCHANGED keeper

(* A client inserts rows; the other replicas of the table fetch them.         *)
Insert(n) ==
    /\ Has(n) /\ ~tables[n].rows
    /\ tables' = [m \in Node |->
                    IF m = n \/ (/\ IsReplica(n) /\ IsReplica(m) /\ PathOf[m] = PathOf[n])
                    THEN [tables[m] EXCEPT !.rows = TRUE] ELSE tables[m]]
    /\ UNCHANGED keeper
=============================================================================
