----------------------- MODULE NodeConvergenceProofs -----------------------
(* What NodeConvergence satisfies for every cluster, every configuration and *)
(* any number of failures and changes by other clients.                      *)
EXTENDS NodeConvergence, WellFoundedInduction, TLAPS

-----------------------------------------------------------------------------
(* Each statement leaves tables on the nodes and structures in Keeper.        *)

LEMMA CreateTableType ==
    ASSUME ClusterTypeOK, NEW n \in Node, NEW table \in Table, CreateTable(n, table)
    PROVE  ClusterTypeOK'
<1>1. [table EXCEPT !.rows = /\ IsReplicated(table.engine)
                             /\ \E m \in Replicas(PathOf[n]) : tables[m].rows] \in Table
  BY DEF Table
<1>2. tables' \in [Node -> Table \cup {None}]
  BY <1>1 DEF CreateTable, ClusterTypeOK
<1>3. keeper' \in [Path -> Structure \cup {None}]
  BY DEF CreateTable, ClusterTypeOK, Table
<1> QED  BY <1>2, <1>3 DEF ClusterTypeOK

LEMMA DropTableType ==
    ASSUME ClusterTypeOK, NEW n \in Node, DropTable(n)
    PROVE  ClusterTypeOK'
BY DEF DropTable, ClusterTypeOK

LEMMA AlterSettingsType ==
    ASSUME ClusterTypeOK, NEW n \in Node, Has(n), NEW v \in Values, AlterSettings(n, v)
    PROVE  ClusterTypeOK'
<1>1. tables[n] \in Table
  BY DEF ClusterTypeOK, Has
<1>2. [tables[n] EXCEPT !.settings = v] \in Table
  BY <1>1 DEF Table
<1> QED  BY <1>2 DEF AlterSettings, ClusterTypeOK

LEMMA PathOfNode == ASSUME NEW n \in Node PROVE PathOf[n] \in Path
BY DEF Path

LEMMA AlterStructureType ==
    ASSUME ClusterTypeOK, KeeperConsistent, NEW n \in Node, Has(n), NEW v \in Values,
           AlterStructure(n, v)
    PROVE  ClusterTypeOK'
<1>1. CASE IsReplica(n)
  <2>1. n \in Replicas(PathOf[n])
    BY <1>1 DEF Replicas
  <2>2. keeper[PathOf[n]] \in Structure
    BY <2>1, PathOfNode DEF KeeperConsistent, ClusterTypeOK
  <2>3. [keeper[PathOf[n]] EXCEPT !.managed = v] \in Structure
    BY <2>2 DEF Structure
  <2> QED  BY <1>1, <2>3 DEF AlterStructure, ClusterTypeOK
<1>2. CASE ~IsReplica(n)
  <2>1. tables[n] \in Table
    BY DEF ClusterTypeOK, Has
  <2>2. [tables[n].cols EXCEPT !.managed = v] \in Structure
    BY <2>1 DEF Table, Structure
  <2>3. [tables[n] EXCEPT !.cols = [tables[n].cols EXCEPT !.managed = v]] \in Table
    BY <2>1, <2>2 DEF Table
  <2> QED  BY <1>2, <2>3 DEF AlterStructure, ClusterTypeOK
<1> QED  BY <1>1, <1>2

LEMMA CatchUpTable ==
    ASSUME ClusterTypeOK, KeeperConsistent, NEW n \in Node, CatchUp(n)
    PROVE  /\ Has(n) /\ tables[n] \in Table
           /\ [tables[n] EXCEPT !.cols = keeper[PathOf[n]]] \in Table
<1>1. n \in Replicas(PathOf[n]) /\ Has(n)
  BY DEF CatchUp, Lags, IsReplica, Replicas
<1>2. keeper[PathOf[n]] \in Structure /\ tables[n] \in Table
  BY <1>1, PathOfNode DEF KeeperConsistent, ClusterTypeOK, Has
<1>3. [tables[n] EXCEPT !.cols = keeper[PathOf[n]]] \in Table
  BY <1>2 DEF Table
<1> QED  BY <1>1, <1>2, <1>3

LEMMA CatchUpType ==
    ASSUME ClusterTypeOK, KeeperConsistent, NEW n \in Node, CatchUp(n)
    PROVE  ClusterTypeOK'
BY CatchUpTable DEF CatchUp, ClusterTypeOK

LEMMA InsertType ==
    ASSUME ClusterTypeOK, NEW n \in Node, Insert(n)
    PROVE  ClusterTypeOK'
<1>1. ASSUME NEW m \in Node, Has(m)
      PROVE  [tables[m] EXCEPT !.rows = TRUE] \in Table
  BY <1>1 DEF ClusterTypeOK, Has, Table
<1> QED  BY <1>1 DEF Insert, ClusterTypeOK, IsReplica
-----------------------------------------------------------------------------
(* Each statement keeps Keeper in step with the replicas.                     *)

LEMMA CreateTableConsistent ==
    ASSUME ClusterTypeOK, KeeperConsistent, NEW n \in Node, NEW table \in Table,
           CanCreate(n, table), CreateTable(n, table)
    PROVE  KeeperConsistent'
<1> DEFINE replicated == IsReplicated(table.engine)
<1>1. table.cols \in Structure /\ table.cols # None
  BY ClusterAssumption DEF Table
<1>2. /\ tables'[n].engine = table.engine /\ tables'[n] # None
      /\ \A m \in Node \ {n} : tables'[m] = tables[m]
  BY CreateTableType, ClusterAssumption DEF CreateTable, ClusterTypeOK, Table
<1>3. ~Has(n)
  BY DEF CanCreate
<1>4. ASSUME NEW p \in Path
      PROVE  Replicas(p)' = IF replicated /\ PathOf[n] = p THEN Replicas(p) \cup {n} ELSE Replicas(p)
  BY <1>2, <1>3 DEF Replicas, IsReplica, Has
<1>5. ASSUME NEW p \in Path
      PROVE  keeper'[p] = IF replicated /\ PathOf[n] = p THEN table.cols ELSE keeper[p]
  BY DEF CreateTable, ClusterTypeOK
<1> QED  BY <1>1, <1>4, <1>5 DEF KeeperConsistent

LEMMA DropTableConsistent ==
    ASSUME ClusterTypeOK, KeeperConsistent, NEW n \in Node, DropTable(n)
    PROVE  KeeperConsistent'
<1>1. /\ tables'[n] = None
      /\ \A m \in Node \ {n} : tables'[m] = tables[m]
  BY DEF DropTable, ClusterTypeOK
<1>2. ASSUME NEW p \in Path
      PROVE  Replicas(p)' = Replicas(p) \ {n}
  BY <1>1 DEF Replicas, IsReplica, Has
<1>3. ASSUME NEW p \in Path
      PROVE  keeper'[p] = IF PathOf[n] = p /\ Replicas(p) \subseteq {n} THEN None ELSE keeper[p]
  BY DEF DropTable, ClusterTypeOK
<1>4. ASSUME NEW p \in Path, PathOf[n] # p
      PROVE  n \notin Replicas(p)
  BY <1>4 DEF Replicas
<1> QED  BY <1>2, <1>3, <1>4 DEF KeeperConsistent

(* A statement that leaves engines alone and a structure where one was.       *)
LEMMA EnginesKeptConsistent ==
    ASSUME KeeperConsistent,
           \A n \in Node : /\ Has(n)' <=> Has(n)
                           /\ Has(n) => tables'[n].engine = tables[n].engine,
           \A p \in Path : (keeper'[p] = None) <=> (keeper[p] = None)
    PROVE  KeeperConsistent'
<1>1. \A p \in Path : Replicas(p)' = Replicas(p)
  BY DEF Replicas, IsReplica, Has
<1> QED  BY <1>1 DEF KeeperConsistent

LEMMA AlterSettingsConsistent ==
    ASSUME ClusterTypeOK, KeeperConsistent, NEW n \in Node, Has(n), NEW v \in Values,
           AlterSettings(n, v)
    PROVE  KeeperConsistent'
<1>1. tables[n] \in Table /\ [tables[n] EXCEPT !.settings = v] \in Table
  BY DEF ClusterTypeOK, Has, Table
<1>2. tables' = [tables EXCEPT ![n] = [tables[n] EXCEPT !.settings = v]]
  BY DEF AlterSettings
<1>3. \A m \in Node : /\ Has(m)' <=> Has(m)
                      /\ Has(m) => tables'[m].engine = tables[m].engine
  BY <1>1, <1>2, ClusterAssumption DEF ClusterTypeOK, Has, Table
<1> QED  BY <1>3, EnginesKeptConsistent DEF AlterSettings

LEMMA AlterStructureConsistent ==
    ASSUME ClusterTypeOK, KeeperConsistent, NEW n \in Node, Has(n), NEW v \in Values,
           AlterStructure(n, v)
    PROVE  KeeperConsistent'
<1>1. CASE IsReplica(n)
  <2>1. n \in Replicas(PathOf[n])
    BY <1>1 DEF Replicas
  <2>2. keeper[PathOf[n]] \in Structure
    BY <2>1, PathOfNode DEF KeeperConsistent, ClusterTypeOK
  <2>3. [keeper[PathOf[n]] EXCEPT !.managed = v] \in Structure
    BY <2>2 DEF Structure
  <2>4. \A p \in Path : (keeper'[p] = None) <=> (keeper[p] = None)
    BY <1>1, <2>2, <2>3, ClusterAssumption DEF AlterStructure, ClusterTypeOK
  <2> QED  BY <1>1, <2>4, EnginesKeptConsistent DEF AlterStructure, Has
<1>2. CASE ~IsReplica(n)
  <2>1. tables[n] \in Table
    BY DEF ClusterTypeOK, Has
  <2>2. [tables[n].cols EXCEPT !.managed = v] \in Structure
    BY <2>1 DEF Table, Structure
  <2>3. [tables[n] EXCEPT !.cols = [tables[n].cols EXCEPT !.managed = v]] \in Table
    BY <2>1, <2>2 DEF Table
  <2>4. /\ tables'[n] = [tables[n] EXCEPT !.cols = [tables[n].cols EXCEPT !.managed = v]]
        /\ \A m \in Node \ {n} : tables'[m] = tables[m]
    BY <1>2 DEF AlterStructure, ClusterTypeOK
  <2>5. Has(n)' /\ tables'[n].engine = tables[n].engine
    BY <2>1, <2>3, <2>4, ClusterAssumption DEF Has, Table
  <2>6. \A m \in Node : /\ Has(m)' <=> Has(m)
                        /\ Has(m) => tables'[m].engine = tables[m].engine
    BY <2>4, <2>5 DEF Has
  <2> QED  BY <1>2, <2>6, EnginesKeptConsistent DEF AlterStructure
<1> QED  BY <1>1, <1>2

LEMMA CatchUpConsistent ==
    ASSUME ClusterTypeOK, KeeperConsistent, NEW n \in Node, CatchUp(n)
    PROVE  KeeperConsistent'
<1>1. /\ Has(n) /\ tables[n] \in Table
      /\ [tables[n] EXCEPT !.cols = keeper[PathOf[n]]] \in Table
  BY CatchUpTable
<1>4. /\ tables'[n] = [tables[n] EXCEPT !.cols = keeper[PathOf[n]]]
      /\ \A m \in Node \ {n} : tables'[m] = tables[m]
  BY DEF CatchUp, ClusterTypeOK
<1>5. \A m \in Node : /\ Has(m)' <=> Has(m)
                      /\ Has(m) => tables'[m].engine = tables[m].engine
  BY <1>1, <1>4, ClusterAssumption DEF Has, Table
<1> QED  BY <1>5, EnginesKeptConsistent DEF CatchUp

LEMMA InsertConsistent ==
    ASSUME ClusterTypeOK, KeeperConsistent, NEW n \in Node, Insert(n)
    PROVE  KeeperConsistent'
<1>1. ASSUME NEW m \in Node
      PROVE  /\ Has(m)' <=> Has(m)
             /\ Has(m) => tables'[m].engine = tables[m].engine
  <2>1. tables'[m] = tables[m] \/ (Has(m) /\ tables'[m] = [tables[m] EXCEPT !.rows = TRUE])
    BY DEF Insert, IsReplica
  <2>2. Has(m) => tables[m] \in Table /\ [tables[m] EXCEPT !.rows = TRUE] \in Table
    BY DEF ClusterTypeOK, Has, Table
  <2> QED  BY <2>1, <2>2, ClusterAssumption DEF Has, Table
<1> QED  BY <1>1, EnginesKeptConsistent DEF Insert
-----------------------------------------------------------------------------
(* Every step runs one statement on the cluster, or none.                     *)

Statement ==
    \/ UNCHANGED clusterVars
    \/ \E n \in Node, table \in Table : CanCreate(n, table) /\ CreateTable(n, table)
    \/ \E n \in Node : DropTable(n)
    \/ \E n \in Node, v \in Values : Has(n) /\ AlterStructure(n, v)
    \/ \E n \in Node, v \in Values : Has(n) /\ AlterSettings(n, v)
    \/ \E n \in Node : CatchUp(n)
    \/ \E n \in Node : Insert(n)

LEMMA StatementSafe ==
    ASSUME ClusterTypeOK, KeeperConsistent, Statement
    PROVE  ClusterTypeOK' /\ KeeperConsistent'
<1>1. CASE UNCHANGED clusterVars
  BY <1>1 DEF clusterVars, ClusterTypeOK, KeeperConsistent, Replicas, IsReplica, Has
<1>2. CASE \E n \in Node, table \in Table : CanCreate(n, table) /\ CreateTable(n, table)
  BY <1>2, CreateTableType, CreateTableConsistent
<1>3. CASE \E n \in Node : DropTable(n)
  BY <1>3, DropTableType, DropTableConsistent
<1>4. CASE \E n \in Node, v \in Values : Has(n) /\ AlterStructure(n, v)
  BY <1>4, AlterStructureType, AlterStructureConsistent
<1>5. CASE \E n \in Node, v \in Values : Has(n) /\ AlterSettings(n, v)
  BY <1>5, AlterSettingsType, AlterSettingsConsistent
<1>6. CASE \E n \in Node : CatchUp(n)
  BY <1>6, CatchUpType, CatchUpConsistent
<1>7. CASE \E n \in Node : Insert(n)
  BY <1>7, InsertType, InsertConsistent
<1> QED  BY <1>1, <1>2, <1>3, <1>4, <1>5, <1>6, <1>7 DEF Statement

LEMMA ConfiguredTableType == ConfiguredTable \in Table
BY ConvergenceAssumption DEF ConfiguredTable, Configured, Table, Structure, Definition

LEMMA NewTableType == ASSUME TypeOK, NEW n \in Node PROVE NewTable(n) \in Table
<1>1. ShardOf[n] \in Shard
  BY DEF Shard
<1>2. refs[ShardOf[n]] # None => refs[ShardOf[n]] \in Structure
  BY <1>1 DEF TypeOK
<1>3. ASSUME NEW st \in Structure PROVE Configured(st) \in Table
  BY ConvergenceAssumption DEF Configured, Table, Definition
<1> QED  BY <1>2, <1>3, ConfiguredTableType DEF NewTable

(* Statements of the provider, whichever answer they get.                     *)
LEMMA ExecAlterStatement == ASSUME TypeOK, PositionInv, ExecAlter PROVE Statement
<1>1. at \in Node /\ Has(at)
  BY DEF ExecAlter, PositionInv, TypeOK
<1>2. Desired.managed \in Values /\ Desired.settings \in Values
  BY ConvergenceAssumption DEF Definition
<1> QED  BY <1>1, <1>2 DEF ExecAlter, Statement

LEMMA DropStatement == ASSUME at \in Node, DropIfPresent PROVE Statement
BY DEF DropIfPresent, Statement

LEMMA ExecCreateStatement ==
    ASSUME TypeOK, PositionInv, ExecCreate \/ ExecRecreate PROVE Statement
<1>1. at \in Node
  BY DEF ExecCreate, ExecRecreate, PositionInv, TypeOK
<1> QED  BY <1>1, ConfiguredTableType, NewTableType DEF ExecCreate, ExecRecreate, Statement

LEMMA OtherClientStatement ==
    ASSUME NEW n \in Node, OtherClient(n) PROVE Statement
<1>1. ASSUME NEW table \in StartTables
      PROVE  table \in Table /\ table.cols.managed \in Values /\ table.settings \in Values
  BY ConvergenceAssumption DEF Table, Structure
<1> QED  BY <1>1 DEF OtherClient, Statement

LEMMA NextStatement == ASSUME TypeOK, PositionInv, [Next]_vars PROVE Statement
<1>1. CASE Plan
  BY <1>1 DEF Plan, Refresh, PlanCreate, PlanUpdate, PlanReplace, PlanDestroy, Begin, Statement
<1>2. CASE Converge
  <2>1. CASE Alter
    BY <2>1, ExecAlterStatement DEF Alter
  <2>2. CASE RecreateDrop
    BY <2>2, DropStatement DEF RecreateDrop, PositionInv, TypeOK
  <2>3. CASE RecreateCreate \/ CreateMissing
    BY <2>3, ExecCreateStatement DEF RecreateCreate, CreateMissing
  <2>4. CASE UNCHANGED clusterVars
    BY <2>4 DEF Statement
  <2> QED  BY <1>2, <2>1, <2>2, <2>3, <2>4
           DEF Converge, Survey, SurveyDone, SkipMissing, ReconcileRefused,
               ReconcileInPlace, ReconcileByRecreate, AlterGone, Wait, Reconciled,
               RecreateRefused, RecreateAllowed, ReconcileDone, SkipExisting,
               ReadReference, CreateRejected, CreateDone, Final
<1>3. CASE Delete
  BY <1>3, DropStatement DEF Delete, Guard, GuardDone, DropNode, DropDone, Statement
<1>4. CASE Failure
  <2>1. CASE AnswerLost
    BY <2>1, ExecAlterStatement, ExecCreateStatement, DropStatement
       DEF AnswerLost, PositionInv, TypeOK
  <2>2. CASE DropNodeFails
    BY <2>2, DropStatement DEF DropNodeFails, Statement
  <2> QED  BY <1>4, <2>1, <2>2 DEF Failure, WaitTimeout, CallFails, Statement
<1>5. ASSUME NEW n \in Node, ReplicaCatchesUp(n) PROVE Statement
  BY <1>5 DEF ReplicaCatchesUp, Statement
<1>6. ASSUME NEW n \in Node, OtherClient(n) PROVE Statement
  BY <1>6, OtherClientStatement
<1>7. CASE Reconfigure \/ UNCHANGED vars
  BY <1>7 DEF Reconfigure, vars, Statement
<1> QED  BY <1>1, <1>2, <1>3, <1>4, <1>5, <1>6, <1>7 DEF Next
-----------------------------------------------------------------------------
(* The variables of the operation.                                            *)

OpTypeOK ==
    /\ conf \in Configuration
    /\ tf \in State \cup {None}
    /\ kind \in Kind
    /\ pc \in PC
    /\ at \in 1 .. N + 1
    /\ existing \subseteq Node
    /\ groups \subseteq Group
    /\ refs \in [Shard -> Structure \cup {None}]
    /\ failed \in BOOLEAN
    /\ last \in {"none", "applied", "destroyed", "failed"}
    /\ disturbed \in BOOLEAN
    /\ altered \in [Path -> Nat]
    /\ unseen \subseteq Node
    /\ faults \in 0 .. MaxFaults
    /\ drift \in 0 .. MaxDrift
    /\ changes \in 0 .. MaxChanges

LEMMA TypeParts == TypeOK <=> ClusterTypeOK /\ OpTypeOK
BY DEF TypeOK, OpTypeOK

LEMMA ReferenceType ==
    ASSUME TypeOK, NEW n \in Node, Has(n) PROVE Reference(n) \in Structure
BY DEF TypeOK, ClusterTypeOK, Has, Reference, Table

LEMMA FirstInShardType ==
    ASSUME NEW n \in Node, existing \subseteq Node, ShardMates(n) # {}
    PROVE  FirstInShard(n) \in ShardMates(n) /\ FirstInShard(n) \in Node
<1>1. ShardMates(n) \subseteq Node
  BY DEF ShardMates
<1>2. \E m \in ShardMates(n) : \A k \in ShardMates(n) : m <= k
  <2> DEFINE less == OpToRel(<, Nat)
  <2>1. ShardMates(n) \subseteq Nat
    BY <1>1, ClusterAssumption DEF Node
  <2>2. \A i, j \in Nat : <<i, j>> \in less <=> i < j
    BY DEF OpToRel
  <2>3. IsWellFoundedOn(less, Nat)
    BY NatLessThanWellFounded
  <2> HIDE DEF less
  <2>4. PICK m \in ShardMates(n) : \A k \in ShardMates(n) : <<k, m>> \notin less
    BY <2>1, <2>3, WFMin
  <2>5. ASSUME NEW k \in ShardMates(n) PROVE m <= k
    <3>1. k \in Nat /\ m \in Nat
      BY <2>1
    <3>2. ~(k < m)
      BY <2>2, <2>4, <3>1
    <3> QED  BY <3>1, <3>2
  <2> QED  BY <2>5
<1> QED  BY <1>1, <1>2 DEF FirstInShard
LEMMA NodeBounds == /\ \A n \in Node : n \in 1 .. N + 1 /\ n + 1 \in 1 .. N + 1
                    /\ 1 \in Node
BY ClusterAssumption DEF Node

LEMMA EndType ==
    ASSUME OpTypeOK,
           NEW outcome \in {"applied", "destroyed", "failed"}, NEW newTf \in State \cup {None},
           End(outcome, newTf), faults' \in 0 .. MaxFaults
    PROVE  OpTypeOK'
BY NodeBounds DEF End, ClearLoop, OpTypeOK, PC, Kind, Group

LEMMA FailType == ASSUME OpTypeOK, Fail, faults' \in 0 .. MaxFaults PROVE OpTypeOK'
BY EndType DEF Fail, OpTypeOK

LEMMA FaultType == ASSUME OpTypeOK, Fault PROVE faults' \in 0 .. MaxFaults
BY ConvergenceAssumption DEF Fault, OpTypeOK

LEMMA AlteredType == ASSUME OpTypeOK, ExecAlter PROVE altered' \in [Path -> Nat]
<1>1. \/ altered' = altered
      \/ altered' = [altered EXCEPT ![PathOf[at]] = @ + 1]
  BY DEF ExecAlter
<1> QED  BY <1>1 DEF OpTypeOK

LEMMA PlanOpType == ASSUME OpTypeOK, Plan PROVE OpTypeOK'
<1>1. CASE Refresh
  BY <1>1 DEF Refresh, OpTypeOK, opVars, loopVars, historyVars
<1>2. ASSUME NEW operation \in Kind, NEW first \in PC, Begin(operation, first), UNCHANGED tf
      PROVE  OpTypeOK'
  BY <1>2, NodeBounds DEF Begin, ClearLoop, OpTypeOK, Group
<1>3. CASE PlanCreate \/ PlanUpdate \/ PlanReplace \/ PlanDestroy
  BY <1>2, <1>3 DEF PlanCreate, PlanUpdate, PlanReplace, PlanDestroy, Kind, PC
<1> QED  BY <1>1, <1>3 DEF Plan

LEMMA ConvergeOpType == ASSUME TypeOK, PositionInv, Converge PROVE OpTypeOK'
<1> USE TypeParts
<1>1. CASE Survey
  BY <1>1, NodeBounds DEF Survey, Goto, OpTypeOK, PC
<1>2. CASE SurveyDone
  <2>1. CASE Fail
    BY <1>2, <2>1, FailType DEF SurveyDone, OpTypeOK
  <2>2. CASE ~Fail
    BY <1>2, <2>2, NodeBounds DEF SurveyDone, Goto, OpTypeOK, PC
  <2> QED  BY <2>1, <2>2
<1>3. CASE SkipMissing \/ SkipExisting \/ ReconcileDone \/ CreateDone
  BY <1>3, NodeBounds DEF SkipMissing, SkipExisting, ReconcileDone, CreateDone, Goto, OpTypeOK, PC
<1>4. CASE ReconcileRefused \/ AlterGone \/ RecreateRefused \/ CreateRejected
  BY <1>4, FailType
     DEF ReconcileRefused, AlterGone, RecreateRefused, CreateRejected, OpTypeOK
<1>5. CASE ReconcileInPlace
  <2>1. Differences(tables[at]) \subseteq Group
    BY DEF Differences, Group
  <2> QED  BY <1>5, <2>1 DEF ReconcileInPlace, Goto, OpTypeOK, PC
<1>6. CASE ReconcileByRecreate \/ RecreateAllowed \/ Wait
  BY <1>6 DEF ReconcileByRecreate, RecreateAllowed, Wait, Goto, OpTypeOK, PC
<1>7. CASE Alter
  <2>1. altered' \in [Path -> Nat]
    BY <1>7, TypeParts, AlteredType DEF Alter
  <2> QED  BY <1>7, <2>1 DEF Alter, Goto, OpTypeOK, PC
<1>8. CASE Reconciled \/ RecreateCreate
  <2>1. at \in Node
    BY <1>8 DEF Reconciled, RecreateCreate, ExecRecreate, PositionInv, OpTypeOK
  <2> QED  BY <1>8, <2>1, NodeBounds DEF Reconciled, RecreateCreate, Goto, OpTypeOK, PC
<1>9. CASE RecreateDrop
  BY <1>9 DEF RecreateDrop, Goto, OpTypeOK, PC
<1>10. CASE ReadReference
  <2>1. at \in Node /\ ShardOf[at] \in Shard
    BY <1>10 DEF ReadReference, Shard
  <2>2. ShardMates(at) # {} => FirstInShard(at) \in Node
    BY <2>1, FirstInShardType DEF OpTypeOK
  <2>3. refs' \in [Shard -> Structure \cup {None}]
    BY <1>10, <2>1, <2>2, ReferenceType DEF ReadReference, OpTypeOK
  <2> QED  BY <1>10, <2>3 DEF ReadReference, Goto, OpTypeOK, PC
<1>11. CASE CreateMissing
  <2>1. at \in Node
    BY <1>11 DEF CreateMissing, ExecCreate, PositionInv
  <2> QED  BY <1>11, <2>1, NodeBounds DEF CreateMissing, Goto, OpTypeOK, PC
<1>12. CASE Final
  <2>1. faults' \in 0 .. MaxFaults
    BY <1>12 DEF Final, OpTypeOK
  <2>2. [force |-> conf.force] \in State
    BY DEF OpTypeOK, State, Configuration
  <2> QED  BY <1>12, <2>1, <2>2, EndType, FailType DEF Final
<1> QED  BY <1>1, <1>2, <1>3, <1>4, <1>5, <1>6, <1>7, <1>8, <1>9, <1>10, <1>11, <1>12 DEF Converge

LEMMA DeleteOpType == ASSUME OpTypeOK, Delete PROVE OpTypeOK'
<1>1. CASE Guard
  <2>1. failed' \in BOOLEAN
    BY <1>1 DEF Guard, HoldsRows
  <2> QED  BY <1>1, <2>1, NodeBounds DEF Guard, OpTypeOK
<1>2. CASE GuardDone
  <2>1. CASE Fail
    BY <1>2, <2>1, FailType DEF GuardDone, OpTypeOK
  <2>2. CASE ~Fail
    BY <1>2, <2>2, NodeBounds DEF GuardDone, Goto, OpTypeOK, PC
  <2> QED  BY <2>1, <2>2
<1>3. CASE DropNode
  BY <1>3, NodeBounds DEF DropNode, Goto, OpTypeOK, PC
<1>4. CASE DropDone
  <2>1. CASE failed
    BY <1>4, <2>1, FailType DEF DropDone, OpTypeOK
  <2>2. CASE ~failed /\ kind = "replace"
    BY <1>4, <2>2, NodeBounds DEF DropDone, ClearLoop, OpTypeOK, PC, Kind, Group, historyVars
  <2>3. CASE ~failed /\ kind # "replace"
    BY <1>4, <2>3, EndType DEF DropDone, OpTypeOK
  <2> QED  BY <2>1, <2>2, <2>3
<1> QED  BY <1>1, <1>2, <1>3, <1>4 DEF Delete

LEMMA FailureOpType == ASSUME OpTypeOK, Failure PROVE OpTypeOK'
<1>1. CASE WaitTimeout \/ CallFails
  BY <1>1, FailType, FaultType DEF WaitTimeout, CallFails
<1>2. CASE DropNodeFails
  BY <1>2, FaultType, NodeBounds DEF DropNodeFails, FailureCollected, OpTypeOK, historyVars
<1>3. CASE AnswerLost
  <2>1. altered' \in [Path -> Nat]
    BY <1>3, AlteredType DEF AnswerLost, OpTypeOK
  <2> QED  BY <1>3, <2>1, FaultType, NodeBounds DEF AnswerLost, ClearLoop, OpTypeOK, PC, Kind, Group
<1> QED  BY <1>1, <1>2, <1>3 DEF Failure

LEMMA OthersOpType ==
    ASSUME OpTypeOK, NEW n \in Node, ReplicaCatchesUp(n) \/ OtherClient(n) PROVE OpTypeOK'
<1>1. CASE ReplicaCatchesUp(n)
  BY <1>1 DEF ReplicaCatchesUp, OpTypeOK, opVars, loopVars, historyVars
<1>2. CASE OtherClient(n)
  BY <1>2, ConvergenceAssumption DEF OtherClient, OpTypeOK, opVars, loopVars
<1> QED  BY <1>1, <1>2

LEMMA OpTypeStep == ASSUME TypeOK, PositionInv, [Next]_vars PROVE OpTypeOK'
<1>1. CASE UNCHANGED vars
  BY <1>1, TypeParts DEF vars, opVars, loopVars, historyVars, OpTypeOK
<1>2. CASE Reconfigure
  <2>1. conf' \in Configuration /\ changes' \in 0 .. MaxChanges
    BY <1>2, TypeParts, ConvergenceAssumption DEF Reconfigure, OpTypeOK
  <2> QED  BY <1>2, <2>1, TypeParts DEF Reconfigure, opVars, loopVars, historyVars, OpTypeOK
<1> QED  BY <1>1, <1>2, TypeParts, PlanOpType, ConvergeOpType, DeleteOpType, FailureOpType, OthersOpType
         DEF Next
-----------------------------------------------------------------------------
(* Where the loops stand.                                                     *)

LEMMA EndPosition == ASSUME pc' = "idle", kind' = "none" PROVE PositionInv'
BY DEF PositionInv

LEMMA ConvergePosition == ASSUME TypeOK, PositionInv, Converge PROVE PositionInv'
<1>1. CASE Fail \/ Final
  BY <1>1, EndPosition DEF Fail, Final, End
<1>2. CASE Survey \/ (SurveyDone /\ ~Fail)
  BY <1>2 DEF Survey, SurveyDone, Goto, PositionInv, Adopting
<1>3. CASE SkipMissing \/ SkipExisting \/ ReconcileDone \/ CreateDone \/ Reconciled
  BY <1>3 DEF SkipMissing, SkipExisting, ReconcileDone, CreateDone, Reconciled, Goto, PositionInv
<1>4. CASE ReconcileInPlace \/ ReconcileByRecreate \/ RecreateAllowed \/ Wait \/ ReadReference
  BY <1>4 DEF ReconcileInPlace, ReconcileByRecreate, RecreateAllowed, Wait, ReadReference, Goto,
              PositionInv
<1>5. CASE Alter \/ RecreateDrop \/ RecreateCreate \/ CreateMissing
  BY <1>5 DEF Alter, ExecAlter, RecreateDrop, RecreateCreate, ExecRecreate, CreateMissing,
              ExecCreate, Goto, PositionInv
<1> QED  BY <1>1, <1>2, <1>3, <1>4, <1>5
         DEF Converge, ReconcileRefused, AlterGone, RecreateRefused, CreateRejected

LEMMA PositionStep == ASSUME TypeOK, PositionInv, [Next]_vars PROVE PositionInv'
<1>1. CASE Plan
  BY <1>1 DEF Plan, Refresh, PlanCreate, PlanUpdate, PlanReplace, PlanDestroy, Begin, ClearLoop,
              PositionInv, opVars, loopVars
<1>2. CASE Converge
  BY <1>2, ConvergePosition
<1>3. CASE Delete
  BY <1>3, EndPosition DEF Delete, Guard, GuardDone, DropNode, DropDone, Goto, ClearLoop, Fail, End,
              PositionInv
<1>4. CASE Failure
  BY <1>4, EndPosition DEF Failure, WaitTimeout, CallFails, AnswerLost, DropNodeFails, Fail, End,
              PositionInv
<1>5. ASSUME NEW n \in Node, ReplicaCatchesUp(n) \/ OtherClient(n) PROVE PositionInv'
  BY <1>5 DEF ReplicaCatchesUp, OtherClient, PositionInv, opVars, loopVars
<1>6. CASE UNCHANGED vars
  BY <1>6 DEF vars, opVars, loopVars, PositionInv
<1>7. CASE Reconfigure
  BY <1>7 DEF Reconfigure, opVars, loopVars, PositionInv
<1> QED  BY <1>1, <1>2, <1>3, <1>4, <1>5, <1>6, <1>7 DEF Next

Safe == TypeOK /\ KeeperConsistent /\ PositionInv

LEMMA SafeInit == ASSUME Init PROVE Safe
<1>1. tables \in [Node -> Table \cup {None}]
  BY ConvergenceAssumption DEF Init
<1>2. ClusterTypeOK /\ KeeperConsistent
  BY <1>1 DEF Init, ClusterTypeOK
<1>3. OpTypeOK
  <2>1. /\ faults \in 0 .. MaxFaults /\ drift \in 0 .. MaxDrift
        /\ changes \in 0 .. MaxChanges /\ at \in 1 .. N + 1
        /\ conf \in Configuration
    BY ConvergenceAssumption, NodeBounds DEF Init
  <2>2. refs \in [Shard -> Structure \cup {None}] /\ altered \in [Path -> Nat]
    BY DEF Init
  <2> QED  BY <2>1, <2>2 DEF Init, OpTypeOK, Kind, PC
<1>4. PositionInv
  BY DEF Init, PositionInv
<1> QED  BY <1>2, <1>3, <1>4, TypeParts DEF Safe

LEMMA SafeStep == ASSUME Safe, [Next]_vars PROVE Safe'
<1>1. TypeOK /\ PositionInv /\ KeeperConsistent
  BY DEF Safe
<1>2. ClusterTypeOK' /\ KeeperConsistent'
  BY <1>1, NextStatement, StatementSafe, TypeParts
<1>3. TypeOK'
  BY <1>1, <1>2, OpTypeStep DEF OpTypeOK, TypeOK
<1> QED  BY <1>1, <1>2, <1>3, PositionStep DEF Safe

LEMMA SafeAlways == Spec => []Safe
<1> QED  BY SafeInit, SafeStep, PTL DEF Spec

(* The variables of the operation and of the cluster keep their types, for    *)
(* every cluster, configuration and bound.                                    *)
THEOREM TypeCorrect == Spec => []TypeOK
<1>1. Safe => TypeOK
  BY DEF Safe
<1> QED  BY <1>1, SafeAlways, PTL

-----------------------------------------------------------------------------
(* What exists is left alone.                                                 *)

LEMMA ForeignStep ==
    ASSUME Safe, Next, kind = "create", ~conf.adopt, ProviderStep,
           NEW n \in Node, Has(n)
    PROVE  tables'[n] = tables[n]
<1>1. pc \notin {"alter", "wait", "recreate", "redrop", "recreated", "guard", "drop"}
  BY DEF Safe, PositionInv
<1>2. CASE CreateMissing \/ (AnswerLost /\ ExecCreate)
  <2>1. at \in Node /\ ~Has(at)
    BY <1>2 DEF CreateMissing, AnswerLost, ExecCreate, CanCreate, Safe, PositionInv
  <2>2. tables'[n] = tables[n]
    BY <1>2, <2>1 DEF CreateMissing, AnswerLost, ExecCreate, CreateTable, Safe, TypeOK, ClusterTypeOK
  <2> QED  BY <2>2
<1>3. CASE UNCHANGED clusterVars
  BY <1>3 DEF clusterVars
<1>4. CASE \E m \in Node : ReplicaCatchesUp(m) \/ OtherClient(m)
  BY <1>4 DEF ReplicaCatchesUp, OtherClient, opVars, ProviderStep
<1>5. CASE Plan
  BY <1>5, <1>3 DEF Plan, Refresh, PlanCreate, PlanUpdate, PlanReplace, PlanDestroy, Begin
<1>6. CASE Converge
  BY <1>1, <1>2, <1>3, <1>6
     DEF Converge, Survey, SurveyDone, SkipMissing, ReconcileRefused, ReconcileInPlace,
         ReconcileByRecreate, Alter, ExecAlter, AlterGone, Wait, Reconciled, RecreateRefused,
         RecreateAllowed, RecreateDrop, RecreateCreate, ExecRecreate, ReconcileDone, SkipExisting,
         ReadReference, CreateRejected, CreateDone, Final
<1>7. CASE Delete
  BY <1>1, <1>7 DEF Delete, Guard, GuardDone, DropNode, DropDone
<1>8. CASE Failure
  BY <1>1, <1>2, <1>3, <1>8
     DEF Failure, WaitTimeout, CallFails, DropNodeFails, AnswerLost, ExecAlter, ExecRecreate
<1>9. CASE Reconfigure
  BY <1>9 DEF Reconfigure, opVars, ProviderStep
<1> QED  BY <1>4, <1>5, <1>6, <1>7, <1>8, <1>9 DEF Next

(* ConvergeNodes, adopt false: a create changes no table another client made, *)
(* whenever it was made and whatever call failed.                             *)
THEOREM ForeignTablesSafe == Spec => ForeignTablesUntouched
<1>1. Safe /\ [Next]_vars =>
        [kind = "create" /\ ~conf.adopt /\ ProviderStep =>
            \A n \in Node : Has(n) => tables'[n] = tables[n]]_vars
  BY ForeignStep
<1> QED  BY <1>1, SafeAlways, PTL DEF Spec, ForeignTablesUntouched
-----------------------------------------------------------------------------
(* Rows are kept.                                                             *)

LEMMA CatchUpRows ==
    ASSUME Safe, NEW n \in Node, CatchUp(n), NEW m \in Node
    PROVE  HoldsRows(m)' <=> HoldsRows(m)
<1>1. CASE m # n
  BY <1>1 DEF CatchUp, HoldsRows, Has, Safe, TypeOK, ClusterTypeOK
<1>2. CASE m = n
  <2>1. Has(n) /\ tables[n] \in Table
    BY DEF CatchUp, Lags, IsReplica, Has, Safe, TypeOK, ClusterTypeOK
  <2>2. tables'[n] = [tables[n] EXCEPT !.cols = keeper[PathOf[n]]]
    BY DEF CatchUp, Safe, TypeOK, ClusterTypeOK
  <2>3. tables'[n].engine = tables[n].engine /\ tables'[n].rows = tables[n].rows
    BY <2>1, <2>2 DEF Table
  <2>4. Has(n)'
    BY CatchUpTable, <2>2, ClusterAssumption DEF Has, Safe, TypeOK, ClusterTypeOK
  <2> QED  BY <1>2, <2>1, <2>3, <2>4 DEF HoldsRows
<1> QED  BY <1>1, <1>2

LEMMA DropRows ==
    ASSUME Safe, NEW n \in Node, NEW m \in Node,
           DropTable(n) \/ UNCHANGED clusterVars, HoldsRows(m)'
    PROVE  HoldsRows(m) /\ ~(DropTable(n) /\ m = n)
BY DEF DropTable, HoldsRows, Has, clusterVars, Safe, TypeOK, ClusterTypeOK

LEMMA OtherClientRows ==
    ASSUME Safe, NEW n \in Node, OtherClient(n), NEW m \in Node \ unseen'
    PROVE  m \notin unseen /\ (HoldsRows(m)' <=> HoldsRows(m))
BY DEF OtherClient, HoldsRows, Has

LEMMA RowsStep == ASSUME Safe, RowsInv, [Next]_vars PROVE RowsInv'
<1>1. CASE pc' \notin {"redrop", "guard", "drop"}
  BY <1>1 DEF RowsInv
<1>2. CASE PlanReplace \/ PlanDestroy
  <2>1. pc' = "guard" /\ at' = 1
    BY <1>2 DEF PlanReplace, PlanDestroy, Begin, ClearLoop
  <2>2. \A n \in Node : ~(n < 1)
    BY ClusterAssumption DEF Node
  <2> QED  BY <2>1, <2>2 DEF RowsInv
<1>3. CASE RecreateAllowed
  BY <1>3 DEF RecreateAllowed, RecreateRefusal, Goto, RowsInv, HoldsRows, Has, clusterVars
<1>4. CASE Guard
  <2>1. /\ pc' = "guard" /\ at' = at + 1 /\ at \in Node /\ UNCHANGED <<tables, tf>>
        /\ unseen' = unseen \ {at} /\ failed' = (failed \/ HoldsRows(at))
    BY <1>4 DEF Guard, clusterVars
  <2>2. ASSUME ~Forced, ~failed', NEW n \in Node \ unseen', n < at + 1
        PROVE  ~HoldsRows(n)
    <3>1. ~HoldsRows(at) /\ ~failed
      BY <2>1, <2>2 DEF Safe, TypeOK
    <3>2. CASE n = at
      BY <3>1, <3>2
    <3>3. CASE n # at
      <4>1. n < at /\ n \notin unseen
        BY <2>1, <2>2, <3>3, ClusterAssumption DEF Node
      <4> QED  BY <1>4, <2>2, <3>1, <4>1 DEF RowsInv, Guard
    <3> QED  BY <3>2, <3>3
  <2> QED  BY <2>1, <2>2 DEF RowsInv, Forced, HoldsRows, Has
<1>5. CASE GuardDone /\ ~Fail
  <2>1. /\ pc = "guard" /\ pc' = "drop" /\ UNCHANGED <<tables, tf, unseen>>
        /\ ~failed /\ (Forced \/ at = N + 1)
    BY <1>5 DEF GuardDone, GuardRefuses, Goto, clusterVars
  <2>2. \A n \in Node : n < N + 1
    BY ClusterAssumption DEF Node
  <2> QED  BY <2>1, <2>2 DEF RowsInv, Forced, HoldsRows, Has
<1>6. CASE DropNode \/ DropNodeFails
  <2>1. /\ pc = "drop" /\ pc' = "drop" /\ UNCHANGED <<tf, unseen>> /\ at \in Node
        /\ DropTable(at) \/ UNCHANGED clusterVars
    BY <1>6 DEF DropNode, DropNodeFails, DropIfPresent, Goto, historyVars
  <2>2. \A m \in Node : HoldsRows(m)' => HoldsRows(m)
    BY <2>1, DropRows
  <2> QED  BY <2>1, <2>2 DEF RowsInv, Forced
<1>7. ASSUME NEW n \in Node, ReplicaCatchesUp(n) PROVE RowsInv'
  <2>1. CatchUp(n) /\ UNCHANGED <<conf, tf, pc, at, failed, unseen>>
    BY <1>7 DEF ReplicaCatchesUp, opVars, loopVars, historyVars
  <2>2. \A m \in Node : HoldsRows(m)' <=> HoldsRows(m)
    BY <2>1, CatchUpRows
  <2>3. pc = "redrop" => at \in Node
    BY DEF Safe, PositionInv, TypeOK
  <2>4. (Forced)' <=> Forced
    BY <2>1 DEF Forced
  <2>5. at \in Node => (HoldsRows(at)' <=> HoldsRows(at))
    BY <2>1, <2>2 DEF HoldsRows, Has
  <2> QED  BY <2>1, <2>2, <2>3, <2>4, <2>5 DEF RowsInv
<1>8. ASSUME NEW n \in Node, OtherClient(n) PROVE RowsInv'
  <2>1. UNCHANGED <<conf, tf, pc, at, failed>>
    BY <1>8 DEF OtherClient, opVars, loopVars
  <2>2. \A m \in Node \ unseen' : m \notin unseen /\ (HoldsRows(m)' <=> HoldsRows(m))
    BY <1>8, OtherClientRows
  <2>3. pc = "redrop" => at \in Node
    BY DEF Safe, PositionInv, TypeOK
  <2>4. (Forced)' <=> Forced
    BY <2>1 DEF Forced
  <2>5. at \in Node \ unseen' => at \notin unseen /\ (HoldsRows(at)' <=> HoldsRows(at))
    BY <2>1, <2>2 DEF HoldsRows, Has
  <2> QED  BY <2>1, <2>2, <2>3, <2>4, <2>5 DEF RowsInv
<1>9. CASE UNCHANGED vars
  BY <1>9 DEF vars, opVars, loopVars, historyVars, clusterVars, RowsInv, HoldsRows, Has, Forced
<1>10. CASE Plan
  BY <1>1, <1>2, <1>10, <1>9
     DEF Plan, Refresh, PlanCreate, PlanUpdate, Begin, opVars
<1>11. CASE Converge
  BY <1>1, <1>3, <1>11
     DEF Converge, Survey, SurveyDone, SkipMissing, ReconcileRefused, ReconcileInPlace,
         ReconcileByRecreate, Alter, AlterGone, Wait, Reconciled, RecreateRefused,
         RecreateDrop, RecreateCreate, ReconcileDone, SkipExisting, ReadReference,
         CreateMissing, CreateRejected, CreateDone, Final, Goto, Fail, End
<1>12. CASE Delete
  BY <1>1, <1>4, <1>5, <1>6, <1>12
     DEF Delete, GuardDone, DropDone, Fail, End
<1>13. CASE Failure
  BY <1>1, <1>6, <1>13 DEF Failure, WaitTimeout, CallFails, AnswerLost, Fail, End
<1>14. CASE Reconfigure
  BY <1>1, <1>14 DEF Reconfigure, opVars
<1> QED  BY <1>7, <1>8, <1>9, <1>10, <1>11, <1>12, <1>13, <1>14 DEF Next

LEMMA RowsAlways == Spec => [](Safe /\ RowsInv)
<1>1. Init => RowsInv
  BY DEF Init, RowsInv
<1> QED  BY <1>1, RowsStep, SafeInit, SafeStep, PTL DEF Spec
(* Only a drop empties a node.                                                *)
LEMMA AlterKeeps ==
    ASSUME Safe, ExecAlter, NEW n \in Node, Has(n) PROVE tables'[n] # None
<1>1. at \in Node /\ Has(at) /\ tables[at] \in Table
  BY DEF ExecAlter, Safe, PositionInv, TypeOK, ClusterTypeOK, Has
<1>2. CASE UNCHANGED tables
  BY <1>2 DEF Has
<1>3. CASE AlterSettings(at, Desired.settings)
  <2>1. [tables[at] EXCEPT !.settings = Desired.settings] \in Table
    BY <1>1, ConvergenceAssumption DEF Table, Definition
  <2> QED  BY <1>1, <1>3, <2>1, ClusterAssumption
           DEF AlterSettings, Has, Safe, TypeOK, ClusterTypeOK
<1>4. CASE AlterStructure(at, Desired.managed) /\ ~IsReplica(at)
  <2>1. [tables[at].cols EXCEPT !.managed = Desired.managed] \in Structure
    BY <1>1, ConvergenceAssumption DEF Table, Structure, Definition
  <2>2. [tables[at] EXCEPT !.cols = [tables[at].cols EXCEPT !.managed = Desired.managed]] \in Table
    BY <1>1, <2>1 DEF Table
  <2>3. tables' = [tables EXCEPT ![at].cols.managed = Desired.managed]
    BY <1>4 DEF AlterStructure
  <2> QED  BY <1>1, <2>2, <2>3, ClusterAssumption DEF Has, Safe, TypeOK, ClusterTypeOK
<1> QED  BY <1>2, <1>3, <1>4 DEF ExecAlter, AlterStructure

LEMMA CreateKeeps ==
    ASSUME Safe, NEW t \in Table, at \in Node, CreateTable(at, t), CanCreate(at, t),
           NEW n \in Node, Has(n)
    PROVE  tables'[n] # None
BY DEF CreateTable, CanCreate, Has, Safe, TypeOK, ClusterTypeOK

LEMMA RowsKeptStep ==
    ASSUME Safe, RowsInv, Next, ProviderStep, NEW n \in Node \ unseen, LosesRows(n)
    PROVE  DropAllowed
<1>1. Has(n) /\ HoldsRows(n) /\ tables'[n] = None /\ tables[n] \in Table
  BY DEF LosesRows, HoldsRows, IsMergeTree, Has, Safe, TypeOK, ClusterTypeOK, Table, Engine
<1>2. CASE pc = "redrop" /\ DropIfPresent
  <2>1. n = at
    BY <1>1, <1>2 DEF DropIfPresent, DropTable, clusterVars, Has, Safe, TypeOK, ClusterTypeOK
  <2> QED  BY <1>1, <1>2, <2>1 DEF RowsInv, DropAllowed
<1>3. CASE pc = "drop"
  BY <1>1, <1>3 DEF RowsInv, DropAllowed, Forced
<1>4. CASE UNCHANGED clusterVars
  BY <1>1, <1>4 DEF clusterVars, Has
<1>5. CASE ExecAlter
  BY <1>1, <1>5, AlterKeeps
<1>6. CASE ExecCreate
  <2>1. at \in Node /\ NewTable(at) \in Table
    BY <1>6, NewTableType DEF ExecCreate, Safe, PositionInv
  <2> QED  BY <1>1, <1>6, <2>1, CreateKeeps DEF ExecCreate
<1>7. CASE ExecRecreate
  <2>1. at \in Node
    BY <1>7 DEF ExecRecreate, Safe, PositionInv, TypeOK
  <2> QED  BY <1>1, <1>7, <2>1, CreateKeeps, ConfiguredTableType DEF ExecRecreate
<1>8. CASE \E m \in Node : ReplicaCatchesUp(m) \/ OtherClient(m)
  BY <1>8 DEF ReplicaCatchesUp, OtherClient, opVars, ProviderStep
<1>9. CASE Plan
  BY <1>4, <1>9 DEF Plan, Refresh, PlanCreate, PlanUpdate, PlanReplace, PlanDestroy, Begin
<1>10. CASE Converge
  BY <1>2, <1>4, <1>5, <1>6, <1>7, <1>10
     DEF Converge, Survey, SurveyDone, SkipMissing, ReconcileRefused, ReconcileInPlace,
         ReconcileByRecreate, Alter, AlterGone, Wait, Reconciled, RecreateRefused,
         RecreateAllowed, RecreateDrop, RecreateCreate, ReconcileDone, SkipExisting,
         ReadReference, CreateMissing, CreateRejected, CreateDone, Final
<1>11. CASE Delete
  BY <1>3, <1>4, <1>11 DEF Delete, Guard, GuardDone, DropNode, DropDone
<1>12. CASE Failure
  BY <1>2, <1>3, <1>4, <1>5, <1>6, <1>7, <1>12
     DEF Failure, WaitTimeout, CallFails, DropNodeFails, AnswerLost
<1>13. CASE Reconfigure
  BY <1>13 DEF Reconfigure, opVars, ProviderStep
<1> QED  BY <1>8, <1>9, <1>10, <1>11, <1>12, <1>13 DEF Next

(* guardDataLoss and recreateOnNode: without force_destroy no step drops a    *)
(* table with rows, unless another client changed the node after its check.   *)
THEOREM RowsSafe == Spec => RowsKept
<1>1. Safe /\ RowsInv /\ [Next]_vars =>
        [ProviderStep => \A n \in Node \ unseen : LosesRows(n) => DropAllowed]_vars
  BY RowsKeptStep
<1> QED  BY <1>1, RowsAlways, PTL DEF Spec, RowsKept
-----------------------------------------------------------------------------
(* A successful delete leaves no table.                                       *)

(* Until someone else changes the table or a drop fails, the nodes DeleteNodes *)
(* has passed lack it; once the operation has ended, all do.                   *)
GoneInv ==
    /\ pc # "idle" => last = "none"
    /\ pc = "drop" /\ ~disturbed /\ ~failed => \A n \in Node : n < at => ~Has(n)
    /\ last = "destroyed" /\ ~disturbed => \A n \in Node : ~Has(n)

LEMMA CatchUpHas ==
    ASSUME Safe, NEW n \in Node, CatchUp(n), NEW m \in Node PROVE Has(m)' <=> Has(m)
<1>1. CASE m # n
  BY <1>1 DEF CatchUp, Has, Safe, TypeOK, ClusterTypeOK
<1>2. CASE m = n
  <2>1. Has(n) /\ [tables[n] EXCEPT !.cols = keeper[PathOf[n]]] \in Table
    BY CatchUpTable DEF Safe, TypeOK
  <2>2. tables'[n] = [tables[n] EXCEPT !.cols = keeper[PathOf[n]]]
    BY DEF CatchUp, Safe, TypeOK, ClusterTypeOK
  <2> QED  BY <1>2, <2>1, <2>2, ClusterAssumption DEF Has
<1> QED  BY <1>1, <1>2

LEMMA DropGone ==
    ASSUME Safe, NEW n \in Node, DropIfPresent, at = n, NEW m \in Node,
           m = n \/ ~Has(m)
    PROVE  ~Has(m)'
BY DEF DropIfPresent, DropTable, Has, clusterVars, Safe, TypeOK, ClusterTypeOK

(* Steps that leave the delete loop alone.                                    *)
LEMMA AwayGone == ASSUME last' \notin {"destroyed"}, pc' # "drop",
                         pc' # "idle" => last' = "none"
                  PROVE  GoneInv'
BY DEF GoneInv

LEMMA GoneStep == ASSUME Safe, GoneInv, [Next]_vars PROVE GoneInv'
<1>1. CASE Plan
  <2>1. CASE Refresh
    BY <2>1 DEF Refresh, opVars, historyVars, loopVars, clusterVars, GoneInv, Has
  <2>2. CASE PlanCreate \/ PlanUpdate \/ PlanReplace \/ PlanDestroy
    <3>1. last' = "none" /\ pc' \in {"survey", "guard"}
      BY <2>2 DEF PlanCreate, PlanUpdate, PlanReplace, PlanDestroy, Begin
    <3> QED  BY <3>1, AwayGone
  <2> QED  BY <1>1, <2>1, <2>2 DEF Plan
<1>2. CASE Converge
  <2>1. pc \notin {"idle", "guard", "drop"} /\ last = "none"
    BY <1>2 DEF Converge, Survey, SurveyDone, SkipMissing, ReconcileRefused, ReconcileInPlace,
         ReconcileByRecreate, Alter, ExecAlter, AlterGone, Wait, Reconciled, RecreateRefused,
         RecreateAllowed, RecreateDrop, RecreateCreate, ExecRecreate, ReconcileDone, SkipExisting,
         ReadReference, CreateMissing, ExecCreate, CreateRejected, CreateDone, Final, GoneInv
  <2>2. \/ pc' = "idle" /\ last' \in {"applied", "failed"}
        \/ pc' \notin {"idle", "drop"} /\ last' = last
    BY <1>2 DEF Converge, Survey, SurveyDone, SkipMissing, ReconcileRefused, ReconcileInPlace,
         ReconcileByRecreate, Alter, AlterGone, Wait, Reconciled, RecreateRefused,
         RecreateAllowed, RecreateDrop, RecreateCreate, ReconcileDone, SkipExisting,
         ReadReference, CreateMissing, CreateRejected, CreateDone, Final, Goto, Fail, End
  <2> QED  BY <2>1, <2>2, AwayGone
<1>3. CASE Guard \/ (GuardDone /\ failed)
  BY <1>3, AwayGone DEF Guard, GuardDone, GuardRefuses, Fail, End, GoneInv
<1>4. CASE GuardDone /\ ~failed
  <2>1. pc = "guard" /\ pc' = "drop" /\ at' = 1 /\ last' = last
    BY <1>4 DEF GuardDone, GuardRefuses, Goto
  <2>2. \A n \in Node : ~(n < 1)
    BY ClusterAssumption DEF Node
  <2> QED  BY <2>1, <2>2 DEF GoneInv
<1>5. CASE DropNode
  <2>1. /\ pc = "drop" /\ pc' = "drop" /\ last' = last /\ at \in Node /\ at' = at + 1
        /\ DropIfPresent /\ failed' = failed /\ disturbed' = disturbed
    BY <1>5 DEF DropNode, Goto
  <2>2. ASSUME ~disturbed, ~failed, NEW n \in Node, n < at + 1
        PROVE  ~Has(n)'
    <3>1. n = at \/ n < at
      BY <2>1, <2>2, ClusterAssumption DEF Node
    <3>2. n = at \/ ~Has(n)
      BY <2>1, <2>2, <3>1 DEF GoneInv
    <3> QED  BY <2>1, <3>2, DropGone
  <2>3. last = "none"
    BY <2>1 DEF GoneInv
  <2>4. pc' = "drop" /\ ~disturbed' /\ ~failed' => \A n \in Node : n < at' => ~Has(n)'
    BY <2>1, <2>2
  <2> QED  BY <2>1, <2>3, <2>4 DEF GoneInv
<1>6. CASE DropDone
  <2>1. pc = "drop" /\ at = N + 1 /\ UNCHANGED clusterVars /\ last = "none"
    BY <1>6 DEF DropDone, GoneInv
  <2>2. CASE failed
    BY <1>6, <2>2, AwayGone DEF DropDone, Fail, End
  <2>3. CASE ~failed /\ kind = "replace"
    <3>1. pc' = "survey" /\ last' = last
      BY <1>6, <2>3 DEF DropDone, historyVars
    <3> QED  BY <2>1, <3>1, AwayGone
  <2>4. CASE ~failed /\ kind # "replace"
    <3>1. pc' = "idle" /\ last' = "destroyed" /\ disturbed' = disturbed
      BY <1>6, <2>4 DEF DropDone, End
    <3>2. \A n \in Node : n < at
      BY <2>1, ClusterAssumption DEF Node
    <3>3. ~disturbed => \A n \in Node : ~Has(n)
      BY <2>1, <2>4, <3>2 DEF GoneInv
    <3>4. \A n \in Node : Has(n)' <=> Has(n)
      BY <2>1 DEF clusterVars, Has
    <3> QED  BY <3>1, <3>3, <3>4 DEF GoneInv
  <2> QED  BY <2>2, <2>3, <2>4
<1>7. CASE DropNodeFails
  BY <1>7 DEF DropNodeFails, FailureCollected, historyVars, GoneInv
<1>8. CASE WaitTimeout \/ CallFails \/ AnswerLost
  BY <1>8, AwayGone DEF WaitTimeout, CallFails, AnswerLost, Fail, End
<1>9. ASSUME NEW n \in Node, ReplicaCatchesUp(n) PROVE GoneInv'
  <2>1. CatchUp(n) /\ UNCHANGED <<pc, at, failed, last, disturbed>>
    BY <1>9 DEF ReplicaCatchesUp, opVars, loopVars, historyVars
  <2>2. \A m \in Node : Has(m)' <=> Has(m)
    BY <2>1, CatchUpHas
  <2> QED  BY <2>1, <2>2 DEF GoneInv
<1>10. ASSUME NEW n \in Node, OtherClient(n) PROVE GoneInv'
  BY <1>10 DEF OtherClient, opVars, loopVars, GoneInv
<1>11. CASE Reconfigure \/ UNCHANGED vars
  BY <1>11 DEF Reconfigure, vars, opVars, historyVars, loopVars, clusterVars, GoneInv, Has
<1> QED  BY <1>1, <1>2, <1>3, <1>4, <1>5, <1>6, <1>7, <1>8, <1>9, <1>10, <1>11
         DEF Next, Delete, Failure

LEMMA GoneAlways == Spec => [](Safe /\ GoneInv)
<1>1. Init => GoneInv
  BY DEF Init, GoneInv
<1> QED  BY <1>1, GoneStep, SafeInit, SafeStep, PTL DEF Spec

(* DeleteNodes: Terraform forgets a table only once no node has it, whatever  *)
(* calls failed on the way, unless another client changed it meanwhile.       *)
THEOREM DestroyedGone == Spec => []DestroyedMeansGone
<1>1. GoneInv => DestroyedMeansGone
  BY DEF GoneInv, DestroyedMeansGone, Present
<1> QED  BY <1>1, GoneAlways, PTL

-----------------------------------------------------------------------------
(* What an apply that nobody disturbs achieves, for every cluster and every   *)
(* configuration: the configured definition on every node, with one ALTER     *)
(* for all replicas of a table.                                               *)

Fits(n) == Has(n) /\ Matches(tables[n])

Reconciling == {"reread", "alter", "wait", "recreate", "redrop", "recreated"}
Creating    == {"create", "creating"}

(* A lagging replica only waits for what the operation wants, and so does a   *)
(* replica created after a reference.                                         *)
LagInv ==
    ~disturbed =>
        /\ OnlyOwnLag
        /\ \A s \in Shard : refs[s] # None => refs[s].managed = Desired.managed

(* Reconciling at a node: what no group is left for is as configured, or is   *)
(* on its way to the replica.                                                 *)
AlteringInv ==
    ~disturbed /\ pc \in {"alter", "wait"} =>
        /\ Has(at)
        /\ tables[at].engine = Desired.engine /\ tables[at].key = Desired.key
        /\ "settings" \notin groups => tables[at].settings = Desired.settings
        /\ "structure" \notin groups =>
             \/ tables[at].cols.managed = Desired.managed
             \/ /\ pc = "wait" /\ IsReplica(at)
                /\ keeper[PathOf[at]].managed = Desired.managed

(* The nodes the loops have passed fit.                                       *)
PassedInv ==
    ~disturbed =>
        /\ pc \in Reconciling => \A n \in existing : n < at => Fits(n)
        /\ pc \in Creating => \A n \in Node : n \in existing \/ n < at => Fits(n)
        /\ pc = "final" \/ last = "applied" => \A n \in Node : Fits(n)

FitInv == LagInv /\ AlteringInv /\ PassedInv

-----------------------------------------------------------------------------
(* The statements that run while nobody else changes the table.               *)

OwnStatement ==
    \/ UNCHANGED clusterVars
    \/ \E n \in Node, table \in Table : CanCreate(n, table) /\ CreateTable(n, table)
    \/ \E n \in Node : DropTable(n)
    \/ \E n \in Node : Has(n) /\ AlterStructure(n, Desired.managed)
    \/ \E n \in Node : Has(n) /\ AlterSettings(n, Desired.settings)
    \/ \E n \in Node : CatchUp(n)

LEMMA ExecAlterOwn == ASSUME Safe, ExecAlter PROVE at \in Node /\ OwnStatement
<1>1. at \in Node /\ Has(at)
  BY DEF ExecAlter, Safe, PositionInv, TypeOK
<1> QED  BY <1>1 DEF ExecAlter, OwnStatement

LEMMA DropOwn == ASSUME at \in Node, DropIfPresent PROVE OwnStatement
BY DEF DropIfPresent, OwnStatement

LEMMA ExecCreateOwn == ASSUME Safe, ExecCreate \/ ExecRecreate PROVE OwnStatement
<1>1. at \in Node
  BY DEF ExecCreate, ExecRecreate, Safe, PositionInv, TypeOK
<1> QED  BY <1>1, ConfiguredTableType, NewTableType DEF ExecCreate, ExecRecreate, OwnStatement, Safe

LEMMA NextOwn == ASSUME Safe, [Next]_vars, ~disturbed' PROVE OwnStatement
<1>1. CASE Plan
  BY <1>1 DEF Plan, Refresh, PlanCreate, PlanUpdate, PlanReplace, PlanDestroy, Begin, OwnStatement
<1>2. CASE Converge
  <2>1. CASE Alter
    BY <2>1, ExecAlterOwn DEF Alter
  <2>2. CASE RecreateDrop
    BY <2>2, DropOwn DEF RecreateDrop, Safe, PositionInv, TypeOK
  <2>3. CASE RecreateCreate \/ CreateMissing
    BY <2>3, ExecCreateOwn DEF RecreateCreate, CreateMissing
  <2>4. CASE UNCHANGED clusterVars
    BY <2>4 DEF OwnStatement
  <2> QED  BY <1>2, <2>1, <2>2, <2>3, <2>4
           DEF Converge, Survey, SurveyDone, SkipMissing, ReconcileRefused,
               ReconcileInPlace, ReconcileByRecreate, AlterGone, Wait, Reconciled,
               RecreateRefused, RecreateAllowed, ReconcileDone, SkipExisting,
               ReadReference, CreateRejected, CreateDone, Final
<1>3. CASE Delete
  BY <1>3, DropOwn DEF Delete, Guard, GuardDone, DropNode, DropDone, OwnStatement
<1>4. CASE Failure
  <2>1. CASE AnswerLost
    BY <2>1, ExecAlterOwn, ExecCreateOwn, DropOwn DEF AnswerLost, Safe, PositionInv, TypeOK
  <2>2. CASE DropNodeFails
    BY <2>2, DropOwn DEF DropNodeFails, OwnStatement
  <2> QED  BY <1>4, <2>1, <2>2 DEF Failure, WaitTimeout, CallFails, OwnStatement
<1>5. ASSUME NEW n \in Node, ReplicaCatchesUp(n) PROVE OwnStatement
  BY <1>5 DEF ReplicaCatchesUp, OwnStatement
<1>6. ASSUME NEW n \in Node, OtherClient(n) PROVE FALSE
  BY <1>6 DEF OtherClient
<1>7. CASE Reconfigure \/ UNCHANGED vars
  BY <1>7 DEF Reconfigure, vars, OwnStatement
<1> QED  BY <1>1, <1>2, <1>3, <1>4, <1>5, <1>6, <1>7 DEF Next
-----------------------------------------------------------------------------
(* None of them makes a replica wait for anything else.                       *)

OwnLag(n) == Lags(n) => keeper[PathOf[n]] = [tables[n].cols EXCEPT !.managed = Desired.managed]

LEMMA ReplicaStructure ==
    ASSUME Safe, NEW n \in Node, IsReplica(n)
    PROVE  /\ tables[n] \in Table /\ tables[n].cols \in Structure
           /\ keeper[PathOf[n]] \in Structure /\ n \in Replicas(PathOf[n])
<1>1. n \in Replicas(PathOf[n]) /\ Has(n)
  BY DEF IsReplica, Replicas
<1> QED  BY <1>1, PathOfNode DEF Safe, KeeperConsistent, TypeOK, ClusterTypeOK, Has, Table

LEMMA CreateOwnLag ==
    ASSUME Safe, OnlyOwnLag, NEW n \in Node, NEW table \in Table,
           CanCreate(n, table), CreateTable(n, table), NEW m \in Node
    PROVE  OwnLag(m)'
<1>1. tables'[n].cols = table.cols /\ tables'[n].engine = table.engine
  BY DEF CreateTable, Safe, TypeOK, ClusterTypeOK, Table
<1>2. ASSUME NEW p \in Path
      PROVE  keeper'[p] = IF IsReplicated(table.engine) /\ PathOf[n] = p
                          THEN table.cols ELSE keeper[p]
  BY DEF CreateTable, Safe, TypeOK, ClusterTypeOK
<1>3. CASE m = n
  BY <1>1, <1>2, <1>3, PathOfNode DEF OwnLag, Lags, IsReplica
<1>4. CASE m # n
  <2>1. tables'[m] = tables[m]
    BY <1>4 DEF CreateTable, Safe, TypeOK, ClusterTypeOK
  <2>2. CASE ~IsReplica(m)
    BY <2>1, <2>2 DEF OwnLag, Lags, IsReplica, Has
  <2>3. CASE IsReplica(m)
    <3>1. keeper[PathOf[m]] # None
      BY <2>3, ReplicaStructure, ClusterAssumption
    <3>2. keeper'[PathOf[m]] = keeper[PathOf[m]]
      BY <3>1, <1>2, PathOfNode DEF CanCreate
    <3> QED  BY <2>1, <3>2 DEF OnlyOwnLag, OwnLag, Lags, IsReplica, Has
  <2> QED  BY <2>2, <2>3
<1> QED  BY <1>3, <1>4

LEMMA DropOwnLag ==
    ASSUME Safe, OnlyOwnLag, NEW n \in Node, DropTable(n), NEW m \in Node
    PROVE  OwnLag(m)'
<1>1. CASE m = n
  BY <1>1 DEF DropTable, OwnLag, Lags, IsReplica, Has, Safe, TypeOK, ClusterTypeOK
<1>2. CASE m # n
  <2>1. tables'[m] = tables[m]
    BY <1>2 DEF DropTable, Safe, TypeOK, ClusterTypeOK
  <2>2. IsReplica(m) => keeper'[PathOf[m]] = keeper[PathOf[m]]
    BY <1>2, PathOfNode, ReplicaStructure DEF DropTable, Safe, TypeOK, ClusterTypeOK
  <2> QED  BY <2>1, <2>2 DEF OnlyOwnLag, OwnLag, Lags, IsReplica, Has
<1> QED  BY <1>1, <1>2

LEMMA AlterStructureOwnLag ==
    ASSUME Safe, OnlyOwnLag, NEW n \in Node, Has(n), AlterStructure(n, Desired.managed),
           NEW m \in Node
    PROVE  OwnLag(m)'
<1>1. CASE IsReplica(n)
  <2>1. tables' = tables /\ keeper' = [keeper EXCEPT ![PathOf[n]].managed = Desired.managed]
    BY <1>1 DEF AlterStructure
  <2>2. CASE ~IsReplica(m) \/ PathOf[m] # PathOf[n]
    BY <2>1, <2>2, PathOfNode
       DEF OnlyOwnLag, OwnLag, Lags, IsReplica, Has, Safe, TypeOK, ClusterTypeOK
  <2>3. CASE IsReplica(m) /\ PathOf[m] = PathOf[n]
    <3>1. tables[m].cols \in Structure /\ keeper[PathOf[m]] \in Structure
      BY <2>3, ReplicaStructure
    <3>2. keeper'[PathOf[m]] = [keeper[PathOf[m]] EXCEPT !.managed = Desired.managed]
      BY <2>1, <2>3, PathOfNode DEF Safe, TypeOK, ClusterTypeOK
    <3>3. keeper[PathOf[m]].unmanaged = tables[m].cols.unmanaged
      BY <2>3, <3>1 DEF OnlyOwnLag, Lags, Structure
    <3>4. keeper'[PathOf[m]] = [tables[m].cols EXCEPT !.managed = Desired.managed]
      BY <3>1, <3>2, <3>3 DEF Structure
    <3> QED  BY <2>1, <3>4 DEF OwnLag
  <2> QED  BY <2>2, <2>3
<1>2. CASE ~IsReplica(n)
  <2>1. /\ keeper' = keeper
        /\ tables' = [tables EXCEPT ![n].cols.managed = Desired.managed]
    BY <1>2 DEF AlterStructure
  <2>2. CASE m = n
    <3>1. tables[n] \in Table
      BY DEF Has, Safe, TypeOK, ClusterTypeOK
    <3>2. tables'[n].engine = tables[n].engine
      BY <2>1, <3>1 DEF Table, Safe, TypeOK, ClusterTypeOK
    <3>3. ~IsReplica(n)'
      BY <1>2, <3>2 DEF IsReplica, Has
    <3> QED  BY <2>2, <3>3 DEF OwnLag, Lags
  <2>3. CASE m # n
    BY <2>1, <2>3 DEF OnlyOwnLag, OwnLag, Lags, IsReplica, Has, Safe, TypeOK, ClusterTypeOK
  <2> QED  BY <2>2, <2>3
<1> QED  BY <1>1, <1>2

LEMMA AlterSettingsOwnLag ==
    ASSUME Safe, OnlyOwnLag, NEW n \in Node, Has(n), AlterSettings(n, Desired.settings),
           NEW m \in Node
    PROVE  OwnLag(m)'
<1>1. tables[n] \in Table
  BY DEF Has, Safe, TypeOK, ClusterTypeOK
<1>2. tables'[m] = IF m = n THEN [tables[m] EXCEPT !.settings = Desired.settings] ELSE tables[m]
  BY DEF AlterSettings, Safe, TypeOK, ClusterTypeOK
<1>3. m = n => tables'[m].engine = tables[m].engine /\ tables'[m].cols = tables[m].cols
  BY <1>1, <1>2 DEF Table
<1> QED  BY <1>2, <1>3 DEF OnlyOwnLag, OwnLag, Lags, IsReplica, Has, AlterSettings

LEMMA CatchUpOwnLag ==
    ASSUME Safe, OnlyOwnLag, NEW n \in Node, CatchUp(n), NEW m \in Node
    PROVE  OwnLag(m)'
<1>1. /\ keeper' = keeper
      /\ tables' = [tables EXCEPT ![n] = [tables[n] EXCEPT !.cols = keeper[PathOf[n]]]]
  BY DEF CatchUp, Safe, TypeOK, ClusterTypeOK
<1>2. CASE m = n
  <2>1. tables[n] \in Table
    BY CatchUpTable DEF Safe, TypeOK
  <2>2. tables'[n].cols = keeper[PathOf[n]]
    BY <1>1, <2>1 DEF Table, Safe, TypeOK, ClusterTypeOK
  <2> QED  BY <1>1, <1>2, <2>2 DEF OwnLag, Lags
<1>3. CASE m # n
  BY <1>1, <1>3 DEF OnlyOwnLag, OwnLag, Lags, IsReplica, Has, Safe, TypeOK, ClusterTypeOK
<1> QED  BY <1>2, <1>3

LEMMA OwnLagKept == ASSUME Safe, OnlyOwnLag, OwnStatement PROVE OnlyOwnLag'
<1>1. ASSUME NEW m \in Node PROVE OwnLag(m)'
  <2>1. CASE UNCHANGED clusterVars
    BY <2>1 DEF clusterVars, OnlyOwnLag, OwnLag, Lags, IsReplica, Has
  <2> QED  BY <2>1, CreateOwnLag, DropOwnLag, AlterStructureOwnLag, AlterSettingsOwnLag,
              CatchUpOwnLag DEF OwnStatement
<1> QED  BY <1>1 DEF OwnLag, OnlyOwnLag
-----------------------------------------------------------------------------
(* Statements at one node leave what fits on the others.                      *)

LEMMA OthersFit ==
    ASSUME Safe, at \in Node, NEW m \in Node, m # at, Fits(m),
           \/ \E table \in Table : CreateTable(at, table)
           \/ DropIfPresent
           \/ AlterStructure(at, Desired.managed)
           \/ AlterSettings(at, Desired.settings)
    PROVE  Fits(m)'
<1>1. tables'[m] = tables[m]
  BY DEF CreateTable, DropIfPresent, DropTable, AlterStructure, AlterSettings, clusterVars,
         Safe, TypeOK, ClusterTypeOK
<1> QED  BY <1>1 DEF Fits, Matches, Has

LEMMA QuietFit ==
    ASSUME UNCHANGED clusterVars, NEW m \in Node PROVE Fits(m)' <=> Fits(m)
BY DEF clusterVars, Fits, Matches, Has

(* A replica that catches up gets what was configured.                        *)
LEMMA CatchUpManaged ==
    ASSUME Safe, OnlyOwnLag, NEW n \in Node, CatchUp(n)
    PROVE  /\ tables[n] \in Table /\ tables'[n] \in Table
           /\ tables' = [tables EXCEPT ![n] = [tables[n] EXCEPT !.cols = keeper[PathOf[n]]]]
           /\ tables'[n].cols.managed = Desired.managed
           /\ tables'[n].engine = tables[n].engine /\ tables'[n].key = tables[n].key
           /\ tables'[n].settings = tables[n].settings
           /\ Has(n)'
<1>1. /\ tables[n] \in Table /\ [tables[n] EXCEPT !.cols = keeper[PathOf[n]]] \in Table
      /\ tables' = [tables EXCEPT ![n] = [tables[n] EXCEPT !.cols = keeper[PathOf[n]]]]
  BY CatchUpTable DEF CatchUp, Safe, TypeOK
<1>2. keeper[PathOf[n]] = [tables[n].cols EXCEPT !.managed = Desired.managed]
  BY DEF OnlyOwnLag, CatchUp
<1>3. tables[n].cols \in Structure
  BY <1>1 DEF Table
<1>4. keeper[PathOf[n]].managed = Desired.managed
  BY <1>2, <1>3 DEF Structure
<1>5. tables'[n] = [tables[n] EXCEPT !.cols = keeper[PathOf[n]]]
  BY <1>1 DEF Safe, TypeOK, ClusterTypeOK
<1>6. /\ tables'[n].cols = keeper[PathOf[n]]
      /\ tables'[n].engine = tables[n].engine /\ tables'[n].key = tables[n].key
      /\ tables'[n].settings = tables[n].settings
  BY <1>1, <1>5 DEF Table
<1>7. Has(n)'
  BY <1>1, <1>5, ClusterAssumption DEF Has
<1> QED  BY <1>1, <1>4, <1>5, <1>6, <1>7

LEMMA CatchUpFit ==
    ASSUME Safe, OnlyOwnLag, NEW n \in Node, CatchUp(n), NEW m \in Node, Fits(m)
    PROVE  Fits(m)'
<1>1. CASE m = n
  BY <1>1, CatchUpManaged DEF Fits, Matches
<1>2. CASE m # n
  BY <1>2 DEF CatchUp, Fits, Matches, Has, Safe, TypeOK, ClusterTypeOK
<1> QED  BY <1>1, <1>2

(* A table created from the configuration, its structure perhaps from a       *)
(* reference, fits.                                                           *)
LEMMA CreatedFits ==
    ASSUME Safe, NEW n \in Node, NEW st \in Structure, st.managed = Desired.managed,
           CreateTable(n, Configured(st))
    PROVE  Fits(n)'
<1>1. Configured(st) \in Table
  BY ConvergenceAssumption DEF Configured, Table, Definition
<1>2. tables'[n] \in Table
  <2>1. [Configured(st) EXCEPT !.rows =
            /\ IsReplicated(Configured(st).engine)
            /\ \E m \in Replicas(PathOf[n]) : tables[m].rows] \in Table
    BY <1>1 DEF Table
  <2> QED  BY <2>1 DEF CreateTable, Safe, TypeOK, ClusterTypeOK
<1>3. /\ tables'[n].engine = Configured(st).engine /\ tables'[n].key = Configured(st).key
      /\ tables'[n].cols = Configured(st).cols
      /\ tables'[n].settings = Configured(st).settings
  BY <1>1 DEF CreateTable, Safe, TypeOK, ClusterTypeOK, Table
<1>4. /\ Configured(st).engine = Desired.engine /\ Configured(st).key = Desired.key
      /\ Configured(st).cols = st /\ Configured(st).settings = Desired.settings
  BY DEF Configured
<1> QED  BY <1>2, <1>3, <1>4, ClusterAssumption DEF Fits, Matches, Has

LEMMA NewTableFits ==
    ASSUME Safe, LagInv, ~disturbed, NEW n \in Node, CreateTable(n, NewTable(n))
    PROVE  Fits(n)'
<1> DEFINE plain == [managed |-> Desired.managed, unmanaged |-> NoUnmanaged]
<1>1. plain \in Structure /\ plain.managed = Desired.managed
  BY ConvergenceAssumption DEF Structure, Definition
<1>2. CASE NewTable(n) = Configured(plain)
  BY <1>1, <1>2, CreatedFits
<1>3. CASE refs[ShardOf[n]] # None /\ NewTable(n) = Configured(refs[ShardOf[n]])
  <2>1. ShardOf[n] \in Shard
    BY DEF Shard
  <2>2. refs[ShardOf[n]] \in Structure
    BY <1>3, <2>1 DEF Safe, TypeOK
  <2>3. refs[ShardOf[n]].managed = Desired.managed
    BY <1>3, <2>1 DEF LagInv
  <2> QED  BY <1>3, <2>2, <2>3, CreatedFits
<1> QED  BY <1>2, <1>3 DEF NewTable, ConfiguredTable
-----------------------------------------------------------------------------
(* LagInv.                                                                    *)

LEMMA RefsStep ==
    ASSUME Safe, LagInv, PassedInv, [Next]_vars, ~disturbed', NEW s \in Shard,
           refs'[s] # None
    PROVE  refs'[s].managed = Desired.managed
<1>1. CASE UNCHANGED <<refs, disturbed>>
  BY <1>1 DEF LagInv
<1>2. CASE refs' = [t \in Shard |-> None]
  BY <1>2
<1>3. CASE ReadReference
  <2>1. /\ pc = "create" /\ at \in Node /\ disturbed' = disturbed
    BY <1>3 DEF ReadReference, Goto
  <2>2. CASE /\ ShardMates(at) # {}
             /\ refs' = [refs EXCEPT ![ShardOf[at]] = Reference(FirstInShard(at))]
    <3> DEFINE m == FirstInShard(at)
    <3>1. m \in existing /\ m \in Node
      BY <2>1, <2>2, FirstInShardType DEF ShardMates, Safe, TypeOK
    <3>2. Fits(m)
      BY <2>1, <3>1 DEF PassedInv, Creating
    <3>3. Reference(m).managed = Desired.managed
      BY <3>2 DEF Fits, Matches, Reference
    <3>4. refs'[s] = IF s = ShardOf[at] THEN Reference(m) ELSE refs[s]
      BY <2>2 DEF Safe, TypeOK
    <3> QED  BY <2>1, <3>3, <3>4 DEF LagInv
  <2> QED  BY <1>1, <1>3, <2>1, <2>2 DEF ReadReference
<1>4. CASE Plan
  BY <1>1, <1>2, <1>4 DEF Plan, Refresh, PlanCreate, PlanUpdate, PlanReplace, PlanDestroy, Begin,
       ClearLoop, opVars, loopVars, historyVars
<1>5. CASE Converge
  BY <1>1, <1>2, <1>3, <1>5
     DEF Converge, Survey, SurveyDone, SkipMissing, ReconcileRefused, ReconcileInPlace,
         ReconcileByRecreate, Alter, AlterGone, Wait, Reconciled, RecreateRefused,
         RecreateAllowed, RecreateDrop, RecreateCreate, ReconcileDone, SkipExisting,
         CreateMissing, CreateRejected, CreateDone, Final, Goto, Fail, End, ClearLoop
<1>6. CASE Delete
  BY <1>1, <1>2, <1>6
     DEF Delete, Guard, GuardDone, DropNode, DropDone, Goto, Fail, End, ClearLoop
<1>7. CASE Failure
  BY <1>1, <1>2, <1>7
     DEF Failure, WaitTimeout, CallFails, DropNodeFails, AnswerLost, Fail, End, ClearLoop,
         historyVars
<1>8. ASSUME NEW n \in Node, ReplicaCatchesUp(n) \/ OtherClient(n)
      PROVE  refs'[s].managed = Desired.managed
  BY <1>1, <1>8 DEF ReplicaCatchesUp, OtherClient, opVars, loopVars, historyVars
<1>9. CASE Reconfigure \/ UNCHANGED vars
  BY <1>1, <1>9 DEF Reconfigure, vars, opVars, loopVars, historyVars
<1> QED  BY <1>4, <1>5, <1>6, <1>7, <1>8, <1>9 DEF Next

(* Begin takes note of any other lag.                                         *)
LEMMA LagNoted == ASSUME [Next]_vars, ~disturbed' PROVE OnlyOwnLag \/ ~disturbed
<1>1. CASE Plan
  BY <1>1 DEF Plan, Refresh, PlanCreate, PlanUpdate, PlanReplace, PlanDestroy, Begin, historyVars
<1>2. CASE Converge
  BY <1>2
     DEF Converge, Survey, SurveyDone, SkipMissing, ReconcileRefused, ReconcileInPlace,
         ReconcileByRecreate, Alter, AlterGone, Wait, Reconciled, RecreateRefused,
         RecreateAllowed, RecreateDrop, RecreateCreate, ReconcileDone, SkipExisting,
         ReadReference, CreateMissing, CreateRejected, CreateDone, Final, Goto, Fail, End
<1>3. CASE Delete
  BY <1>3 DEF Delete, Guard, GuardDone, DropNode, DropDone, Goto, Fail, End, historyVars
<1>4. CASE Failure
  BY <1>4 DEF Failure, WaitTimeout, CallFails, DropNodeFails, AnswerLost, Fail, End, historyVars
<1>5. ASSUME NEW n \in Node, ReplicaCatchesUp(n) \/ OtherClient(n) PROVE ~disturbed
  BY <1>5 DEF ReplicaCatchesUp, OtherClient, historyVars
<1>6. CASE Reconfigure \/ UNCHANGED vars
  BY <1>6 DEF Reconfigure, vars, historyVars
<1> QED  BY <1>1, <1>2, <1>3, <1>4, <1>5, <1>6 DEF Next

LEMMA LagStep == ASSUME Safe, LagInv, PassedInv, [Next]_vars PROVE LagInv'
<1>1. ASSUME ~disturbed' PROVE OnlyOwnLag'
  BY <1>1, LagNoted, NextOwn, OwnLagKept DEF LagInv
<1> QED  BY <1>1, RefsStep DEF LagInv
-----------------------------------------------------------------------------
(* AlteringInv.                                                               *)

LEMMA AlterSettles ==
    ASSUME Safe, AlteringInv, Alter, ~disturbed PROVE AlteringInv'
<1>1. /\ at \in Node /\ Has(at) /\ tables[at] \in Table
      /\ pc = "alter" /\ pc' = "wait" /\ at' = at /\ groups \subseteq Group
      /\ groups' = groups \ {NextGroup} /\ groups # {}
      /\ tables[at].engine = Desired.engine /\ tables[at].key = Desired.key
  BY DEF Alter, ExecAlter, Goto, AlteringInv, Has, Safe, PositionInv, TypeOK, ClusterTypeOK
<1>2. CASE "structure" \in groups
  <2>1. AlterStructure(at, Desired.managed) /\ NextGroup = "structure"
    BY <1>2 DEF Alter, ExecAlter, NextGroup
  <2>2. CASE IsReplica(at)
    <3>1. keeper[PathOf[at]] \in Structure
      BY <1>1, <2>2, ReplicaStructure
    <3>2. tables' = tables /\ keeper' = [keeper EXCEPT ![PathOf[at]].managed = Desired.managed]
      BY <2>1, <2>2 DEF AlterStructure
    <3>3. keeper'[PathOf[at]].managed = Desired.managed
      BY <1>1, <3>1, <3>2, PathOfNode DEF Structure, Safe, TypeOK, ClusterTypeOK
    <3>4. IsReplica(at)' /\ Has(at)'
      BY <1>1, <2>2, <3>2 DEF IsReplica, Has
    <3>5. "settings" \notin groups' => "settings" \notin groups
      BY <1>1, <2>1
    <3> QED  BY <1>1, <3>2, <3>3, <3>4, <3>5 DEF AlteringInv
  <2>3. CASE ~IsReplica(at)
    <3>1. tables' = [tables EXCEPT ![at].cols.managed = Desired.managed]
      BY <2>1, <2>3 DEF AlterStructure
    <3>2. tables[at].cols \in Structure
      BY <1>1 DEF Table
    <3>3. tables'[at] = [tables[at] EXCEPT !.cols = [tables[at].cols EXCEPT !.managed = Desired.managed]]
      BY <1>1, <3>1 DEF Safe, TypeOK, ClusterTypeOK
    <3>4. /\ tables'[at].engine = tables[at].engine /\ tables'[at].key = tables[at].key
          /\ tables'[at].settings = tables[at].settings
          /\ tables'[at].cols = [tables[at].cols EXCEPT !.managed = Desired.managed]
      BY <1>1, <3>3 DEF Table
    <3>5. tables'[at].cols.managed = Desired.managed
      BY <3>2, <3>4 DEF Structure
    <3>6. Has(at)'
      BY <1>1, AlterKeeps DEF Alter, Has
    <3>7. "settings" \notin groups' => "settings" \notin groups
      BY <1>1, <2>1
    <3> QED  BY <1>1, <3>4, <3>5, <3>6, <3>7 DEF AlteringInv
  <2> QED  BY <2>2, <2>3
<1>3. CASE "structure" \notin groups
  <2>1. AlterSettings(at, Desired.settings)
    BY <1>3 DEF Alter, ExecAlter, NextGroup
  <2>2. tables'[at] = [tables[at] EXCEPT !.settings = Desired.settings]
    BY <1>1, <2>1 DEF AlterSettings, Safe, TypeOK, ClusterTypeOK
  <2>3. /\ tables'[at].engine = tables[at].engine /\ tables'[at].key = tables[at].key
        /\ tables'[at].settings = Desired.settings /\ tables'[at].cols = tables[at].cols
    BY <1>1, <2>2 DEF Table
  <2>4. Has(at)'
    BY <1>1, AlterKeeps DEF Alter, Has
  <2>5. tables[at].cols.managed = Desired.managed
    BY <1>1, <1>3 DEF AlteringInv
  <2> QED  BY <1>1, <2>3, <2>4, <2>5 DEF AlteringInv
<1> QED  BY <1>2, <1>3

LEMMA WaitSettles ==
    ASSUME Safe, AlteringInv, Wait, ~disturbed PROVE AlteringInv'
<1>1. /\ pc = "wait" /\ pc' = "alter" /\ UNCHANGED <<at, groups, clusterVars>> /\ MetadataApplied
      /\ at \in Node
  BY DEF Wait, Goto, Safe, PositionInv, TypeOK
<1>2. IsReplica(at) => tables[at].cols = keeper[PathOf[at]]
  BY <1>1, ReplicaStructure DEF MetadataApplied, CaughtUp, Lags
<1>3. "structure" \notin groups => tables[at].cols.managed = Desired.managed
  BY <1>1, <1>2 DEF AlteringInv
<1> QED  BY <1>1, <1>3 DEF AlteringInv, clusterVars, Has

LEMMA AlteringStep == ASSUME Safe, LagInv, AlteringInv, [Next]_vars PROVE AlteringInv'
<1>1. CASE pc' \notin {"alter", "wait"} \/ disturbed'
  BY <1>1 DEF AlteringInv
<1>2. CASE Alter
  BY <1>1, <1>2, AlterSettles DEF Alter, Goto
<1>3. CASE Wait
  BY <1>1, <1>3, WaitSettles DEF Wait, Goto
<1>4. CASE ReconcileInPlace
  <2>1. /\ pc' = "alter" /\ UNCHANGED <<at, clusterVars>> /\ groups' = Differences(tables[at])
        /\ Has(at) /\ ~NeedsReplace(tables[at])
    BY <1>4 DEF ReconcileInPlace, Goto
  <2>2. /\ "structure" \notin groups' => tables[at].cols.managed = Desired.managed
        /\ "settings" \notin groups' => tables[at].settings = Desired.settings
    BY <2>1 DEF Differences
  <2> QED  BY <2>1, <2>2 DEF AlteringInv, NeedsReplace, clusterVars, Has
<1>5. ASSUME NEW n \in Node, ReplicaCatchesUp(n), pc \in {"alter", "wait"}, ~disturbed
      PROVE  AlteringInv'
  <2>1. CatchUp(n) /\ OnlyOwnLag /\ UNCHANGED <<pc, at, groups, keeper>> /\ at \in Node
    BY <1>5 DEF ReplicaCatchesUp, CatchUp, opVars, loopVars, LagInv, Safe, PositionInv, TypeOK
  <2>2. CASE n = at
    BY <1>5, <2>1, <2>2, CatchUpManaged DEF AlteringInv
  <2>3. CASE n # at
    <3>1. tables'[at] = tables[at]
      BY <2>1, <2>3 DEF CatchUp, Safe, TypeOK, ClusterTypeOK
    <3> QED  BY <1>5, <2>1, <3>1 DEF AlteringInv, IsReplica, Has
  <2> QED  BY <2>2, <2>3
<1>6. ASSUME NEW n \in Node, ReplicaCatchesUp(n) \/ OtherClient(n) PROVE AlteringInv'
  BY <1>1, <1>5, <1>6 DEF ReplicaCatchesUp, OtherClient, opVars, historyVars
<1>7. CASE Plan
  BY <1>1, <1>7 DEF Plan, Refresh, PlanCreate, PlanUpdate, PlanReplace, PlanDestroy, Begin, opVars
<1>8. CASE Converge
  BY <1>1, <1>2, <1>3, <1>4, <1>8
     DEF Converge, Survey, SurveyDone, SkipMissing, ReconcileRefused,
         ReconcileByRecreate, AlterGone, Reconciled, RecreateRefused,
         RecreateAllowed, RecreateDrop, RecreateCreate, ReconcileDone, SkipExisting,
         ReadReference, CreateMissing, CreateRejected, CreateDone, Final, Goto, Fail, End
<1>9. CASE Delete
  BY <1>1, <1>9 DEF Delete, Guard, GuardDone, DropNode, DropDone, Goto, Fail, End
<1>10. CASE Failure
  BY <1>1, <1>10 DEF Failure, WaitTimeout, CallFails, DropNodeFails, AnswerLost, Fail, End
<1>11. CASE Reconfigure
  BY <1>1, <1>11 DEF Reconfigure, opVars
<1>12. CASE UNCHANGED vars
  BY <1>12 DEF vars, opVars, loopVars, historyVars, clusterVars, AlteringInv, IsReplica, Has
<1> QED  BY <1>6, <1>7, <1>8, <1>9, <1>10, <1>11, <1>12 DEF Next
-----------------------------------------------------------------------------
(* PassedInv.                                                                 *)

LEMMA AwayPassed ==
    ASSUME \/ disturbed'
           \/ pc' \in {"idle", "survey", "guard", "drop"} /\ last' # "applied"
    PROVE  PassedInv'
BY DEF PassedInv, Reconciling, Creating

(* A step of a loop that leaves the cluster alone.                            *)
LEMMA Passing ==
    ASSUME Safe, FitInv, GoneInv, ~disturbed,
           SkipMissing \/ ReconcileInPlace \/ ReconcileByRecreate \/ Wait \/ Reconciled
             \/ RecreateAllowed \/ ReconcileDone \/ SkipExisting \/ ReadReference \/ CreateDone
    PROVE  PassedInv'
<1>1. /\ UNCHANGED <<clusterVars, existing, last>> /\ last = "none" /\ existing \subseteq Node
      /\ \A n \in Node : Fits(n)' <=> Fits(n)
  <2>1. UNCHANGED <<clusterVars, existing, last>> /\ pc # "idle"
    BY DEF SkipMissing, ReconcileInPlace, ReconcileByRecreate, Wait, Reconciled,
           RecreateAllowed, ReconcileDone, SkipExisting, ReadReference, CreateDone, Goto
  <2> QED  BY <2>1, QuietFit DEF GoneInv, Safe, TypeOK
<1>2. CASE SkipMissing \/ Reconciled
  <2>1. /\ pc \in Reconciling /\ pc' = "reread" /\ at' = at + 1 /\ at \in 1 .. N + 1
        /\ at \in existing => Fits(at)
    BY <1>2 DEF SkipMissing, Reconciled, Goto, Reconciling, FitInv, AlteringInv, Fits, Matches,
                Safe, TypeOK
  <2>2. ASSUME NEW n \in existing, n < at + 1 PROVE Fits(n)
    <3>1. n = at \/ n < at
      BY <1>1, <2>1, <2>2, ClusterAssumption DEF Node
    <3> QED  BY <2>1, <3>1 DEF FitInv, PassedInv
  <2> QED  BY <1>1, <2>1, <2>2 DEF PassedInv, Reconciling, Creating
<1>3. CASE ReconcileInPlace \/ ReconcileByRecreate \/ Wait \/ RecreateAllowed
  <2>1. pc \in Reconciling /\ pc' \in Reconciling /\ at' = at
    BY <1>3 DEF ReconcileInPlace, ReconcileByRecreate, Wait, RecreateAllowed, Goto, Reconciling
  <2> QED  BY <1>1, <2>1 DEF FitInv, PassedInv, Reconciling, Creating
<1>4. CASE ReconcileDone
  <2>1. pc = "reread" /\ at = N + 1 /\ pc' = "create" /\ at' = 1
    BY <1>4 DEF ReconcileDone, Goto
  <2>2. \A n \in Node : n < N + 1 /\ ~(n < 1)
    BY ClusterAssumption DEF Node
  <2>3. \A n \in existing : Fits(n)
    BY <1>1, <2>1, <2>2 DEF FitInv, PassedInv, Reconciling
  <2> QED  BY <1>1, <2>1, <2>2, <2>3 DEF PassedInv, Reconciling, Creating
<1>5. CASE SkipExisting
  <2>1. pc = "create" /\ pc' = "create" /\ at' = at + 1 /\ at \in existing
    BY <1>5 DEF SkipExisting, Goto
  <2>2. ASSUME NEW n \in Node, n \in existing \/ n < at + 1 PROVE Fits(n)
    <3>1. n \in existing \/ n < at
      BY <1>1, <2>1, <2>2, ClusterAssumption DEF Node
    <3> QED  BY <2>1, <3>1 DEF FitInv, PassedInv, Creating
  <2> QED  BY <1>1, <2>1, <2>2 DEF PassedInv, Reconciling, Creating
<1>6. CASE ReadReference
  <2>1. pc = "create" /\ pc' = "creating" /\ at' = at
    BY <1>6 DEF ReadReference, Goto
  <2> QED  BY <1>1, <2>1 DEF FitInv, PassedInv, Reconciling, Creating
<1>7. CASE CreateDone
  <2>1. pc = "create" /\ pc' = "final" /\ at = N + 1
    BY <1>7 DEF CreateDone, Goto
  <2>2. \A n \in Node : n < N + 1
    BY ClusterAssumption DEF Node
  <2> QED  BY <1>1, <2>1, <2>2 DEF FitInv, PassedInv, Reconciling, Creating
<1> QED  BY <1>2, <1>3, <1>4, <1>5, <1>6, <1>7

(* A step of a loop that runs a statement on its node.                        *)
LEMMA PassingStatement ==
    ASSUME Safe, FitInv, GoneInv, ~disturbed,
           Alter \/ RecreateDrop \/ RecreateCreate \/ CreateMissing
    PROVE  PassedInv'
<1>1. /\ at \in Node /\ UNCHANGED <<existing, last>> /\ last = "none" /\ existing \subseteq Node
  BY DEF Alter, ExecAlter, RecreateDrop, RecreateCreate, ExecRecreate, CreateMissing, ExecCreate,
         Goto, GoneInv, Safe, PositionInv, TypeOK
<1>2. \/ \E table \in Table : CreateTable(at, table)
      \/ DropIfPresent
      \/ AlterStructure(at, Desired.managed)
      \/ AlterSettings(at, Desired.settings)
  BY <1>1, ConfiguredTableType, NewTableType
     DEF Alter, ExecAlter, RecreateDrop, RecreateCreate, ExecRecreate, CreateMissing, ExecCreate, Safe
<1>3. \A m \in Node : m # at /\ Fits(m) => Fits(m)'
  BY <1>1, <1>2, OthersFit
<1>4. CASE Alter \/ RecreateDrop
  <2>1. pc \in Reconciling /\ pc' \in Reconciling /\ at' = at
    BY <1>4 DEF Alter, ExecAlter, RecreateDrop, Goto, Reconciling
  <2>2. ASSUME NEW n \in existing, n < at PROVE Fits(n)'
    <3>1. n # at /\ n \in Node
      BY <1>1, <2>2, ClusterAssumption DEF Node
    <3> QED  BY <1>3, <2>1, <2>2, <3>1 DEF FitInv, PassedInv
  <2> QED  BY <1>1, <2>1, <2>2 DEF PassedInv, Reconciling, Creating
<1>5. CASE RecreateCreate
  <2>1. pc \in Reconciling /\ pc' = "reread" /\ at' = at + 1 /\ CreateTable(at, ConfiguredTable)
    BY <1>5 DEF RecreateCreate, ExecRecreate, Goto, Reconciling
  <2>2. ASSUME NEW n \in Node, n = at PROVE Fits(n)'
    <3> DEFINE plain == [managed |-> Desired.managed, unmanaged |-> NoUnmanaged]
    <3>1. plain \in Structure /\ plain.managed = Desired.managed /\ ConfiguredTable = Configured(plain)
      BY ConvergenceAssumption DEF Structure, Definition, ConfiguredTable
    <3> QED  BY <2>1, <2>2, <3>1, CreatedFits
  <2>3. ASSUME NEW n \in existing, n < at + 1 PROVE (Fits(n))'
    <3>1. n \in Node /\ (n = at \/ n < at)
      BY <1>1, <2>3, ClusterAssumption DEF Node
    <3>2. CASE n = at
      BY <2>2, <3>1, <3>2
    <3>3. CASE n # at
      BY <1>3, <2>1, <3>1, <3>3 DEF FitInv, PassedInv
    <3> QED  BY <3>2, <3>3
  <2> QED  BY <1>1, <2>1, <2>3 DEF PassedInv, Reconciling, Creating
<1>6. CASE CreateMissing
  <2>1. pc \in Creating /\ pc' = "create" /\ at' = at + 1 /\ CreateTable(at, NewTable(at))
    BY <1>6 DEF CreateMissing, ExecCreate, Goto, Creating
  <2>2. ASSUME NEW n \in Node, n \in existing \/ n < at + 1 PROVE (Fits(n))'
    <3>1. n = at \/ n < at \/ n \in existing
      BY <1>1, <2>2, ClusterAssumption DEF Node
    <3>2. CASE n = at
      BY <2>1, <3>2, NewTableFits DEF FitInv
    <3>3. CASE n # at
      BY <1>3, <2>1, <3>1, <3>3 DEF FitInv, PassedInv
    <3> QED  BY <3>2, <3>3
  <2> QED  BY <1>1, <2>1, <2>2 DEF PassedInv, Reconciling, Creating
<1> QED  BY <1>4, <1>5, <1>6

LEMMA PassedStep == ASSUME Safe, FitInv, GoneInv, [Next]_vars PROVE PassedInv'
<1>1. CASE Plan
  <2>1. CASE Refresh
    BY <2>1 DEF Refresh, opVars, historyVars, loopVars, clusterVars, FitInv, PassedInv, Fits,
                Matches, Has
  <2>2. CASE ~Refresh
    BY <1>1, <2>2, AwayPassed DEF Plan, PlanCreate, PlanUpdate, PlanReplace, PlanDestroy, Begin
  <2> QED  BY <2>1, <2>2
<1>2. CASE Converge
  <2>1. disturbed' = disturbed
    BY <1>2
     DEF Converge, Survey, SurveyDone, SkipMissing, ReconcileRefused, ReconcileInPlace,
         ReconcileByRecreate, Alter, AlterGone, Wait, Reconciled, RecreateRefused,
         RecreateAllowed, RecreateDrop, RecreateCreate, ReconcileDone, SkipExisting,
         ReadReference, CreateMissing, CreateRejected, CreateDone, Final, Goto, Fail, End
  <2>2. CASE Fail
    BY <2>2, AwayPassed DEF Fail, End
  <2>3. CASE Survey
    BY <2>3, AwayPassed DEF Survey, Goto, GoneInv
  <2>4. CASE SurveyDone /\ ~Fail
    <3>1. pc' = "reread" /\ at' = 1 /\ last' = last /\ last = "none" /\ existing \subseteq Node
          /\ existing' = existing
      BY <2>4 DEF SurveyDone, Goto, GoneInv, Safe, TypeOK
    <3>2. \A n \in existing : ~(n < 1)
      BY <3>1, ClusterAssumption DEF Node
    <3> QED  BY <3>1, <3>2 DEF PassedInv, Reconciling, Creating
  <2>5. CASE Final /\ ~Fail
    <3>1. pc = "final" /\ pc' = "idle" /\ UNCHANGED clusterVars
      BY <2>5 DEF Final, End
    <3>2. \A n \in Node : Fits(n)' <=> Fits(n)
      BY <3>1, QuietFit
    <3> QED  BY <2>1, <3>1, <3>2 DEF FitInv, PassedInv, Reconciling, Creating
  <2> QED  BY <1>2, <2>1, <2>2, <2>3, <2>4, <2>5, Passing, PassingStatement, AwayPassed
           DEF Converge, ReconcileRefused, AlterGone, RecreateRefused, CreateRejected
<1>3. CASE Delete
  <2>1. pc \in {"guard", "drop"} /\ last = "none"
    BY <1>3 DEF Delete, Guard, GuardDone, DropNode, DropDone, GoneInv
  <2> QED  BY <1>3, <2>1, AwayPassed
           DEF Delete, Guard, GuardDone, DropNode, DropDone, Goto, Fail, End, historyVars
<1>4. CASE Failure
  BY <1>4, AwayPassed DEF Failure, WaitTimeout, CallFails, DropNodeFails, AnswerLost, Fail, End,
                          historyVars, GoneInv
<1>5. ASSUME NEW n \in Node, ReplicaCatchesUp(n), ~disturbed PROVE PassedInv'
  <2>1. CatchUp(n) /\ OnlyOwnLag /\ UNCHANGED <<pc, at, existing, last>> /\ existing \subseteq Node
    BY <1>5 DEF ReplicaCatchesUp, opVars, loopVars, historyVars, FitInv, LagInv, Safe, TypeOK
  <2>2. \A m \in Node : Fits(m) => Fits(m)'
    BY <2>1, CatchUpFit
  <2> QED  BY <1>5, <2>1, <2>2 DEF FitInv, PassedInv
<1>6. ASSUME NEW n \in Node, ReplicaCatchesUp(n) \/ OtherClient(n) PROVE PassedInv'
  BY <1>5, <1>6, AwayPassed DEF ReplicaCatchesUp, OtherClient, historyVars
<1>7. CASE Reconfigure \/ UNCHANGED vars
  <2>1. UNCHANGED <<pc, at, existing, last, disturbed, clusterVars>> /\ existing \subseteq Node
    BY <1>7 DEF Reconfigure, vars, opVars, loopVars, historyVars, clusterVars, Safe, TypeOK
  <2>2. \A n \in Node : Fits(n)' <=> Fits(n)
    BY <2>1, QuietFit
  <2> QED  BY <2>1, <2>2 DEF FitInv, PassedInv
<1> QED  BY <1>1, <1>2, <1>3, <1>4, <1>6, <1>7 DEF Next

LEMMA FitAlways == Spec => [](Safe /\ GoneInv /\ FitInv)
<1>1. Init => FitInv
  <2>1. ASSUME Init PROVE OnlyOwnLag /\ \A s \in Shard : refs[s] = None
    BY <2>1 DEF Init, OnlyOwnLag
  <2> QED  BY <2>1 DEF Init, FitInv, LagInv, AlteringInv, PassedInv, Reconciling, Creating
<1>2. Safe /\ GoneInv /\ FitInv /\ [Next]_vars => FitInv'
  <2> SUFFICES ASSUME Safe, GoneInv, FitInv, [Next]_vars PROVE FitInv'
    OBVIOUS
  <2>1. LagInv /\ AlteringInv /\ PassedInv
    BY DEF FitInv
  <2> QED  BY <2>1, LagStep, AlteringStep, PassedStep DEF FitInv
<1> QED  BY <1>1, <1>2, GoneAlways, PTL DEF Spec

(* ConvergeNodes, "makes every node hold the desired object": whatever the    *)
(* nodes held before and whichever replicas lag, an apply that ends well left *)
(* the configured definition on every node.                                   *)
THEOREM SuccessConverged == Spec => []SuccessMeansConverged
<1>1. Safe /\ FitInv => SuccessMeansConverged
  <2> SUFFICES ASSUME Safe, FitInv, last = "applied", ~disturbed
               PROVE  /\ Converged
                      /\ \A n \in Node : Lags(n) => keeper[PathOf[n]].managed = Desired.managed
    BY DEF SuccessMeansConverged
  <2>1. Converged
    BY DEF FitInv, PassedInv, Fits, Converged
  <2>2. ASSUME NEW n \in Node, Lags(n) PROVE keeper[PathOf[n]].managed = Desired.managed
    <3>1. keeper[PathOf[n]] = [tables[n].cols EXCEPT !.managed = Desired.managed]
      BY <2>2 DEF FitInv, LagInv, OnlyOwnLag
    <3>2. tables[n].cols \in Structure
      BY <2>2, ReplicaStructure DEF Lags
    <3> QED  BY <3>1, <3>2 DEF Structure
  <2> QED  BY <2>1, <2>2
<1> QED  BY <1>1, FitAlways, PTL
-----------------------------------------------------------------------------
(* One ALTER for all replicas of a table.                                     *)

(* A replica whose path was altered has the configured structure by the time  *)
(* the operation reads it; no ALTER is pending for a path that had one.       *)
OnceInv ==
    ~disturbed =>
        /\ \A p \in Path : altered[p] <= 1
        /\ pc # "idle" =>
             \A n \in Node : IsReplica(n) /\ altered[PathOf[n]] = 1 =>
                 /\ keeper[PathOf[n]].managed = Desired.managed
                 /\ \/ tables[n].cols.managed = Desired.managed
                    \/ pc = "wait" /\ IsReplica(at) /\ PathOf[at] = PathOf[n]
        /\ pc = "alter" /\ "structure" \in groups /\ IsReplica(at) => altered[PathOf[at]] = 0
        /\ pc = "wait" => "structure" \notin groups

AsConfigured(n) ==
    /\ keeper[PathOf[n]].managed = Desired.managed
    /\ tables[n].cols.managed = Desired.managed

LEMMA AlteredRange ==
    ASSUME Safe, OnceInv, ~disturbed, NEW n \in Node
    PROVE  altered[PathOf[n]] \in {0, 1}
BY PathOfNode DEF Safe, TypeOK, OnceInv

(* What the statements do to a replica on another node.                       *)
LEMMA CreateAsConfigured ==
    ASSUME Safe, at \in Node, NEW table \in Table, table.cols.managed = Desired.managed,
           CanCreate(at, table), CreateTable(at, table), NEW n \in Node, (IsReplica(n))',
           n # at /\ IsReplica(n) => AsConfigured(n)
    PROVE  AsConfigured(n)'
<1>1. ASSUME NEW p \in Path
      PROVE  keeper'[p] = IF IsReplicated(table.engine) /\ PathOf[at] = p
                          THEN table.cols ELSE keeper[p]
  BY DEF CreateTable, Safe, TypeOK, ClusterTypeOK
<1>2. CASE n = at
  <2>1. tables'[n].cols = table.cols /\ tables'[n].engine = table.engine
    BY <1>2 DEF CreateTable, Safe, TypeOK, ClusterTypeOK, Table
  <2> QED  BY <1>1, <1>2, <2>1, PathOfNode DEF AsConfigured, IsReplica
<1>3. CASE n # at
  <2>1. tables'[n] = tables[n]
    BY <1>3 DEF CreateTable, Safe, TypeOK, ClusterTypeOK
  <2>2. IsReplica(n)
    BY <2>1 DEF IsReplica, Has
  <2>3. keeper[PathOf[n]] # None
    BY <2>2, ReplicaStructure, ClusterAssumption
  <2>4. keeper'[PathOf[n]] = keeper[PathOf[n]]
    BY <1>1, <2>3, PathOfNode DEF CanCreate
  <2> QED  BY <1>3, <2>1, <2>2, <2>4 DEF AsConfigured
<1> QED  BY <1>2, <1>3

LEMMA DropAsConfigured ==
    ASSUME Safe, at \in Node, DropIfPresent, NEW n \in Node, (IsReplica(n))'
    PROVE  /\ IsReplica(n) /\ tables'[n] = tables[n]
           /\ keeper'[PathOf[n]] = keeper[PathOf[n]]
<1>1. CASE UNCHANGED clusterVars
  BY <1>1 DEF clusterVars, IsReplica, Has
<1>2. CASE DropTable(at)
  <2>1. n # at
    BY <1>2 DEF DropTable, IsReplica, Has, Safe, TypeOK, ClusterTypeOK
  <2>2. tables'[n] = tables[n]
    BY <1>2, <2>1 DEF DropTable, Safe, TypeOK, ClusterTypeOK
  <2>3. IsReplica(n)
    BY <2>2 DEF IsReplica, Has
  <2>4. keeper'[PathOf[n]] = keeper[PathOf[n]]
    BY <1>2, <2>1, <2>3, PathOfNode, ReplicaStructure DEF DropTable, Safe, TypeOK, ClusterTypeOK
  <2> QED  BY <2>2, <2>3, <2>4
<1> QED  BY <1>1, <1>2 DEF DropIfPresent

LEMMA CatchUpReplica ==
    ASSUME Safe, NEW n \in Node, CatchUp(n), NEW m \in Node
    PROVE  /\ IsReplica(m)' <=> IsReplica(m)
           /\ keeper' = keeper
           /\ tables'[m] = tables[m] \/ (IsReplica(m) /\ tables'[m].cols = keeper[PathOf[m]])
<1>1. keeper' = keeper /\ IsReplica(n)
  BY DEF CatchUp, Lags
<1>2. CASE m # n
  <2>1. tables'[m] = tables[m]
    BY <1>2 DEF CatchUp, Safe, TypeOK, ClusterTypeOK
  <2> QED  BY <1>1, <2>1 DEF IsReplica, Has
<1>3. CASE m = n
  <2>1. /\ tables[n] \in Table
        /\ tables'[n] = [tables[n] EXCEPT !.cols = keeper[PathOf[n]]]
    BY CatchUpTable DEF CatchUp, Safe, TypeOK, ClusterTypeOK
  <2>2. tables'[n].engine = tables[n].engine /\ tables'[n].cols = keeper[PathOf[n]]
    BY <2>1 DEF Table
  <2>3. Has(n)' <=> Has(n)
    BY CatchUpHas
  <2> QED  BY <1>1, <1>3, <2>2, <2>3 DEF IsReplica
<1> QED  BY <1>2, <1>3
-----------------------------------------------------------------------------
LEMMA AlterOnce ==
    ASSUME Safe, OnceInv, ExecAlter, ~disturbed
    PROVE  \A p \in Path : altered'[p] <= 1
<1>1. CASE UNCHANGED altered
  BY <1>1 DEF OnceInv
<1>2. CASE /\ NextGroup = "structure" /\ IsReplica(at)
           /\ altered' = [altered EXCEPT ![PathOf[at]] = @ + 1]
  <2>1. "structure" \in groups
    BY <1>2 DEF NextGroup
  <2>2. altered[PathOf[at]] = 0
    BY <1>2, <2>1 DEF ExecAlter, OnceInv
  <2> QED  BY <1>2, <2>2 DEF OnceInv, Safe, TypeOK
<1> QED  BY <1>1, <1>2 DEF ExecAlter

LEMMA OnceAltering == ASSUME Safe, OnceInv, Alter, ~disturbed PROVE OnceInv'
<1>1. /\ at \in Node /\ Has(at) /\ tables[at] \in Table /\ ExecAlter
      /\ pc = "alter" /\ pc' = "wait" /\ at' = at
      /\ groups' = groups \ {NextGroup} /\ disturbed' = disturbed
  BY DEF Alter, ExecAlter, Goto, Has, Safe, PositionInv, TypeOK, ClusterTypeOK
<1>2. "structure" \notin groups'
  BY <1>1 DEF NextGroup
<1>3. \A p \in Path : altered'[p] <= 1
  BY <1>1, AlterOnce
<1>4. ASSUME NEW n \in Node, (IsReplica(n))', altered'[PathOf[n]] = 1
      PROVE  /\ keeper'[PathOf[n]].managed = Desired.managed
             /\ \/ tables'[n].cols.managed = Desired.managed
                \/ (IsReplica(at))' /\ PathOf[at] = PathOf[n]
  <2>1. CASE NextGroup = "structure" /\ IsReplica(at)
    <3>1. /\ tables' = tables /\ keeper' = [keeper EXCEPT ![PathOf[at]].managed = Desired.managed]
          /\ altered' = [altered EXCEPT ![PathOf[at]] = @ + 1]
      BY <2>1 DEF Alter, ExecAlter, AlterStructure
    <3>2. IsReplica(n) /\ (IsReplica(at))'
      BY <1>1, <1>4, <2>1, <3>1 DEF IsReplica, Has
    <3>3. CASE PathOf[n] = PathOf[at]
      <4>1. keeper[PathOf[n]] \in Structure
        BY <3>2, ReplicaStructure
      <4>2. keeper'[PathOf[n]].managed = Desired.managed
        BY <3>1, <3>3, <4>1, PathOfNode DEF Structure, Safe, TypeOK, ClusterTypeOK
      <4> QED  BY <3>2, <3>3, <4>2
    <3>4. CASE PathOf[n] # PathOf[at]
      <4>1. keeper'[PathOf[n]] = keeper[PathOf[n]] /\ altered'[PathOf[n]] = altered[PathOf[n]]
        BY <1>1, <3>1, <3>4, PathOfNode DEF Safe, TypeOK, ClusterTypeOK
      <4> QED  BY <1>1, <1>4, <3>1, <3>2, <4>1 DEF OnceInv
    <3> QED  BY <3>3, <3>4
  <2>2. CASE NextGroup = "structure" /\ ~IsReplica(at)
    <3>1. /\ keeper' = keeper /\ tables' = [tables EXCEPT ![at].cols.managed = Desired.managed]
          /\ altered' = altered
      BY <2>2 DEF Alter, ExecAlter, AlterStructure
    <3>2. tables'[at].engine = tables[at].engine
      BY <1>1, <3>1 DEF Table, Safe, TypeOK, ClusterTypeOK
    <3>3. n # at
      BY <1>1, <1>4, <2>2, <3>2 DEF IsReplica
    <3>4. tables'[n] = tables[n]
      BY <3>1, <3>3 DEF Safe, TypeOK, ClusterTypeOK
    <3> QED  BY <1>1, <1>4, <3>1, <3>4 DEF OnceInv, IsReplica, Has
  <2>3. CASE NextGroup # "structure"
    <3>1. /\ keeper' = keeper /\ tables' = [tables EXCEPT ![at].settings = Desired.settings]
          /\ altered' = altered
      BY <2>3 DEF Alter, ExecAlter, AlterSettings
    <3>2. tables'[at].engine = tables[at].engine /\ tables'[at].cols = tables[at].cols
      BY <1>1, <3>1 DEF Table, Safe, TypeOK, ClusterTypeOK
    <3>3. n # at => tables'[n] = tables[n]
      BY <3>1 DEF Safe, TypeOK, ClusterTypeOK
    <3>4. IsReplica(n) /\ tables'[n].cols = tables[n].cols
      BY <1>1, <1>4, <3>2, <3>3 DEF IsReplica, Has
    <3> QED  BY <1>1, <1>4, <3>1, <3>4 DEF OnceInv
  <2> QED  BY <2>1, <2>2, <2>3
<1> QED  BY <1>1, <1>2, <1>3, <1>4 DEF OnceInv

(* Steps that run no ALTER and end up elsewhere than in alter or wait.        *)
LEMMA OnceAway ==
    ASSUME Safe, OnceInv, ~disturbed, altered' = altered, pc # "wait",
           pc' \notin {"alter", "wait"},
           pc # "idle" \/ pc' = "idle",
           \A n \in Node : (IsReplica(n))' /\ (IsReplica(n) => AsConfigured(n) \/ altered[PathOf[n]] = 0)
                              => AsConfigured(n)' \/ altered[PathOf[n]] = 0
    PROVE  OnceInv'
<1>1. ASSUME pc' # "idle", NEW n \in Node, (IsReplica(n))', altered'[PathOf[n]] = 1
      PROVE  AsConfigured(n)'
  <2>1. IsReplica(n) => AsConfigured(n) \/ altered[PathOf[n]] = 0
    BY <1>1, AlteredRange DEF OnceInv, AsConfigured
  <2> QED  BY <1>1, <2>1
<1> QED  BY <1>1 DEF OnceInv, AsConfigured

LEMMA OnceQuiet ==
    ASSUME Safe, OnceInv, ~disturbed, altered' = altered, UNCHANGED clusterVars,
           pc # "wait", pc' \notin {"alter", "wait"}, pc # "idle" \/ pc' = "idle"
    PROVE  OnceInv'
<1>1. ASSUME NEW n \in Node
      PROVE  (IsReplica(n)' <=> IsReplica(n)) /\ (AsConfigured(n)' <=> AsConfigured(n))
  BY DEF clusterVars, IsReplica, Has, AsConfigured
<1> QED  BY <1>1, OnceAway

LEMMA OnceEnds ==
    ASSUME OnceInv, ~disturbed, altered' = altered, pc' = "idle"
    PROVE  OnceInv'
BY DEF OnceInv

LEMMA OnceDrop ==
    ASSUME Safe, OnceInv, ~disturbed, altered' = altered, at \in Node, DropIfPresent,
           pc \in {"redrop", "drop"}, pc' \notin {"alter", "wait"}
    PROVE  OnceInv'
<1>1. ASSUME NEW n \in Node, (IsReplica(n))', IsReplica(n) => AsConfigured(n) \/ altered[PathOf[n]] = 0
      PROVE  AsConfigured(n)' \/ altered[PathOf[n]] = 0
  BY <1>1, DropAsConfigured DEF AsConfigured
<1> QED  BY <1>1, OnceAway

LEMMA OnceCreate ==
    ASSUME Safe, OnceInv, LagInv, ~disturbed, RecreateCreate \/ CreateMissing
    PROVE  OnceInv'
<1>1. /\ at \in Node /\ altered' = altered /\ pc \in {"recreated", "creating"}
      /\ pc' \in {"reread", "create"}
  BY DEF RecreateCreate, ExecRecreate, CreateMissing, ExecCreate, Goto, Safe, PositionInv, TypeOK
<1>2. PICK table \in Table : /\ table.cols.managed = Desired.managed
                             /\ CanCreate(at, table) /\ CreateTable(at, table)
  <2>1. ConfiguredTable.cols.managed = Desired.managed
    BY DEF ConfiguredTable, Configured
  <2>2. NewTable(at).cols.managed = Desired.managed
    <3>1. ShardOf[at] \in Shard
      BY <1>1 DEF Shard
    <3>2. refs[ShardOf[at]] # None => refs[ShardOf[at]].managed = Desired.managed
      BY <3>1 DEF LagInv
    <3> QED  BY <2>1, <3>2 DEF NewTable, Configured
  <2> QED  BY <1>1, <2>1, <2>2, ConfiguredTableType, NewTableType
           DEF RecreateCreate, ExecRecreate, CreateMissing, ExecCreate, Safe
<1>3. ASSUME NEW n \in Node, (IsReplica(n))', IsReplica(n) => AsConfigured(n) \/ altered[PathOf[n]] = 0
      PROVE  AsConfigured(n)' \/ altered[PathOf[n]] = 0
  <2>1. CASE altered[PathOf[n]] = 0
    BY <2>1
  <2>2. CASE altered[PathOf[n]] # 0
    BY <1>1, <1>2, <1>3, <2>2, CreateAsConfigured
  <2> QED  BY <2>1, <2>2
<1> QED  BY <1>1, <1>3, OnceAway

LEMMA OnceWait == ASSUME Safe, OnceInv, ~disturbed, Wait PROVE OnceInv'
<1>1. /\ pc = "wait" /\ pc' = "alter" /\ UNCHANGED <<at, groups, altered, disturbed, clusterVars>>
      /\ MetadataApplied /\ at \in Node
  BY DEF Wait, Goto, Safe, PositionInv, TypeOK
<1>2. ASSUME NEW n \in Node, IsReplica(n), altered[PathOf[n]] = 1
      PROVE  AsConfigured(n)
  <2>1. CASE IsReplica(at) /\ PathOf[at] = PathOf[n]
    <3>1. n \in Replicas(PathOf[at])
      BY <1>2, <2>1 DEF Replicas
    <3>2. tables[n].cols = keeper[PathOf[n]]
      BY <1>1, <1>2, <2>1, <3>1 DEF MetadataApplied, CaughtUp, Lags
    <3> QED  BY <1>1, <1>2, <3>2 DEF OnceInv, AsConfigured
  <2> QED  BY <1>1, <1>2, <2>1 DEF OnceInv, AsConfigured
<1>3. ASSUME NEW n \in Node
      PROVE  (IsReplica(n)' <=> IsReplica(n)) /\ (AsConfigured(n)' <=> AsConfigured(n))
  BY <1>1 DEF clusterVars, IsReplica, Has, AsConfigured
<1> QED  BY <1>1, <1>2, <1>3 DEF OnceInv, AsConfigured

LEMMA OnceInPlace == ASSUME Safe, OnceInv, ~disturbed, ReconcileInPlace PROVE OnceInv'
<1>1. /\ pc = "reread" /\ pc' = "alter" /\ UNCHANGED <<at, altered, disturbed, clusterVars>>
      /\ groups' = Differences(tables[at]) /\ at \in Node
  BY DEF ReconcileInPlace, Goto, Safe, TypeOK
<1>2. ASSUME NEW n \in Node
      PROVE  (IsReplica(n)' <=> IsReplica(n)) /\ (AsConfigured(n)' <=> AsConfigured(n))
  BY <1>1 DEF clusterVars, IsReplica, Has, AsConfigured
<1>3. ASSUME "structure" \in groups', IsReplica(at) PROVE altered[PathOf[at]] = 0
  <2>1. tables[at].cols.managed # Desired.managed
    BY <1>1, <1>3 DEF Differences
  <2> QED  BY <1>1, <1>3, <2>1, AlteredRange DEF OnceInv
<1>4. (IsReplica(at))' <=> IsReplica(at)
  BY <1>1 DEF clusterVars, IsReplica, Has
<1> QED  BY <1>1, <1>2, <1>3, <1>4 DEF OnceInv, AsConfigured

LEMMA OnceCatchUp ==
    ASSUME Safe, OnceInv, ~disturbed, NEW n \in Node, ReplicaCatchesUp(n) PROVE OnceInv'
<1>1. CatchUp(n) /\ UNCHANGED <<pc, at, groups, altered, disturbed>>
  BY DEF ReplicaCatchesUp, opVars, loopVars, historyVars
<1>2. pc \in {"alter", "wait"} => at \in Node
  BY DEF Safe, PositionInv, TypeOK
<1>3. pc \in {"alter", "wait"} => ((IsReplica(at))' <=> IsReplica(at))
  <2>1. \A m \in Node : IsReplica(m)' <=> IsReplica(m)
    BY <1>1, CatchUpReplica
  <2> QED  BY <1>1, <1>2, <2>1 DEF IsReplica, Has
<1>4. ASSUME pc # "idle", NEW m \in Node, (IsReplica(m))', altered[PathOf[m]] = 1
      PROVE  /\ keeper'[PathOf[m]].managed = Desired.managed
             /\ \/ tables'[m].cols.managed = Desired.managed
                \/ pc = "wait" /\ IsReplica(at) /\ PathOf[at] = PathOf[m]
  <2>1. IsReplica(m) /\ keeper' = keeper
    BY <1>1, <1>4, CatchUpReplica
  <2>2. tables'[m] = tables[m] \/ tables'[m].cols = keeper[PathOf[m]]
    BY <1>1, CatchUpReplica
  <2> QED  BY <1>4, <2>1, <2>2 DEF OnceInv
<1> QED  BY <1>1, <1>3, <1>4 DEF OnceInv

LEMMA OnceStep == ASSUME Safe, LagInv, OnceInv, [Next]_vars PROVE OnceInv'
<1>1. CASE disturbed'
  BY <1>1 DEF OnceInv
<1>2. CASE Plan
  <2>1. CASE Refresh
    BY <2>1 DEF Refresh, opVars, historyVars, OnceInv
  <2>2. CASE PlanCreate \/ PlanUpdate \/ PlanReplace \/ PlanDestroy
    <3>1. altered' = [p \in Path |-> 0] /\ pc' \in {"survey", "guard"}
      BY <2>2 DEF PlanCreate, PlanUpdate, PlanReplace, PlanDestroy, Begin
    <3>2. \A n \in Node : altered'[PathOf[n]] = 0
      BY <3>1, PathOfNode
    <3> QED  BY <3>1, <3>2 DEF OnceInv
  <2> QED  BY <1>2, <2>1, <2>2 DEF Plan
<1>3. CASE Converge /\ ~disturbed
  <2>1. CASE Fail \/ Final
    BY <1>3, <2>1, OnceEnds DEF Fail, Final, End
  <2>2. CASE Survey \/ (SurveyDone /\ ~Fail) \/ SkipMissing \/ Reconciled \/ ReconcileByRecreate
             \/ RecreateAllowed \/ ReconcileDone \/ SkipExisting \/ ReadReference \/ CreateDone
    <3>1. /\ altered' = altered /\ UNCHANGED clusterVars /\ pc \notin {"idle", "wait"}
          /\ pc' \notin {"alter", "wait"}
      BY <2>2 DEF Survey, SurveyDone, SkipMissing, Reconciled, ReconcileByRecreate,
                  RecreateAllowed, ReconcileDone, SkipExisting, ReadReference, CreateDone, Goto
    <3> QED  BY <1>3, <3>1, OnceQuiet
  <2>3. CASE RecreateDrop
    <3>1. /\ altered' = altered /\ at \in Node /\ DropIfPresent
          /\ pc = "redrop" /\ pc' = "recreated"
      BY <2>3 DEF RecreateDrop, Goto, Safe, PositionInv, TypeOK
    <3> QED  BY <1>3, <3>1, OnceDrop
  <2> QED  BY <1>3, <2>1, <2>2, <2>3, OnceAltering, OnceWait, OnceInPlace, OnceCreate
           DEF Converge, ReconcileRefused, AlterGone, RecreateRefused, CreateRejected
<1>4. CASE Delete /\ ~disturbed
  <2>1. CASE Fail \/ pc' = "idle"
    BY <1>4, <2>1, OnceEnds DEF Delete, Guard, GuardDone, DropNode, DropDone, Fail, End, Goto,
                                historyVars
  <2>2. CASE DropNode
    <3>1. altered' = altered /\ at \in Node /\ DropIfPresent /\ pc = "drop" /\ pc' = "drop"
      BY <2>2 DEF DropNode, Goto
    <3> QED  BY <1>4, <3>1, OnceDrop
  <2>3. CASE (Guard \/ GuardDone \/ DropDone) /\ ~Fail /\ pc' # "idle"
    <3>1. /\ altered' = altered /\ UNCHANGED clusterVars /\ pc \in {"guard", "drop"}
          /\ pc' \in {"guard", "drop", "survey"}
      BY <2>3 DEF Guard, GuardDone, DropDone, Goto, End, historyVars
    <3> QED  BY <1>4, <3>1, OnceQuiet
  <2> QED  BY <1>4, <2>1, <2>2, <2>3 DEF Delete
<1>5. CASE Failure /\ ~disturbed
  <2>1. CASE WaitTimeout \/ CallFails
    BY <1>5, <2>1, OnceEnds DEF WaitTimeout, CallFails, Fail, End
  <2>2. CASE DropNodeFails
    <3>1. /\ altered' = altered /\ at \in Node /\ pc = "drop" /\ pc' = "drop"
          /\ DropIfPresent \/ UNCHANGED clusterVars
      BY <2>2 DEF DropNodeFails, historyVars
    <3> QED  BY <1>5, <3>1, OnceDrop, OnceQuiet
  <2>3. CASE AnswerLost
    <3>1. pc' = "idle"
      BY <2>3 DEF AnswerLost
    <3>2. CASE altered' = altered
      BY <1>5, <3>1, <3>2, OnceEnds
    <3>3. CASE ExecAlter
      BY <1>5, <3>1, <3>3, AlterOnce DEF OnceInv
    <3> QED  BY <2>3, <3>2, <3>3 DEF AnswerLost
  <2> QED  BY <1>5, <2>1, <2>2, <2>3 DEF Failure
<1>6. ASSUME NEW n \in Node, OtherClient(n) PROVE OnceInv'
  BY <1>6 DEF OtherClient, OnceInv
<1>7. ASSUME NEW n \in Node, ReplicaCatchesUp(n), ~disturbed PROVE OnceInv'
  BY <1>7, OnceCatchUp
<1>8. CASE Reconfigure
  BY <1>8 DEF Reconfigure, opVars, historyVars, OnceInv
<1>9. CASE UNCHANGED vars
  BY <1>9 DEF vars, opVars, loopVars, historyVars, clusterVars, OnceInv, IsReplica, Has
<1>10. Converge \/ Delete \/ Failure \/ (\E n \in Node : ReplicaCatchesUp(n)) => disturbed' = disturbed
  BY DEF Converge, Survey, SurveyDone, SkipMissing, ReconcileRefused, ReconcileInPlace,
         ReconcileByRecreate, Alter, AlterGone, Wait, Reconciled, RecreateRefused,
         RecreateAllowed, RecreateDrop, RecreateCreate, ReconcileDone, SkipExisting,
         ReadReference, CreateMissing, CreateRejected, CreateDone, Final, Goto, Fail, End,
         Delete, Guard, GuardDone, DropNode, DropDone, Failure, WaitTimeout, CallFails,
         DropNodeFails, AnswerLost, ReplicaCatchesUp, historyVars
<1> QED  BY <1>1, <1>2, <1>3, <1>4, <1>5, <1>6, <1>7, <1>8, <1>9, <1>10 DEF Next

(* planTableUpdate and waitForReplicaMetadata: between them no apply alters   *)
(* the replicas of one table twice, on whichever nodes and shards they are.   *)
THEOREM AlteredOnce == Spec => []StructureAlteredOnce
<1>1. Init => OnceInv
  BY DEF Init, OnceInv
<1>2. Safe /\ FitInv /\ OnceInv /\ [Next]_vars => OnceInv'
  BY OnceStep DEF FitInv
<1>3. OnceInv => StructureAlteredOnce
  BY DEF OnceInv, StructureAlteredOnce
<1> QED  BY <1>1, <1>2, <1>3, FitAlways, PTL DEF Spec
-----------------------------------------------------------------------------
(* A replica that joins its shard.                                            *)

(* The replicas of one shard share their Keeper path, as with the path        *)
(* .../{shard}/... of a cluster's default settings.                           *)
OnePathPerShard ==
    \A m, n \in Node : ShardOf[m] = ShardOf[n] => PathOf[m] = PathOf[n]

(* Nodes that are still to be created lack the table, and a reference is what *)
(* Keeper holds for the shard.                                                *)
JoinInv ==
    /\ pc \in {"survey"} \cup Reconciling => \A s \in Shard : refs[s] = None
    /\ ~disturbed =>
         /\ pc = "survey" => \A n \in Node \ existing : n < at => ~Has(n)
         /\ pc \in Reconciling => \A n \in Node \ existing : ~Has(n)
         /\ pc \in Creating =>
              /\ \A n \in Node \ existing : n >= at => ~Has(n)
              /\ OnePathPerShard /\ IsReplicated(Desired.engine) =>
                   \A n \in Node : refs[ShardOf[n]] # None => keeper[PathOf[n]] = refs[ShardOf[n]]
         /\ pc = "creating" /\ ShardMates(at) # {} => refs[ShardOf[at]] # None

LEMMA JoinAway ==
    ASSUME pc' \notin {"survey"} \cup Reconciling \cup Creating PROVE JoinInv'
BY DEF JoinInv, Reconciling, Creating

LEMMA JoinBegins ==
    ASSUME pc' = "survey", at' = 1, refs' = [s \in Shard |-> None] PROVE JoinInv'
<1>1. \A n \in Node : ~(n < 1)
  BY ClusterAssumption DEF Node
<1> QED  BY <1>1 DEF JoinInv, Reconciling, Creating

LEMMA FittingHeldByKeeper ==
    ASSUME Safe, OnlyOwnLag, NEW m \in Node, Fits(m), IsReplicated(Desired.engine)
    PROVE  keeper[PathOf[m]] = tables[m].cols
<1>1. IsReplica(m) /\ tables[m].cols.managed = Desired.managed
  BY DEF Fits, Matches, IsReplica
<1>2. tables[m].cols \in Structure
  BY <1>1, ReplicaStructure
<1>3. [tables[m].cols EXCEPT !.managed = Desired.managed] = tables[m].cols
  BY <1>1, <1>2 DEF Structure
<1> QED  BY <1>1, <1>3 DEF OnlyOwnLag, Lags

LEMMA JoinReads ==
    ASSUME Safe, FitInv, JoinInv, ReadReference, ~disturbed PROVE JoinInv'
<1>1. /\ pc = "create" /\ pc' = "creating" /\ at' = at /\ at \in Node /\ existing' = existing
      /\ UNCHANGED <<clusterVars, disturbed>> /\ existing \subseteq Node
  BY DEF ReadReference, Goto, Safe, TypeOK
<1>2. \A n \in Node : Has(n)' <=> Has(n)
  BY <1>1 DEF clusterVars, Has
<1>3. ASSUME ShardMates(at) # {}
      PROVE  /\ FirstInShard(at) \in Node /\ ShardOf[FirstInShard(at)] = ShardOf[at]
             /\ Fits(FirstInShard(at))
  <2>1. FirstInShard(at) \in ShardMates(at) /\ FirstInShard(at) \in Node
    BY <1>1, <1>3, FirstInShardType
  <2> QED  BY <1>1, <2>1 DEF ShardMates, FitInv, PassedInv, Creating
<1>4. ShardOf[at] \in Shard
  BY <1>1 DEF Shard
<1>5. ASSUME ShardMates(at) # {} PROVE refs'[ShardOf[at]] # None
  <2>1. Reference(FirstInShard(at)) # None
    BY <1>3, <1>5, ReferenceType, ClusterAssumption DEF Fits, Safe
  <2>2. Has(FirstInShard(at))
    BY <1>3, <1>5 DEF Fits
  <2> QED  BY <1>4, <1>5, <2>1, <2>2 DEF ReadReference, Safe, TypeOK
<1>6. ASSUME OnePathPerShard, IsReplicated(Desired.engine), NEW n \in Node, refs'[ShardOf[n]] # None
      PROVE  keeper[PathOf[n]] = refs'[ShardOf[n]]
  <2>1. CASE refs' = refs
    BY <1>1, <1>6, <2>1 DEF JoinInv, Creating
  <2>2. CASE /\ ShardMates(at) # {}
             /\ refs' = [refs EXCEPT ![ShardOf[at]] = Reference(FirstInShard(at))]
    <3>1. CASE ShardOf[n] # ShardOf[at]
      <4>1. refs'[ShardOf[n]] = refs[ShardOf[n]]
        BY <2>2, <3>1 DEF Safe, TypeOK, Shard
      <4> QED  BY <1>1, <1>6, <4>1 DEF JoinInv, Creating
    <3>2. CASE ShardOf[n] = ShardOf[at]
      <4>1. PathOf[n] = PathOf[FirstInShard(at)]
        BY <1>3, <1>6, <2>2, <3>2 DEF OnePathPerShard
      <4>2. refs'[ShardOf[n]] = tables[FirstInShard(at)].cols
        BY <1>4, <2>2, <3>2 DEF Safe, TypeOK, Reference
      <4>3. keeper[PathOf[FirstInShard(at)]] = tables[FirstInShard(at)].cols
        BY <1>3, <1>6, <2>2, FittingHeldByKeeper DEF FitInv, LagInv
      <4> QED  BY <4>1, <4>2, <4>3
    <3> QED  BY <3>1, <3>2
  <2> QED  BY <2>1, <2>2 DEF ReadReference
<1>7. (ShardMates(at))' = ShardMates(at)
  BY <1>1 DEF ShardMates
<1> QED  BY <1>1, <1>2, <1>5, <1>6, <1>7 DEF JoinInv, Reconciling, Creating, clusterVars

LEMMA JoinCreates ==
    ASSUME Safe, JoinInv, CreateMissing, ~disturbed PROVE JoinInv'
<1>1. /\ pc = "creating" /\ pc' = "create" /\ at' = at + 1 /\ at \in Node
      /\ UNCHANGED <<existing, refs, disturbed>>
      /\ CanCreate(at, NewTable(at)) /\ CreateTable(at, NewTable(at)) /\ NewTable(at) \in Table
  BY NewTableType DEF CreateMissing, ExecCreate, Goto, Safe, PositionInv
<1>2. ASSUME NEW n \in Node \ existing, n >= at + 1 PROVE ~Has(n)'
  <2>1. n # at /\ n >= at
    BY <1>1, <1>2, ClusterAssumption DEF Node
  <2>2. tables'[n] = tables[n]
    BY <1>1, <2>1 DEF CreateTable, Safe, TypeOK, ClusterTypeOK
  <2> QED  BY <1>1, <2>1, <2>2 DEF JoinInv, Creating, Has
<1>3. ASSUME OnePathPerShard, IsReplicated(Desired.engine), NEW n \in Node, refs[ShardOf[n]] # None
      PROVE  keeper'[PathOf[n]] = refs[ShardOf[n]]
  <2>1. keeper[PathOf[n]] = refs[ShardOf[n]] /\ keeper[PathOf[n]] # None
    BY <1>1, <1>3 DEF JoinInv, Creating
  <2>2. keeper'[PathOf[n]] = IF IsReplicated(NewTable(at).engine) /\ PathOf[at] = PathOf[n]
                             THEN NewTable(at).cols ELSE keeper[PathOf[n]]
    BY <1>1, PathOfNode DEF CreateTable, Safe, TypeOK, ClusterTypeOK
  <2> QED  BY <1>1, <2>1, <2>2 DEF CanCreate
<1> QED  BY <1>1, <1>2, <1>3 DEF JoinInv, Reconciling, Creating

(* A step of a loop that creates no missing table.                            *)
LEMMA JoinLoops ==
    ASSUME Safe, JoinInv, ~disturbed,
           \/ SkipMissing \/ Reconciled \/ ReconcileInPlace \/ ReconcileByRecreate \/ Wait
           \/ RecreateAllowed \/ Alter \/ RecreateDrop \/ RecreateCreate
    PROVE  JoinInv'
<1>1. /\ pc \in Reconciling /\ pc' \in Reconciling /\ at \in 1 .. N + 1
      /\ UNCHANGED <<existing, refs, disturbed>>
  BY DEF SkipMissing, Reconciled, ReconcileInPlace, ReconcileByRecreate, Wait, RecreateAllowed,
         Alter, ExecAlter, RecreateDrop, RecreateCreate, ExecRecreate, Goto, Reconciling, Safe, TypeOK
<1>2. UNCHANGED clusterVars \/ at \in existing
  BY DEF SkipMissing, Reconciled, ReconcileInPlace, ReconcileByRecreate, Wait, RecreateAllowed,
         Alter, ExecAlter, RecreateDrop, RecreateCreate, ExecRecreate, Safe, PositionInv
<1>3. ASSUME NEW n \in Node \ existing PROVE tables'[n] = tables[n]
  <2>1. CASE UNCHANGED clusterVars
    BY <2>1 DEF clusterVars
  <2>2. CASE Alter \/ RecreateDrop \/ RecreateCreate
    <3>1. n # at \/ UNCHANGED clusterVars
      BY <1>2
    <3> QED  BY <2>1, <2>2, <3>1
             DEF Alter, ExecAlter, AlterStructure, AlterSettings, RecreateDrop, DropIfPresent,
                 DropTable, RecreateCreate, ExecRecreate, CreateTable, Safe, TypeOK, ClusterTypeOK
  <2> QED  BY <2>1, <2>2
           DEF SkipMissing, Reconciled, ReconcileInPlace, ReconcileByRecreate, Wait, RecreateAllowed
<1>4. \A n \in Node \ existing : ~Has(n)'
  BY <1>1, <1>3 DEF JoinInv, Has
<1> QED  BY <1>1, <1>4 DEF JoinInv, Reconciling, Creating

LEMMA JoinWalks ==
    ASSUME Safe, JoinInv, ~disturbed,
           Survey \/ (SurveyDone /\ ~Fail) \/ ReconcileDone \/ SkipExisting
    PROVE  JoinInv'
<1>1. /\ UNCHANGED <<clusterVars, refs, disturbed>> /\ at \in 1 .. N + 1
      /\ \A n \in Node : (Has(n)' <=> Has(n)) /\ n \in 1 .. N /\ n < N + 1
  <2>1. UNCHANGED <<clusterVars, refs, disturbed>>
    BY DEF Survey, SurveyDone, ReconcileDone, SkipExisting, Goto
  <2> QED  BY <2>1, ClusterAssumption DEF clusterVars, Has, Node, Safe, TypeOK
<1>2. CASE Survey
  <2>1. /\ pc = "survey" /\ pc' = "survey" /\ at' = at + 1 /\ at \in Node
        /\ existing' = IF Has(at) THEN existing \cup {at} ELSE existing
    BY <1>2 DEF Survey, Goto
  <2>2. ASSUME NEW n \in Node \ existing', n < at + 1 PROVE ~Has(n)
    <3>1. n \notin existing /\ (n = at \/ n < at)
      BY <1>1, <2>1, <2>2, ClusterAssumption
    <3> QED  BY <2>1, <2>2, <3>1 DEF JoinInv
  <2> QED  BY <1>1, <2>1, <2>2 DEF JoinInv, Reconciling, Creating
<1>3. CASE SurveyDone /\ ~Fail
  <2>1. pc = "survey" /\ pc' = "reread" /\ at = N + 1 /\ existing' = existing
    BY <1>3 DEF SurveyDone, Goto
  <2> QED  BY <1>1, <2>1 DEF JoinInv, Reconciling, Creating
<1>4. CASE ReconcileDone
  <2>1. pc = "reread" /\ pc' = "create" /\ existing' = existing
    BY <1>4 DEF ReconcileDone, Goto
  <2>2. \A n \in Node : refs[ShardOf[n]] = None
    BY <2>1 DEF JoinInv, Reconciling, Shard
  <2> QED  BY <1>1, <2>1, <2>2 DEF JoinInv, Reconciling, Creating
<1>5. CASE SkipExisting
  <2>1. pc = "create" /\ pc' = "create" /\ at' = at + 1 /\ existing' = existing
    BY <1>5 DEF SkipExisting, Goto
  <2>2. \A n \in Node : n >= at + 1 => n >= at
    BY <1>1, ClusterAssumption
  <2> QED  BY <1>1, <2>1, <2>2 DEF JoinInv, Reconciling, Creating, clusterVars
<1> QED  BY <1>2, <1>3, <1>4, <1>5

LEMMA JoinRefs ==
    ASSUME JoinInv, pc \in {"survey"} \cup Reconciling => refs' = refs, disturbed',
           pc' \in {"survey"} \cup Reconciling => pc \in {"survey"} \cup Reconciling
    PROVE  JoinInv'
BY DEF JoinInv

LEMMA JoinStep == ASSUME Safe, FitInv, JoinInv, [Next]_vars PROVE JoinInv'
<1>1. CASE Plan
  <2>1. CASE Refresh
    BY <2>1, JoinAway DEF Refresh, opVars, Reconciling, Creating
  <2>2. CASE PlanCreate \/ PlanUpdate
    BY <2>2, JoinBegins DEF PlanCreate, PlanUpdate, Begin, ClearLoop
  <2>3. CASE PlanReplace \/ PlanDestroy
    BY <2>3, JoinAway DEF PlanReplace, PlanDestroy, Begin, Reconciling, Creating
  <2> QED  BY <1>1, <2>1, <2>2, <2>3 DEF Plan
<1>2. CASE Converge
  <2>1. CASE Fail \/ Final \/ CreateDone
    BY <2>1, JoinAway DEF Fail, Final, CreateDone, End, Goto, Reconciling, Creating
  <2>2. CASE ~disturbed
    BY <1>2, <2>1, <2>2, JoinReads, JoinCreates, JoinLoops, JoinWalks
       DEF Converge, ReconcileRefused, AlterGone, RecreateRefused, CreateRejected
  <2>3. CASE disturbed /\ ~(Fail \/ Final \/ CreateDone)
    <3>1. /\ disturbed' /\ (pc \in {"survey"} \cup Reconciling => refs' = refs)
          /\ pc' \in {"survey"} \cup Reconciling => pc \in {"survey"} \cup Reconciling
      BY <1>2, <2>3
         DEF Converge, Survey, SurveyDone, SkipMissing, ReconcileRefused, ReconcileInPlace,
             ReconcileByRecreate, Alter, ExecAlter, AlterGone, Wait, Reconciled, RecreateRefused,
             RecreateAllowed, RecreateDrop, RecreateCreate, ExecRecreate, ReconcileDone,
             SkipExisting, ReadReference, CreateMissing, ExecCreate, CreateRejected, Goto, Reconciling
    <3> QED  BY <3>1, JoinRefs
  <2> QED  BY <2>1, <2>2, <2>3
<1>3. CASE Delete
  <2>1. CASE pc' = "survey"
    BY <1>3, <2>1, JoinBegins
       DEF Delete, Guard, GuardDone, DropNode, DropDone, Goto, Fail, End, ClearLoop
  <2>2. CASE pc' # "survey"
    BY <1>3, <2>2, JoinAway
       DEF Delete, Guard, GuardDone, DropNode, DropDone, Goto, Fail, End, Reconciling, Creating
  <2> QED  BY <2>1, <2>2
<1>4. CASE Failure
  BY <1>4, JoinAway DEF Failure, WaitTimeout, CallFails, DropNodeFails, AnswerLost, Fail, End,
                        Reconciling, Creating
<1>5. ASSUME NEW n \in Node, OtherClient(n) PROVE JoinInv'
  BY <1>5, JoinRefs DEF OtherClient, opVars, loopVars
<1>6. ASSUME NEW n \in Node, ReplicaCatchesUp(n) PROVE JoinInv'
  <2>1. CatchUp(n) /\ keeper' = keeper /\ UNCHANGED <<pc, at, existing, refs, disturbed>>
        /\ existing \subseteq Node
    BY <1>6 DEF ReplicaCatchesUp, CatchUp, opVars, loopVars, historyVars, Safe, TypeOK
  <2>2. \A m \in Node : Has(m)' <=> Has(m)
    BY <2>1, CatchUpHas
  <2>3. pc = "creating" => (ShardMates(at))' = ShardMates(at)
    BY <2>1 DEF ShardMates
  <2> QED  BY <2>1, <2>2, <2>3 DEF JoinInv
<1>7. CASE Reconfigure
  BY <1>7, JoinAway DEF Reconfigure, opVars, Reconciling, Creating
<1>8. CASE UNCHANGED vars
  BY <1>8 DEF vars, opVars, loopVars, historyVars, clusterVars, JoinInv, ShardMates, Has
<1> QED  BY <1>1, <1>2, <1>3, <1>4, <1>5, <1>6, <1>7, <1>8 DEF Next

(* ConvergeNodes, "with the column and index list that the shard already      *)
(* holds": where the replicas of a shard share a Keeper path, the server      *)
(* accepts every replica that an undisturbed apply adds to a shard.           *)
THEOREM NewReplicaSafe == Spec => [](OnePathPerShard => NewReplicaAccepted)
<1>1. Init => JoinInv
  BY DEF Init, JoinInv, Reconciling, Creating
<1>2. Safe /\ FitInv /\ JoinInv /\ [Next]_vars => JoinInv'
  BY JoinStep
<1>3. Safe /\ FitInv /\ JoinInv => (OnePathPerShard => NewReplicaAccepted)
  <2> SUFFICES ASSUME Safe, JoinInv, OnePathPerShard, pc = "creating", ~disturbed,
                      ShardMates(at) # {}
               PROVE  CanCreate(at, NewTable(at))
    BY DEF NewReplicaAccepted
  <2>1. at \in Node \ existing /\ at >= at
    BY ClusterAssumption DEF Safe, PositionInv, Node
  <2>2. ~Has(at)
    BY <2>1 DEF JoinInv, Creating
  <2>3. NewTable(at).engine = Desired.engine
    BY DEF NewTable, Configured, ConfiguredTable
  <2>4. ASSUME IsReplicated(Desired.engine) PROVE keeper[PathOf[at]] = NewTable(at).cols
    <3>1. refs[ShardOf[at]] # None /\ keeper[PathOf[at]] = refs[ShardOf[at]]
      BY <2>1, <2>4 DEF JoinInv, Creating
    <3> QED  BY <2>4, <3>1 DEF NewTable, Configured
  <2> QED  BY <2>2, <2>3, <2>4 DEF CanCreate
<1> QED  BY <1>1, <1>2, <1>3, FitAlways, PTL DEF Spec

=============================================================================
