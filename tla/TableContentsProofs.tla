------------------------- MODULE TableContentsProofs -------------------------
(***************************************************************************)
(* TableContents implements DeclaredContents for any number of nodes, of   *)
(* partitions and of changes by others.                                    *)
(***************************************************************************)
EXTENDS TableContents, TLAPS

(* A swap is of the declared rows, and a drop of a partition without any.     *)
Loaded ==
    /\ pc \in {"list", "swap"} => staging[at] = goal
    /\ pc = "swap" => \A p \in drops : goal[p] = NoRows

(* What a replica fetches is there to be fetched.                             *)
Sourced ==
    replicated => /\ \A n \in Node : Exists(n)
                  /\ \A p \in Partitions : \E m \in Node : table[m][p] = kept[p]

LookedAt == pc = "look" => \A n \in Node : n < at => sums[n] # Unseen

IInv == TypeOK /\ Loaded /\ Sourced /\ LookedAt

-----------------------------------------------------------------------------
(* Contents.                                                                  *)

LEMMA NodeNat == Node \subseteq Nat /\ 1 \in Node
BY ContentsAssumption DEF Node

LEMMA NotContents ==
    /\ NoTable \notin Contents /\ Unseen \notin Contents
    /\ Differ \notin Contents /\ None \notin Contents
BY ContentsAssumption

LEMMA WithPartition ==
    ASSUME NEW c \in Contents, NEW p \in Partitions, NEW rows \in Rows \cup {NoRows}
    PROVE  [c EXCEPT ![p] = rows] \in Contents
BY DEF Contents

LEMMA PartitionRows ==
    ASSUME NEW c \in Contents, NEW p \in Partitions
    PROVE  c[p] \in Rows \cup {NoRows}
BY DEF Contents

LEMMA ExistingContents ==
    ASSUME TypeOK, NEW n \in Node, Exists(n)
    PROVE  table[n] \in Contents
BY DEF TypeOK, RowsOK, Exists

(* What a statement on some nodes leaves.                                     *)
LEMMA HoldType ==
    ASSUME TypeOK, NEW nodes \in SUBSET Node, NEW p \in Partitions,
           NEW rows \in Rows \cup {NoRows}, Hold(nodes, p, rows)
    PROVE  /\ table' \in [Node -> Contents \cup {NoTable}]
           /\ kept' \in Contents
<1>1. ASSUME NEW m \in Node
      PROVE  (IF m \in nodes /\ Exists(m) THEN [table[m] EXCEPT ![p] = rows] ELSE table[m])
                 \in Contents \cup {NoTable}
  <2>1. CASE m \in nodes /\ Exists(m)
    BY <2>1, ExistingContents, WithPartition
  <2>2. CASE ~(m \in nodes /\ Exists(m))
    BY <2>2 DEF TypeOK, RowsOK
  <2> QED  BY <2>1, <2>2
<1>2. table' \in [Node -> Contents \cup {NoTable}]
  BY <1>1 DEF Hold
<1>3. kept' \in Contents
  BY WithPartition DEF Hold, TypeOK, RowsOK
<1> QED  BY <1>2, <1>3

LEMMA HoldSourced ==
    ASSUME TypeOK, Sourced, NEW nodes \in SUBSET Node, nodes # {}, NEW p \in Partitions,
           NEW rows \in Rows \cup {NoRows}, Hold(nodes, p, rows), UNCHANGED replicated
    PROVE  Sourced'
<1> SUFFICES ASSUME replicated
             PROVE  /\ \A n \in Node : Exists(n)'
                    /\ \A q \in Partitions : \E m \in Node : table'[m][q] = kept'[q]
  BY DEF Sourced
<1>1. \A n \in Node : Exists(n) /\ table[n] \in Contents
  BY ExistingContents DEF Sourced
<1>2. \A n \in Node : table'[n] = IF n \in nodes THEN [table[n] EXCEPT ![p] = rows] ELSE table[n]
  BY <1>1 DEF Hold
<1>3. ASSUME NEW n \in Node PROVE table'[n] \in Contents
  <2>1. [table[n] EXCEPT ![p] = rows] \in Contents
    BY <1>1, WithPartition
  <2> QED  BY <1>1, <1>2, <2>1
<1>4. \A n \in Node : Exists(n)'
  BY <1>3, NotContents DEF Exists
<1>5. ASSUME NEW q \in Partitions PROVE \E m \in Node : table'[m][q] = kept'[q]
  <2>1. CASE q = p
    <3>1. PICK m \in nodes : TRUE
      OBVIOUS
    <3>2. table'[m][q] = rows
      BY <1>1, <1>2, <2>1 DEF Contents
    <3>3. kept'[q] = rows
      BY <2>1 DEF Hold, TypeOK, RowsOK, Contents
    <3> QED  BY <3>2, <3>3
  <2>2. CASE q # p
    <3>1. PICK m \in Node : table[m][q] = kept[q]
      BY DEF Sourced
    <3>2. table'[m][q] = table[m][q]
      BY <1>1, <1>2, <2>2 DEF Contents
    <3>3. kept'[q] = kept[q]
      BY <2>2 DEF Hold, TypeOK, RowsOK, Contents
    <3> QED  BY <3>1, <3>2, <3>3
  <2> QED  BY <2>1, <2>2
<1> QED  BY <1>4, <1>5

LEMMA AgreedType ==
    ASSUME TypeOK, \A n \in Node : sums[n] # Unseen
    PROVE  Agreed \in Contents \cup {None, Differ}
<1>1. sums[1] \in Contents \cup {NoTable}
  BY NodeNat DEF TypeOK, RowsOK
<1> QED  BY <1>1 DEF Agreed

-----------------------------------------------------------------------------
LEMMA InitIInv == Init => IInv
<1> SUFFICES ASSUME Init PROVE IInv
  OBVIOUS
<1>1. NoContents \in Contents
  BY DEF NoContents, Contents
<1>2. data \in Contents
  BY ContentsAssumption DEF Init
<1>3. TypeOK
  <2>1. RowsOK
    BY <1>1, <1>2 DEF Init, RowsOK
  <2>2. TerraformOK
    BY DEF Init, TerraformOK
  <2>3. ControlOK
    BY ContentsAssumption DEF Init, ControlOK
  <2>4. FlagsOK
    BY ContentsAssumption DEF Init, FlagsOK
  <2> QED  BY <2>1, <2>2, <2>3, <2>4 DEF TypeOK
<1>4. \A n \in Node : Exists(n)
  BY <1>1, NotContents DEF Init, Exists
<1>5. Sourced
  BY <1>4, NodeNat DEF Init, Sourced
<1> QED  BY <1>3, <1>5 DEF Init, IInv, Loaded, LookedAt

(* What the steps leave alone.                                                *)
LEMMA Settled ==
    ASSUME IInv, UNCHANGED <<replicated, table, kept>>
    PROVE  Sourced'
BY DEF IInv, Sourced, Exists

LEMMA RefreshStep == ASSUME IInv, Refresh PROVE IInv'
<1>1. Sourced'
  BY Settled DEF Refresh, Begin, shape
<1>2. TypeOK'
  <2>1. RowsOK'
    BY NodeNat DEF IInv, TypeOK, RowsOK, Refresh, Begin, shape, budget, Node
  <2>2. TerraformOK'
    BY NodeNat DEF IInv, TypeOK, TerraformOK, Refresh, Begin, shape, budget, Node
  <2>3. ControlOK'
    BY ContentsAssumption DEF IInv, TypeOK, ControlOK, Refresh, Begin
  <2>4. FlagsOK'
    BY DEF IInv, TypeOK, FlagsOK, Refresh, Begin, Lagging, shape
  <2> QED  BY <2>1, <2>2, <2>3, <2>4 DEF TypeOK
<1> QED  BY <1>1, <1>2 DEF IInv, Loaded, LookedAt, Refresh, Begin, Node

LEMMA PlanStep == ASSUME IInv, Plan PROVE IInv'
<1>1. Sourced'
  BY Settled DEF Plan, shape
<1>2. plan'.goal = data
  BY DEF Plan
<1>3. TypeOK'
  <2>1. RowsOK'
    BY <1>2 DEF IInv, TypeOK, RowsOK, Plan, Lagging, shape, control, budget
  <2>2. TerraformOK'
    BY <1>2 DEF IInv, TypeOK, RowsOK, TerraformOK, Plan, budget
  <2>3. ControlOK'
    BY <1>2 DEF IInv, TypeOK, ControlOK, Plan, Lagging, shape, control, budget
  <2>4. FlagsOK'
    BY <1>2 DEF IInv, TypeOK, FlagsOK, Plan, Lagging, shape, control, budget
  <2> QED  BY <2>1, <2>2, <2>3, <2>4 DEF TypeOK
<1> QED  BY <1>1, <1>3 DEF IInv, Loaded, LookedAt, Plan, control

LEMMA ApplyStep == ASSUME IInv, Apply PROVE IInv'
<1>1. Sourced'
  BY Settled DEF Apply, Begin, shape
<1>2. TypeOK'
  <2>1. RowsOK'
    BY NodeNat DEF IInv, TypeOK, RowsOK, TerraformOK, Apply, Begin, shape, budget
  <2>2. TerraformOK'
    BY NodeNat DEF IInv, TypeOK, TerraformOK, Apply, Begin, shape, budget
  <2>3. ControlOK'
    BY ContentsAssumption DEF IInv, TypeOK, ControlOK, Apply, Begin
  <2>4. FlagsOK'
    BY NodeNat DEF IInv, TypeOK, FlagsOK, Apply, Begin, shape, budget
  <2> QED  BY <2>1, <2>2, <2>3, <2>4 DEF TypeOK
<1> QED  BY <1>1, <1>2 DEF IInv, Loaded, LookedAt, Apply, Begin

LEMMA OperatorStep == ASSUME IInv, Declare \/ Forget PROVE IInv'
<1>1. Sourced'
  BY Settled DEF Declare, Forget, shape
<1>2. TypeOK'
  <2>1. RowsOK'
    BY ContentsAssumption DEF IInv, TypeOK, RowsOK, Declare, Forget, shape, control
  <2>2. TerraformOK'
    BY ContentsAssumption DEF IInv, TypeOK, TerraformOK, Declare, Forget, shape, control
  <2>3. ControlOK'
    BY ContentsAssumption DEF IInv, TypeOK, ControlOK, Declare, Forget, shape, control
  <2>4. FlagsOK'
    BY ContentsAssumption DEF IInv, TypeOK, FlagsOK, Declare, Forget, shape, control
  <2> QED  BY <2>1, <2>2, <2>3, <2>4 DEF TypeOK
<1> QED  BY <1>1, <1>2 DEF IInv, Loaded, LookedAt, Declare, Forget, control

LEMMA NextNodeStep == ASSUME IInv, NextNode PROVE IInv'
<1>1. Sourced'
  BY Settled DEF NextNode, shape
<1>2. TypeOK'
  <2>1. RowsOK'
    BY NodeNat, ContentsAssumption DEF IInv, TypeOK, RowsOK, NextNode, Abort, End, shape, budget, Node
  <2>2. TerraformOK'
    BY NodeNat, ContentsAssumption DEF IInv, TypeOK, TerraformOK, NextNode, Abort, End, shape, budget, Node
  <2>3. ControlOK'
    <3>1. CASE at > N /\ pc' = "look" /\ at' = 1 /\ UNCHANGED <<op, written, swaps, drops, plan>>
      BY <3>1, ContentsAssumption DEF IInv, TypeOK, ControlOK, NextNode
    <3>2. CASE at <= N /\ at' = at + 1 /\ UNCHANGED <<op, pc, written, swaps, drops, plan>>
      BY <3>2, ContentsAssumption DEF IInv, TypeOK, ControlOK, NextNode
    <3>3. CASE at <= N /\ pc' = "stage" /\ UNCHANGED <<op, at, written, swaps, drops, plan>>
      BY <3>3, ContentsAssumption DEF IInv, TypeOK, ControlOK, NextNode, Node
    <3>4. CASE Abort
      BY <3>4, ContentsAssumption DEF ControlOK, Abort, End
    <3> QED  BY <3>1, <3>2, <3>3, <3>4 DEF NextNode
  <2>4. FlagsOK'
    BY NodeNat, ContentsAssumption DEF IInv, TypeOK, FlagsOK, NextNode, Abort, End, shape, budget, Node
  <2> QED  BY <2>1, <2>2, <2>3, <2>4 DEF TypeOK
<1> QED  BY <1>1, <1>2 DEF IInv, Loaded, LookedAt, NextNode, Abort, End, Node

LEMMA StageStep == ASSUME IInv, Stage PROVE IInv'
<1>1. Sourced'
  BY Settled DEF Stage, shape
<1>2. TypeOK' /\ Loaded' /\ LookedAt'
  <2>1. CASE Exists(at) /\ staging' = [staging EXCEPT ![at] = goal] /\ pc' = "list"
             /\ UNCHANGED <<op, at, written, swaps, drops, tf, plan, outcome>>
    <3>1. TypeOK'
      <4>1. RowsOK'
        BY <2>1, NotContents DEF IInv, TypeOK, RowsOK, Stage, shape, budget
      <4>2. TerraformOK'
        BY <2>1, NotContents DEF IInv, TypeOK, TerraformOK, Stage, shape, budget
      <4>3. ControlOK'
        BY <2>1, NotContents DEF IInv, TypeOK, ControlOK, Stage, shape, budget
      <4>4. FlagsOK'
        BY <2>1, NotContents DEF IInv, TypeOK, FlagsOK, Stage, shape, budget
      <4> QED  BY <4>1, <4>2, <4>3, <4>4 DEF TypeOK
    <3> QED  BY <2>1, <3>1 DEF IInv, TypeOK, RowsOK, ControlOK, Stage, Loaded, LookedAt
  <2>2. CASE Abort /\ DropStaging
    <3>1. TypeOK'
      <4>1. RowsOK'
        BY <2>2, NodeNat, ContentsAssumption DEF IInv, TypeOK, RowsOK, Stage, Abort, End, DropStaging, shape, budget, Node
      <4>2. TerraformOK'
        BY <2>2, NodeNat, ContentsAssumption DEF IInv, TypeOK, TerraformOK, Stage, Abort, End, DropStaging, shape, budget, Node
      <4>3. ControlOK'
        BY <2>2, NodeNat, ContentsAssumption DEF IInv, TypeOK, ControlOK, Stage, Abort, End, DropStaging, shape, budget, Node
      <4>4. FlagsOK'
        BY <2>2, NodeNat, ContentsAssumption DEF IInv, TypeOK, FlagsOK, Stage, Abort, End, DropStaging, shape, budget, Node
      <4> QED  BY <4>1, <4>2, <4>3, <4>4 DEF TypeOK
    <3> QED  BY <2>2, <3>1 DEF Abort, End, Loaded, LookedAt
  <2> QED  BY <2>1, <2>2 DEF Stage, Staged
<1> QED  BY <1>1, <1>2 DEF IInv

LEMMA ListStep == ASSUME IInv, ListPartitions PROVE IInv'
<1>1. Sourced'
  BY Settled DEF ListPartitions, shape
<1>2. TypeOK'
  <2>1. RowsOK'
    BY DEF IInv, TypeOK, RowsOK, ListPartitions, List, PartitionsOf, shape, budget
  <2>2. TerraformOK'
    BY DEF IInv, TypeOK, TerraformOK, ListPartitions, List, PartitionsOf, shape, budget
  <2>3. ControlOK'
    BY DEF IInv, TypeOK, ControlOK, ListPartitions, List, PartitionsOf, shape, budget
  <2>4. FlagsOK'
    BY DEF IInv, TypeOK, FlagsOK, ListPartitions, List, PartitionsOf, shape, budget
  <2> QED  BY <2>1, <2>2, <2>3, <2>4 DEF TypeOK
<1>3. Loaded'
  BY DEF IInv, TypeOK, Contents, Loaded, ListPartitions, List, PartitionsOf
<1> QED  BY <1>1, <1>2, <1>3 DEF IInv, LookedAt, ListPartitions

LEMMA AbortStep ==
    ASSUME IInv, Abort, UNCHANGED <<shape, data, goal, sums, disturbed>>,
           UNCHANGED staging \/ (at \in Node /\ DropStaging), Sourced',
           table' \in [Node -> Contents \cup {NoTable}], kept' \in Contents,
           faulty' \in BOOLEAN, changes' \in Nat, drift' \in Nat, faults' \in Nat
    PROVE  IInv'
<1>1. TypeOK'
  <2>1. RowsOK'
    BY NodeNat, ContentsAssumption DEF IInv, TypeOK, RowsOK, Abort, End, DropStaging, shape, Node
  <2>2. TerraformOK'
    BY NodeNat, ContentsAssumption DEF IInv, TypeOK, TerraformOK, Abort, End, DropStaging, shape, Node
  <2>3. ControlOK'
    BY NodeNat, ContentsAssumption DEF IInv, TypeOK, ControlOK, Abort, End, DropStaging, shape, Node
  <2>4. FlagsOK'
    BY NodeNat, ContentsAssumption DEF IInv, TypeOK, FlagsOK, Abort, End, DropStaging, shape, Node
  <2> QED  BY <2>1, <2>2, <2>3, <2>4 DEF TypeOK
<1> QED  BY <1>1 DEF IInv, Loaded, LookedAt, Abort, End

LEMMA AbortUnchanged ==
    ASSUME IInv, Abort, UNCHANGED <<shape, data, goal, sums, disturbed, faulty, budget>>,
           UNCHANGED staging \/ (at \in Node /\ DropStaging),
           UNCHANGED <<table, kept>>
    PROVE  IInv'
<1>1. Sourced'
  BY Settled DEF shape
<1>2. faulty' \in BOOLEAN
  BY DEF IInv, TypeOK, FlagsOK
<1> QED  BY <1>1, <1>2, AbortStep DEF IInv, TypeOK, RowsOK, TerraformOK, budget

(* The rows that a swap and a drop write.                                     *)
LEMMA SwapRows ==
    ASSUME IInv, pc = "swap"
    PROVE  /\ at \in Node /\ Reached(at) \in SUBSET Node /\ Reached(at) # {}
           /\ \A p \in swaps : p \in Partitions /\ staging[at][p] = goal[p]
           /\ \A p \in swaps : staging[at][p] \in Rows \cup {NoRows}
           /\ \A p \in drops : p \in Partitions /\ goal[p] = NoRows
<1>1. at \in Node /\ staging[at] = goal /\ goal \in Contents
  BY DEF IInv, TypeOK, ControlOK, RowsOK, Loaded
<1>2. \A p \in Partitions : goal[p] \in Rows \cup {NoRows}
  BY <1>1, PartitionRows
<1> QED  BY <1>1, <1>2 DEF IInv, TypeOK, ControlOK, Loaded, Reached

LEMMA SwapStep == ASSUME IInv, Swap PROVE IInv'
<1> USE DEF Swap
<1>1. PICK p \in swaps :
         \/ /\ Hold(Reached(at), p, staging[at][p])
            /\ swaps' = swaps \ {p}
            /\ UNCHANGED <<staging, op, pc, at, written, drops, tf, plan, outcome>>
         \/ Abort /\ DropStaging /\ UNCHANGED <<table, kept>>
  OBVIOUS
<1>2. CASE Hold(Reached(at), p, staging[at][p]) /\ swaps' = swaps \ {p}
           /\ UNCHANGED <<staging, op, pc, at, written, drops, tf, plan, outcome>>
  <2>1. /\ table' \in [Node -> Contents \cup {NoTable}] /\ kept' \in Contents
        /\ Sourced'
    BY <1>2, SwapRows, HoldType, HoldSourced DEF IInv, shape
  <2>2. RowsOK'
    BY <1>2, <2>1 DEF IInv, TypeOK, RowsOK
  <2>3. TerraformOK'
    BY <1>2 DEF IInv, TypeOK, TerraformOK, budget
  <2>4. ControlOK'
    BY <1>2 DEF IInv, TypeOK, ControlOK
  <2>5. FlagsOK'
    BY <1>2 DEF IInv, TypeOK, FlagsOK, shape
  <2>6. Loaded'
    BY <1>2 DEF IInv, Loaded
  <2> QED  BY <1>2, <2>1, <2>2, <2>3, <2>4, <2>5, <2>6 DEF IInv, TypeOK, LookedAt
<1>3. CASE Abort /\ DropStaging /\ UNCHANGED <<table, kept>>
  BY <1>3, SwapRows, AbortUnchanged
<1> QED  BY <1>1, <1>2, <1>3

LEMMA DropStep == ASSUME IInv, Drop PROVE IInv'
<1> USE DEF Drop
<1>1. PICK p \in drops :
         \/ /\ Hold(Reached(at), p, NoRows)
            /\ drops' = drops \ {p}
            /\ UNCHANGED <<staging, op, pc, at, written, swaps, tf, plan, outcome>>
         \/ Abort /\ DropStaging /\ UNCHANGED <<table, kept>>
  OBVIOUS
<1>2. pc = "swap"
  BY DEF MayDrop
<1>3. CASE Hold(Reached(at), p, NoRows) /\ drops' = drops \ {p}
           /\ UNCHANGED <<staging, op, pc, at, written, swaps, tf, plan, outcome>>
  <2>1. /\ table' \in [Node -> Contents \cup {NoTable}] /\ kept' \in Contents
        /\ Sourced'
    BY <1>2, <1>3, SwapRows, HoldType, HoldSourced DEF IInv, shape
  <2>2. RowsOK'
    BY <1>3, <2>1 DEF IInv, TypeOK, RowsOK
  <2>3. TerraformOK'
    BY <1>3 DEF IInv, TypeOK, TerraformOK, budget
  <2>4. ControlOK'
    BY <1>3 DEF IInv, TypeOK, ControlOK
  <2>5. FlagsOK'
    BY <1>3 DEF IInv, TypeOK, FlagsOK, shape
  <2>6. Loaded'
    BY <1>3 DEF IInv, Loaded
  <2> QED  BY <1>2, <1>3, <2>1, <2>2, <2>3, <2>4, <2>5, <2>6 DEF IInv, TypeOK, LookedAt
<1>4. CASE Abort /\ DropStaging /\ UNCHANGED <<table, kept>>
  BY <1>2, <1>4, SwapRows, AbortUnchanged
<1> QED  BY <1>1, <1>3, <1>4

LEMMA NodeWrittenStep == ASSUME IInv, NodeWritten PROVE IInv'
<1> USE DEF NodeWritten
<1>1. Sourced'
  BY Settled DEF shape
<1>2. RowsOK'
  BY DEF IInv, TypeOK, RowsOK, DropStaging
<1>3. TerraformOK'
  BY DEF IInv, TypeOK, TerraformOK, budget
<1>4. ControlOK'
  BY ContentsAssumption DEF IInv, TypeOK, ControlOK, Node
<1>5. FlagsOK'
  BY DEF IInv, TypeOK, FlagsOK, shape
<1> QED  BY <1>1, <1>2, <1>3, <1>4, <1>5 DEF IInv, TypeOK, Loaded, LookedAt

LEMMA LookStep == ASSUME IInv, Look PROVE IInv'
<1> USE DEF Look
<1>1. Sourced'
  BY Settled DEF shape
<1>2. at \in Node
  BY ContentsAssumption DEF IInv, TypeOK, ControlOK, Node
<1>3. RowsOK'
  BY <1>2 DEF IInv, TypeOK, RowsOK
<1>4. TerraformOK'
  BY DEF IInv, TypeOK, TerraformOK, budget
<1>5. ControlOK'
  BY <1>2, ContentsAssumption DEF IInv, TypeOK, ControlOK, Node
<1>6. FlagsOK'
  BY DEF IInv, TypeOK, FlagsOK, shape
<1>7. table[at] # Unseen
  BY <1>2, NotContents, ContentsAssumption DEF IInv, TypeOK, RowsOK
<1>8. LookedAt'
  BY <1>2, <1>7, NodeNat DEF IInv, TypeOK, RowsOK, LookedAt
<1> QED  BY <1>1, <1>3, <1>4, <1>5, <1>6, <1>8 DEF IInv, TypeOK, Loaded

LEMMA LookedStep == ASSUME IInv, Looked PROVE IInv'
<1>1. \A n \in Node : sums[n] # Unseen
  BY ContentsAssumption DEF IInv, TypeOK, ControlOK, LookedAt, Looked, Node
<1>2. Agreed \in Contents \cup {None, Differ}
  BY <1>1, AgreedType DEF IInv
<1>3. CASE Abort
  BY <1>3, AbortUnchanged DEF Looked
<1>4. ASSUME NEW result \in {"applied", "refreshed", "removed"}, End(result, Agreed),
             UNCHANGED plan \/ plan' = None
      PROVE  IInv'
  <2>1. Sourced'
    BY Settled DEF Looked, shape
  <2>2. RowsOK'
    BY DEF IInv, TypeOK, RowsOK, Looked
  <2>3. TerraformOK'
    BY <1>2, <1>4 DEF IInv, TypeOK, TerraformOK, Looked, End, budget
  <2>4. ControlOK'
    BY <1>4, ContentsAssumption DEF ControlOK, End
  <2>5. FlagsOK'
    BY <1>4 DEF IInv, TypeOK, FlagsOK, Looked, End, shape
  <2> QED  BY <1>4, <2>1, <2>2, <2>3, <2>4, <2>5 DEF IInv, TypeOK, End, Loaded, LookedAt
<1> QED  BY <1>3, <1>4 DEF Looked

LEMMA CallFailsStep == ASSUME IInv, CallFails PROVE IInv'
<1> USE DEF CallFails
<1>1. \/ UNCHANGED <<table, kept>>
      \/ \E p \in Partitions, rows \in Rows \cup {NoRows} : at \in Node /\ Hold({at}, p, rows)
  BY SwapRows DEF MayDrop
<1>2. /\ table' \in [Node -> Contents \cup {NoTable}] /\ kept' \in Contents
      /\ Sourced'
  BY <1>1, HoldType, HoldSourced, Settled DEF IInv, TypeOK, RowsOK, shape
<1>3. faulty' \in BOOLEAN /\ faults' \in Nat /\ changes' \in Nat /\ drift' \in Nat
  BY DEF IInv, TypeOK, TerraformOK
<1> QED  BY <1>2, <1>3, AbortStep

LEMMA CatchUpStep == ASSUME IInv, CatchUp PROVE IInv'
<1>1. PICK n \in Node, p \in Partitions :
         replicated /\ Exists(n) /\ table[n][p] # kept[p] /\ table' = [table EXCEPT ![n][p] = kept[p]]
  BY DEF CatchUp
<1>2. kept[p] \in Rows \cup {NoRows} /\ table[n] \in Contents
  BY <1>1, PartitionRows, ExistingContents DEF IInv, TypeOK, RowsOK
<1>3. [table[n] EXCEPT ![p] = kept[p]] \in Contents
  BY <1>2, WithPartition
<1>4. table' = [table EXCEPT ![n] = [table[n] EXCEPT ![p] = kept[p]]]
  BY <1>1
<1>5. RowsOK'
  BY <1>3, <1>4 DEF IInv, TypeOK, RowsOK, CatchUp
<1>6. ASSUME NEW m \in Node PROVE Exists(m)'
  <2>1. table'[m] = IF m = n THEN [table[n] EXCEPT ![p] = kept[p]] ELSE table[m]
    BY <1>4 DEF IInv, TypeOK, RowsOK
  <2>2. table[m] # NoTable
    BY <1>1 DEF IInv, Sourced, Exists
  <2> QED  BY <1>3, <2>1, <2>2, NotContents DEF Exists
<1>7. ASSUME NEW q \in Partitions PROVE \E m \in Node : table'[m][q] = kept'[q]
  <2>1. PICK m \in Node : table[m][q] = kept[q]
    BY <1>1 DEF IInv, Sourced
  <2>2. table'[m][q] = kept[q]
    BY <1>2, <1>4, <2>1 DEF IInv, TypeOK, RowsOK, Contents
  <2> QED  BY <2>2 DEF CatchUp
<1>8. Sourced'
  BY <1>6, <1>7 DEF Sourced
<1>9. TerraformOK' /\ ControlOK'
  BY DEF IInv, TypeOK, TerraformOK, ControlOK, CatchUp, control, budget
<1>10. FlagsOK'
  BY DEF IInv, TypeOK, FlagsOK, CatchUp, control, shape
<1>11. Loaded' /\ LookedAt'
  BY DEF IInv, Loaded, LookedAt, CatchUp, control
<1> QED  BY <1>5, <1>8, <1>9, <1>10, <1>11 DEF IInv, TypeOK

LEMMA OtherClientStep == ASSUME IInv, OtherClient PROVE IInv'
<1>1. /\ table' \in [Node -> Contents \cup {NoTable}] /\ kept' \in Contents
      /\ Sourced'
  <2>1. CASE \E n \in Node, p \in Partitions, rows \in Rows \cup {NoRows} : Hold({n}, p, rows)
    BY <2>1, HoldType, HoldSourced DEF IInv, OtherClient, shape
  <2>2. CASE \E n \in Node : /\ ~replicated
                             /\ table' = [table EXCEPT ![n] = IF Exists(n) THEN NoTable ELSE NoContents]
                             /\ UNCHANGED kept
    <3>1. NoContents \in Contents
      BY DEF NoContents, Contents
    <3> QED  BY <2>2, <3>1 DEF IInv, TypeOK, RowsOK, Sourced, OtherClient, shape
  <2> QED  BY <2>1, <2>2 DEF OtherClient
<1>2. RowsOK'
  BY <1>1 DEF IInv, TypeOK, RowsOK, OtherClient
<1>3. TerraformOK' /\ ControlOK'
  BY DEF IInv, TypeOK, TerraformOK, ControlOK, OtherClient, control
<1>4. FlagsOK'
  BY DEF IInv, TypeOK, FlagsOK, OtherClient, control, shape
<1>5. Loaded' /\ LookedAt'
  BY DEF IInv, Loaded, LookedAt, OtherClient, control
<1> QED  BY <1>1, <1>2, <1>3, <1>4, <1>5 DEF IInv, TypeOK

LEMMA Step == ASSUME IInv, [Next]_vars PROVE IInv'
<1>1. CASE UNCHANGED vars
  <2>1. Sourced'
    BY <1>1, Settled DEF vars, shape
  <2>2. RowsOK' /\ TerraformOK'
    BY <1>1 DEF IInv, TypeOK, RowsOK, TerraformOK, vars, budget
  <2>3. ControlOK' /\ FlagsOK'
    BY <1>1 DEF IInv, TypeOK, ControlOK, FlagsOK, vars, control, shape
  <2> QED  BY <1>1, <2>1, <2>2, <2>3 DEF IInv, TypeOK, Loaded, LookedAt, vars, control
<1>2. CASE Next
  BY <1>2, RefreshStep, PlanStep, ApplyStep, OperatorStep, NextNodeStep, StageStep, ListStep,
     SwapStep, DropStep, NodeWrittenStep, LookStep, LookedStep, CallFailsStep, CatchUpStep,
     OtherClientStep
     DEF Next, Provider
<1> QED  BY <1>1, <1>2

THEOREM Invariance == Spec => []IInv
BY InitIInv, Step, PTL DEF Spec

(* Whatever the others do and whichever calls fail, a write has what it takes *)
(* for granted, and the state says only what a table can hold.                *)
THEOREM TypeCorrect == Spec => []TypeOK
<1>1. IInv => TypeOK
  BY DEF IInv
<1> QED  BY <1>1, Invariance, PTL

-----------------------------------------------------------------------------
(* The refinement.                                                            *)

LEMMA InitDeclared == Init => Declared!Init
BY DEF Init, Declared!Init

(* A statement on some nodes that writes declared rows.                       *)
LEMMA HoldIsSwap ==
    ASSUME TypeOK, NEW nodes \in SUBSET Node, NEW p \in Partitions,
           Hold(nodes, p, goal[p]), UNCHANGED <<goal, sums, tf, drift>>
    PROVE  Declared!Swap
<1>1. table' = [n \in Node |-> IF n \in nodes /\ table[n] # NoTable
                              THEN [table[n] EXCEPT ![p] = goal[p]] ELSE table[n]]
  BY DEF Hold, Exists
<1> QED  BY <1>1 DEF Declared!Swap

LEMMA SwapDeclared == ASSUME IInv, Swap PROVE [Declared!Next]_(Declared!vars)
<1>1. PICK p \in swaps :
         \/ Hold(Reached(at), p, staging[at][p]) /\ UNCHANGED tf
         \/ Abort /\ UNCHANGED <<table, kept>>
  BY DEF Swap
<1>2. UNCHANGED <<goal, sums, drift>>
  BY DEF Swap, budget
<1>3. CASE Hold(Reached(at), p, staging[at][p]) /\ UNCHANGED tf
  BY <1>2, <1>3, SwapRows, HoldIsSwap DEF IInv, Swap, Declared!Next
<1>4. CASE Abort /\ UNCHANGED <<table, kept>>
  BY <1>2, <1>4 DEF Abort, End, Declared!vars
<1> QED  BY <1>1, <1>3, <1>4

LEMMA DropDeclared == ASSUME IInv, Drop PROVE [Declared!Next]_(Declared!vars)
<1>1. PICK p \in drops :
         \/ Hold(Reached(at), p, NoRows) /\ UNCHANGED tf
         \/ Abort /\ UNCHANGED <<table, kept>>
  BY DEF Drop
<1>2. UNCHANGED <<goal, sums, drift>> /\ pc = "swap"
  BY DEF Drop, MayDrop, budget
<1>3. CASE Hold(Reached(at), p, NoRows) /\ UNCHANGED tf
  BY <1>2, <1>3, SwapRows, HoldIsSwap DEF IInv, Declared!Next
<1>4. CASE Abort /\ UNCHANGED <<table, kept>>
  BY <1>2, <1>4 DEF Abort, End, Declared!vars
<1> QED  BY <1>1, <1>3, <1>4

LEMMA CallFailsDeclared == ASSUME IInv, CallFails PROVE [Declared!Next]_(Declared!vars)
<1>1. UNCHANGED <<goal, sums, drift, tf>>
  BY DEF CallFails, Abort, End
<1>2. \/ UNCHANGED table
      \/ \E p \in Partitions : at \in Node /\ Hold({at}, p, goal[p])
  BY SwapRows DEF CallFails, MayDrop
<1>3. CASE UNCHANGED table
  BY <1>1, <1>3 DEF Declared!vars
<1>4. CASE \E p \in Partitions : at \in Node /\ Hold({at}, p, goal[p])
  BY <1>1, <1>4, HoldIsSwap DEF IInv, Declared!Next
<1> QED  BY <1>2, <1>3, <1>4

LEMMA LookDeclared == ASSUME IInv, Look PROVE [Declared!Next]_(Declared!vars)
<1>1. at \in Node
  BY ContentsAssumption DEF IInv, TypeOK, ControlOK, Look, Node
<1> QED  BY <1>1 DEF Look, Declared!Look, Declared!Next, budget

(* The state says what every node was seen to hold, or that they differ.      *)
LEMMA LookedDeclared == ASSUME IInv, Looked PROVE [Declared!Next]_(Declared!vars)
<1>1. UNCHANGED <<table, goal, sums, drift>>
  BY DEF Looked, budget
<1>2. CASE Abort
  BY <1>1, <1>2 DEF Abort, End, Declared!vars
<1>3. CASE tf' = Agreed
  <2>1. CASE Agreed \in {None, Differ}
    BY <1>1, <1>3, <2>1 DEF Declared!Disclaim, Declared!Next
  <2>2. CASE Agreed \notin {None, Differ}
    <3>1. /\ \A n \in Node : sums[n] = Agreed
          /\ Agreed # NoTable
      BY <2>2, NodeNat DEF Agreed
    <3>2. Agreed # Unseen
      BY <3>1, NodeNat, ContentsAssumption DEF IInv, TypeOK, ControlOK, LookedAt, Looked, Node
    <3>3. Agreed \in {sums[n] : n \in Node}
      BY <3>1, NodeNat
    <3> QED  BY <1>1, <1>3, <3>1, <3>2, <3>3 DEF Declared!Claim, Declared!Next
  <2> QED  BY <2>1, <2>2
<1> QED  BY <1>2, <1>3 DEF Looked, End

LEMMA CatchUpDeclared == ASSUME IInv, CatchUp PROVE [Declared!Next]_(Declared!vars)
<1>1. PICK n \in Node, p \in Partitions :
         replicated /\ Exists(n) /\ table' = [table EXCEPT ![n][p] = kept[p]]
  BY DEF CatchUp
<1>2. PICK m \in Node : Exists(m) /\ table[m][p] = kept[p]
  BY <1>1 DEF IInv, Sourced
<1>3. UNCHANGED <<goal, sums, tf, drift>>
  BY DEF CatchUp, budget
<1> QED  BY <1>1, <1>2, <1>3 DEF Exists, Declared!Replicate, Declared!Next

LEMMA OtherDeclared ==
    ASSUME IInv, OtherClient PROVE [Declared!Next]_(Declared!vars)
BY DEF IInv, TypeOK, TerraformOK, OtherClient, Declared!OtherClient, Declared!Next

LEMMA OperatorDeclared ==
    ASSUME IInv, Refresh \/ Plan \/ Apply \/ Declare \/ Forget
    PROVE  [Declared!Next]_(Declared!vars)
<1>1. CASE Refresh \/ Apply
  BY <1>1 DEF Refresh, Apply, Begin, budget, Declared!Start, Declared!Next
<1>2. CASE Plan \/ Declare
  BY <1>2 DEF Plan, Declare, budget, Declared!vars
<1>3. CASE Forget
  BY <1>3 DEF Forget, Declared!Disclaim, Declared!Next
<1> QED  BY <1>1, <1>2, <1>3

LEMMA WriteDeclared ==
    ASSUME IInv, NextNode \/ Stage \/ ListPartitions \/ NodeWritten
    PROVE  [Declared!Next]_(Declared!vars)
BY DEF NextNode, Stage, ListPartitions, NodeWritten, Abort, End, budget, Declared!vars

LEMMA StepDeclared == ASSUME IInv, [Next]_vars PROVE [Declared!Next]_(Declared!vars)
<1>1. CASE UNCHANGED vars
  BY <1>1 DEF vars, budget, Declared!vars
<1>2. CASE Next
  BY <1>2, OperatorDeclared, WriteDeclared, SwapDeclared, DropDeclared, LookDeclared,
     LookedDeclared, CallFailsDeclared, CatchUpDeclared, OtherDeclared DEF Next, Provider
<1> QED  BY <1>1, <1>2

(* Node by node, skipping replicas, one statement at a time, with calls that  *)
(* fail anywhere: the provider does what table_contents promises.             *)
THEOREM Implementation == Spec => ImplementsDeclared
<1>1. Init => Declared!Init
  BY InitDeclared
<1>2. IInv /\ [Next]_vars => [Declared!Next]_(Declared!vars)
  BY StepDeclared
<1> QED  BY <1>1, <1>2, Invariance, PTL DEF Spec, ImplementsDeclared, Declared!Spec
-----------------------------------------------------------------------------
(* What nobody disturbs.                                                      *)

Writing == {"node", "stage", "list", "swap"}

(* Of replicas only the first node is worked on.                              *)
Position ==
    /\ pc # "idle" => outcome = "none"
    /\ pc \in Writing => (written <=> at > 1)
    /\ pc \in Writing \ {"node"} /\ replicated => at = 1
    /\ pc = "swap" => \A p \in swaps : goal[p] # NoRows

(* The nodes whose statements a plan records.                                 *)
Recorded(n) == plan # None /\ enforced /\ (~replicated \/ n = 1)

Planned ==
    /\ op = "write" => plan # None /\ goal = plan.goal
    /\ \A n \in Node : Recorded(n) =>
          /\ plan.reviewed[n] # None
          /\ \A p \in PartitionsOf(plan.goal) : p \in plan.reviewed[n].swaps

(* The replicas agree, and keep agreeing.                                     *)
Together ==
    pc # "idle" \/ plan # None \/ outcome = "refreshed" =>
        (replicated => \A n \in Node : table[n] = kept)

Present == plan # None => \A n \in Node : Exists(n)

(* What is to be dropped now was there when the plan was made.                *)
Covered ==
    \A n \in Node : Recorded(n) =>
        \A p \in Partitions :
            table[n][p] # NoRows /\ plan.goal[p] = NoRows => p \in plan.reviewed[n].drops

(* What is left to do on the node.                                            *)
Remaining ==
    pc = "swap" => \A p \in Partitions :
        /\ p \in drops <=> (goal[p] = NoRows /\ table[at][p] # NoRows)
        /\ p \notin swaps /\ goal[p] # NoRows => table[at][p] = goal[p]

Held ==
    /\ pc \in Writing => \A n \in Node : n < at => table[n] = goal
    /\ pc = "look" /\ op = "write" => \A n \in Node : table[n] = goal

SeenStill ==
    /\ pc = "look" => \A n \in Node : n < at => sums[n] = table[n]
    /\ outcome = "refreshed" /\ tf # Differ => \A n \in Node : table[n] = tf

Undisturbed == Together /\ Present /\ Covered /\ Remaining /\ Held /\ SeenStill

Quiet == Position /\ Planned /\ (~disturbed => Undisturbed) /\ QuietWriteSucceeds

LEMMA SameContents ==
    ASSUME NEW c \in Contents, NEW d \in Contents, \A p \in Partitions : c[p] = d[p]
    PROVE  c = d
BY DEF Contents

LEMMA WithoutReplicas ==
    ASSUME IInv, Quiet, ~disturbed, plan # None
    PROVE  \A n \in Node : table[n] \in Contents
BY ExistingContents DEF IInv, Quiet, Undisturbed, Present

LEMMA InitQuiet == Init => Quiet
BY DEF Init, Quiet, Position, Planned, Recorded, Undisturbed, Together, Present, Covered,
       Remaining, Held, SeenStill, QuietWriteSucceeds, Writing

LEMMA RefreshQuiet == ASSUME IInv, Quiet, Refresh PROVE Quiet'
<1> USE DEF Refresh, Begin, shape
<1>1. Position' /\ Planned' /\ QuietWriteSucceeds'
  BY DEF Position, Writing, Planned, Recorded, QuietWriteSucceeds
<1>2. ASSUME ~disturbed' PROVE Together'
  BY <1>2 DEF Together, Lagging
<1>3. Present' /\ Covered' /\ Remaining' /\ Held' /\ SeenStill'
  BY NodeNat, ContentsAssumption DEF Present, Covered, Recorded, Remaining, Held, SeenStill, Writing, Node
<1> QED  BY <1>1, <1>2, <1>3 DEF Quiet, Undisturbed

(* The plan records every statement that the write would need now.            *)
LEMMA PlanQuiet == ASSUME IInv, Quiet, Plan PROVE Quiet'
<1>1. /\ pc' = "idle" /\ op' = "none" /\ outcome' = "none"
      /\ UNCHANGED <<replicated, enforced, table, kept>>
  BY DEF Plan, control, shape, IInv, TypeOK, ControlOK
<1>2. plan'.goal = data /\ \A n \in Node : plan'.reviewed[n] = Reviewed(n)
  BY DEF Plan
<1>3. ASSUME NEW n \in Node, Recorded(n)'
      PROVE  /\ plan'.reviewed[n] # None
             /\ \A p \in PartitionsOf(data) : p \in plan'.reviewed[n].swaps
             /\ \A p \in Partitions :
                   table[n][p] # NoRows /\ data[p] = NoRows => p \in plan'.reviewed[n].drops
  <2>1. plan'.reviewed[n] = [swaps |-> PartitionsOf(data),
                             drops |-> PartitionsOf(table[n]) \ PartitionsOf(data)]
    BY <1>1, <1>2, <1>3 DEF Recorded, Reviewed
  <2>2. plan'.reviewed[n] # None
    BY <2>1, ContentsAssumption DEF PartitionsOf
  <2> QED  BY <2>1, <2>2 DEF PartitionsOf
<1>4. Position'
  BY <1>1 DEF Position, Writing
<1>5. Planned'
  BY <1>1, <1>2, <1>3 DEF Planned, PartitionsOf
<1>6. ASSUME ~disturbed' PROVE Together' /\ Present'
  BY <1>1, <1>6 DEF Plan, Lagging, Together, Present, Exists
<1>7. Covered'
  BY <1>1, <1>2, <1>3 DEF Covered
<1>8. Remaining' /\ Held' /\ SeenStill' /\ QuietWriteSucceeds'
  BY <1>1 DEF Remaining, Held, SeenStill, Writing, QuietWriteSucceeds
<1> QED  BY <1>4, <1>5, <1>6, <1>7, <1>8 DEF Quiet, Undisturbed

LEMMA ApplyQuiet == ASSUME IInv, Quiet, Apply PROVE Quiet'
<1> USE DEF Apply, Begin, shape
<1>1. Position'
  BY DEF Position, Writing
<1>2. Planned'
  BY DEF Quiet, Planned, Recorded, PartitionsOf
<1>3. ASSUME ~disturbed' PROVE Together' /\ Present' /\ Covered'
  BY <1>3 DEF Quiet, Undisturbed, Together, Present, Covered, Recorded, Exists
<1>4. Remaining' /\ SeenStill' /\ QuietWriteSucceeds'
  BY DEF Remaining, SeenStill, QuietWriteSucceeds
<1>5. Held'
  BY NodeNat, ContentsAssumption DEF Held, Node
<1> QED  BY <1>1, <1>2, <1>3, <1>4, <1>5 DEF Quiet, Undisturbed

LEMMA OperatorQuiet == ASSUME IInv, Quiet, Declare \/ Forget PROVE Quiet'
<1>1. /\ pc = "idle" /\ pc' = "idle" /\ op' = "none" /\ plan' = None
      /\ UNCHANGED <<replicated, table, kept, disturbed, faulty>>
      /\ outcome' \in {outcome, "none"} /\ (outcome' # "none" => tf' = tf)
  BY DEF Declare, Forget, control, shape, IInv, TypeOK, ControlOK
<1>2. Position' /\ Planned' /\ QuietWriteSucceeds'
  BY <1>1 DEF Quiet, Position, Writing, Planned, Recorded, QuietWriteSucceeds
<1>3. Present' /\ Covered' /\ Remaining' /\ Held'
  BY <1>1 DEF Present, Covered, Recorded, Remaining, Held, Writing
<1>4. ASSUME ~disturbed' PROVE Together' /\ SeenStill'
  BY <1>1, <1>4 DEF Quiet, Undisturbed, Together, SeenStill
<1> QED  BY <1>2, <1>3, <1>4 DEF Quiet, Undisturbed

(* An operation that ends without success is either disturbed or had a call   *)
(* that failed.                                                               *)
LEMMA AbortQuiet == ASSUME Abort, disturbed' \/ faulty' PROVE Quiet'
<1>1. Position' /\ Planned' /\ QuietWriteSucceeds'
  BY DEF Abort, End, Position, Writing, Planned, Recorded, QuietWriteSucceeds
<1>2. Together' /\ Present' /\ Covered' /\ Remaining' /\ Held' /\ SeenStill'
  BY DEF Abort, End, Together, Present, Covered, Recorded, Remaining, Held, SeenStill, Writing
<1> QED  BY <1>1, <1>2 DEF Quiet, Undisturbed

(* Steps that leave the tables and the plan alone.                            *)
LEMMA KeepsPlan ==
    ASSUME IInv, Quiet, UNCHANGED <<shape, table, kept, goal, plan, op, disturbed>>,
           pc # "idle"
    PROVE  /\ Planned'
           /\ ~disturbed => Together' /\ Present' /\ Covered'
<1> USE DEF shape
<1>1. Planned'
  BY DEF Quiet, Planned, Recorded, PartitionsOf
<1>2. ASSUME ~disturbed PROVE Present' /\ Covered'
  BY <1>2 DEF Quiet, Undisturbed, Present, Covered, Recorded, Exists
<1>3. ASSUME ~disturbed PROVE Together'
  BY <1>3 DEF Quiet, Undisturbed, Together
<1> QED  BY <1>1, <1>2, <1>3

LEMMA NextNodeQuiet == ASSUME IInv, Quiet, NextNode PROVE Quiet'
<1> USE DEF NextNode
<1>1. /\ pc = "node" /\ op = "write" /\ plan # None /\ outcome = "none"
      /\ UNCHANGED <<shape, table, kept, goal, sums, disturbed, faulty>>
  BY DEF IInv, TypeOK, ControlOK, Quiet, Position
<1>2. CASE Abort
  <2>1. (at <= N /\ ~Exists(at) /\ at \in Node) \/ pc' # "idle"
    BY <1>1, ContentsAssumption DEF Abort, End, IInv, TypeOK, ControlOK, Node
  <2>2. disturbed'
    BY <1>1, <1>2, <2>1 DEF Abort, End, Quiet, Undisturbed, Present
  <2> QED  BY <1>2, <2>2, AbortQuiet
<1>3. CASE /\ at > N /\ pc' = "look" /\ at' = 1
           /\ UNCHANGED <<op, written, swaps, drops, tf, plan, outcome>>
  <2>1. Planned' /\ (~disturbed => Together' /\ Present' /\ Covered')
    BY <1>1, <1>3, KeepsPlan
  <2>2. Position' /\ QuietWriteSucceeds'
    BY <1>1, <1>3 DEF Quiet, Position, Writing, QuietWriteSucceeds
  <2>3. Remaining'
    BY <1>3 DEF Remaining
  <2>4. ASSUME ~disturbed PROVE Held' /\ SeenStill'
    <3>1. \A n \in Node : table[n] = goal
      BY <1>1, <1>3, <2>4, ContentsAssumption
         DEF Quiet, Undisturbed, Held, Writing, Node, IInv, TypeOK, ControlOK
    <3>2. \A n \in Node : ~(n < 1)
      BY DEF Node
    <3> QED  BY <1>1, <1>3, <3>1, <3>2 DEF Held, SeenStill, Writing
  <2> QED  BY <1>1, <2>1, <2>2, <2>3, <2>4 DEF Quiet, Undisturbed
<1>4. CASE /\ at <= N /\ Skips(at) /\ at' = at + 1
           /\ UNCHANGED <<op, pc, written, swaps, drops, tf, plan, outcome>>
  <2>1. Planned' /\ (~disturbed => Together' /\ Present' /\ Covered')
    BY <1>1, <1>4, KeepsPlan
  <2>2. at \in Node /\ 1 \in Node /\ 1 < at
    BY <1>1, <1>4, ContentsAssumption
       DEF Skips, Quiet, Position, Writing, IInv, TypeOK, ControlOK, Node
  <2>3. Position' /\ QuietWriteSucceeds'
    BY <1>1, <1>4, <2>2 DEF Quiet, Position, Writing, QuietWriteSucceeds, Node
  <2>4. Remaining' /\ SeenStill'
    BY <1>1, <1>4 DEF Remaining, SeenStill
  <2>5. ASSUME ~disturbed PROVE Held'
    <3>1. table[at] = kept /\ table[1] = kept
      BY <1>1, <1>4, <2>2, <2>5 DEF Quiet, Undisturbed, Together, Skips
    <3>2. \A n \in Node : n < at => table[n] = goal
      BY <1>1, <2>5 DEF Quiet, Undisturbed, Held, Writing
    <3>3. table[at] = goal
      BY <2>2, <3>1, <3>2
    <3>4. \A n \in Node : n < at + 1 => n < at \/ n = at
      BY <2>2 DEF Node
    <3> QED  BY <1>1, <1>4, <3>2, <3>3, <3>4 DEF Held
  <2> QED  BY <1>1, <2>1, <2>3, <2>4, <2>5 DEF Quiet, Undisturbed
<1>5. CASE /\ at <= N /\ ~Skips(at) /\ Exists(at) /\ pc' = "stage"
           /\ UNCHANGED <<op, at, written, swaps, drops, tf, plan, outcome>>
  <2>1. Planned' /\ (~disturbed => Together' /\ Present' /\ Covered')
    BY <1>1, <1>5, KeepsPlan
  <2>2. replicated => at = 1
    BY <1>1, <1>5, ContentsAssumption
       DEF Skips, Quiet, Position, Writing, IInv, TypeOK, ControlOK
  <2>3. Position' /\ QuietWriteSucceeds'
    BY <1>1, <1>5, <2>2 DEF Quiet, Position, Writing, QuietWriteSucceeds, shape
  <2>4. Remaining' /\ SeenStill'
    BY <1>1, <1>5 DEF Remaining, SeenStill
  <2>5. ASSUME ~disturbed PROVE Held'
    BY <1>1, <1>5, <2>5 DEF Quiet, Undisturbed, Held, Writing
  <2> QED  BY <1>1, <2>1, <2>3, <2>4, <2>5 DEF Quiet, Undisturbed
<1> QED  BY <1>2, <1>3, <1>4, <1>5

LEMMA StageQuiet == ASSUME IInv, Quiet, Stage PROVE Quiet'
<1> USE DEF Stage
<1>1. /\ pc = "stage" /\ op = "write" /\ plan # None /\ outcome = "none" /\ at \in Node
      /\ UNCHANGED <<shape, table, kept, goal, sums, disturbed, faulty>>
  BY DEF IInv, TypeOK, ControlOK, Quiet, Position
<1>2. CASE Abort
  <2>1. ~Exists(at) \/ (enforced /\ plan.reviewed[at] = None)
    BY <1>1, <1>2 DEF Abort, End
  <2>2. CASE enforced /\ plan.reviewed[at] = None
    <3>1. Recorded(at)
      BY <1>1, <2>2 DEF Recorded, Quiet, Position, Writing
    <3> QED  BY <1>1, <2>2, <3>1 DEF Quiet, Planned
  <2>3. CASE ~Exists(at)
    <3>1. disturbed'
      BY <1>1, <2>3 DEF Quiet, Undisturbed, Present
    <3> QED  BY <1>2, <3>1, AbortQuiet
  <2> QED  BY <2>1, <2>2, <2>3
<1>3. CASE pc' = "list" /\ UNCHANGED <<op, at, written, swaps, drops, tf, plan, outcome>>
  <2>1. Planned' /\ (~disturbed => Together' /\ Present' /\ Covered')
    BY <1>1, <1>3, KeepsPlan
  <2>2. Position' /\ QuietWriteSucceeds'
    BY <1>1, <1>3 DEF Quiet, Position, Writing, QuietWriteSucceeds, shape
  <2>3. Remaining' /\ SeenStill'
    BY <1>1, <1>3 DEF Remaining, SeenStill
  <2>4. ASSUME ~disturbed PROVE Held'
    BY <1>1, <1>3, <2>4 DEF Quiet, Undisturbed, Held, Writing
  <2> QED  BY <1>1, <2>1, <2>2, <2>3, <2>4 DEF Quiet, Undisturbed
<1> QED  BY <1>2, <1>3

LEMMA ListQuiet == ASSUME IInv, Quiet, ListPartitions PROVE Quiet'
<1> USE DEF ListPartitions
<1>1. /\ pc = "list" /\ pc' = "swap" /\ op = "write" /\ plan # None /\ at \in Node
      /\ UNCHANGED <<shape, table, kept, goal, sums, disturbed, faulty, op, plan, outcome, at,
                     written>>
      /\ outcome = "none" /\ staging[at] = goal
  BY DEF IInv, TypeOK, ControlOK, Quiet, Position, Loaded
<1>2. Planned' /\ (~disturbed => Together' /\ Present' /\ Covered')
  BY <1>1, KeepsPlan
<1>3. swaps' = PartitionsOf(goal)
  BY <1>1 DEF List
<1>4. Position' /\ QuietWriteSucceeds'
  BY <1>1, <1>3 DEF Quiet, Position, Writing, QuietWriteSucceeds, PartitionsOf, shape
<1>5. SeenStill'
  BY <1>1 DEF SeenStill
<1>6. ASSUME ~disturbed PROVE Held' /\ Remaining'
  <2>1. Held'
    BY <1>1, <1>6 DEF Quiet, Undisturbed, Held, Writing
  <2>2. drops' = PartitionsOf(table[at]) \ PartitionsOf(goal)
    BY <1>1, <1>6 DEF List, Quiet, Undisturbed, Present
  <2>3. Remaining'
    BY <1>1, <1>3, <2>2 DEF Remaining, PartitionsOf
  <2> QED  BY <2>1, <2>3
<1> QED  BY <1>1, <1>2, <1>4, <1>5, <1>6 DEF Quiet, Undisturbed

(* A statement of the write on the node: every other node keeps what it had,  *)
(* or is a replica and follows.                                               *)
LEMMA HoldQuiet ==
    ASSUME IInv, Quiet, ~disturbed, pc = "swap", NEW p \in Partitions,
           Hold(Reached(at), p, goal[p]),
           UNCHANGED <<replicated, enforced, op, pc, at, written, tf, plan, outcome, goal, sums>>
    PROVE  /\ Together' /\ Present' /\ Covered' /\ Held' /\ SeenStill'
           /\ table'[at] \in Contents /\ table'[at] = [table[at] EXCEPT ![p] = goal[p]]
<1>1. at \in Node /\ op = "write" /\ plan # None /\ goal = plan.goal /\ outcome = "none"
  BY DEF IInv, TypeOK, ControlOK, Quiet, Planned, Position
<1>2. \A n \in Node : Exists(n) /\ table[n] \in Contents
  BY <1>1, ExistingContents DEF IInv, Quiet, Undisturbed, Present
<1>3. \A n \in Node : table'[n] = IF n \in Reached(at) THEN [table[n] EXCEPT ![p] = goal[p]]
                                  ELSE table[n]
  BY <1>2 DEF Hold
<1>4. goal \in Contents /\ goal[p] \in Rows \cup {NoRows}
  BY PartitionRows DEF IInv, TypeOK, RowsOK
<1>5. ASSUME NEW n \in Node PROVE table'[n] \in Contents
  <2>1. [table[n] EXCEPT ![p] = goal[p]] \in Contents
    BY <1>2, <1>4, WithPartition
  <2> QED  BY <1>2, <1>3, <2>1
<1>6. Present'
  BY <1>5, NotContents DEF Present, Exists
<1>7. Together'
  <2> SUFFICES ASSUME replicated, NEW n \in Node PROVE table'[n] = kept'
    BY DEF Together
  <2>1. table[n] = kept
    BY DEF Quiet, Undisturbed, Together
  <2> QED  BY <1>3, <2>1 DEF Reached, Hold
<1>8. Covered'
  <2> SUFFICES ASSUME NEW n \in Node, Recorded(n), NEW q \in Partitions,
                      table'[n][q] # NoRows, plan.goal[q] = NoRows
               PROVE  q \in plan.reviewed[n].drops
    BY DEF Covered, Recorded
  <2>1. table[n][q] # NoRows
    BY <1>1, <1>2, <1>3 DEF Contents
  <2> QED  BY <2>1 DEF Quiet, Undisturbed, Covered
<1>9. Held'
  <2> SUFFICES ASSUME NEW n \in Node, n < at PROVE table'[n] = goal
    BY DEF Held
  <2>1. n \notin Reached(at)
    BY NodeNat, <1>1 DEF Reached, Quiet, Position, Writing, Node
  <2>2. table[n] = goal
    BY DEF Quiet, Undisturbed, Held, Writing
  <2> QED  BY <1>3, <2>1, <2>2
<1>10. SeenStill'
  BY <1>1 DEF SeenStill
<1>11. at \in Reached(at)
  BY <1>1 DEF Reached
<1> QED  BY <1>1, <1>3, <1>5, <1>6, <1>7, <1>8, <1>9, <1>10, <1>11

LEMMA SwapQuiet == ASSUME IInv, Quiet, Swap PROVE Quiet'
<1> USE DEF Swap
<1>1. PICK p \in swaps :
         \/ /\ Hold(Reached(at), p, staging[at][p])
            /\ swaps' = swaps \ {p}
            /\ UNCHANGED <<staging, op, pc, at, written, drops, tf, plan, outcome>>
         \/ /\ ~(Exists(at) /\ Allowed(at, "swaps", p))
            /\ Abort
  OBVIOUS
<1>2. /\ pc = "swap" /\ op = "write" /\ plan # None /\ outcome = "none" /\ at \in Node
      /\ p \in Partitions /\ goal[p] # NoRows /\ staging[at][p] = goal[p] /\ goal = plan.goal
      /\ UNCHANGED <<replicated, enforced, goal, sums, disturbed, faulty>>
  BY SwapRows DEF IInv, TypeOK, ControlOK, Quiet, Position, Planned, shape
<1>3. CASE ~(Exists(at) /\ Allowed(at, "swaps", p)) /\ Abort
  <2>1. enforced => Recorded(at)
    BY <1>2 DEF Recorded, Quiet, Position, Writing
  <2>2. Allowed(at, "swaps", p)
    BY <1>2, <2>1 DEF Allowed, Quiet, Planned, PartitionsOf
  <2>3. disturbed'
    BY <1>2, <1>3, <2>2 DEF Quiet, Undisturbed, Present
  <2> QED  BY <1>3, <2>3, AbortQuiet
<1>4. CASE /\ Hold(Reached(at), p, staging[at][p])
           /\ swaps' = swaps \ {p}
           /\ UNCHANGED <<staging, op, pc, at, written, drops, tf, plan, outcome>>
  <2>1. Position' /\ QuietWriteSucceeds'
    BY <1>2, <1>4 DEF Quiet, Position, Writing, QuietWriteSucceeds
  <2>2. Planned'
    BY <1>2, <1>4 DEF Quiet, Planned, Recorded, PartitionsOf
  <2>3. ASSUME ~disturbed PROVE Undisturbed'
    <3>1. /\ Together' /\ Present' /\ Covered' /\ Held' /\ SeenStill'
          /\ table'[at] = [table[at] EXCEPT ![p] = goal[p]]
      BY <1>2, <1>4, <2>3, HoldQuiet
    <3>2. table[at] \in Contents
      BY <1>2, <2>3, WithoutReplicas
    <3>3. ASSUME NEW q \in Partitions
          PROVE  /\ q \in drops' <=> (goal'[q] = NoRows /\ table'[at][q] # NoRows)
                 /\ q \notin swaps' /\ goal'[q] # NoRows => table'[at][q] = goal'[q]
      <4>1. /\ q \in drops <=> (goal[q] = NoRows /\ table[at][q] # NoRows)
            /\ q \notin swaps /\ goal[q] # NoRows => table[at][q] = goal[q]
        BY <1>2, <2>3 DEF Quiet, Undisturbed, Remaining
      <4>2. table'[at][q] = IF q = p THEN goal[p] ELSE table[at][q]
        BY <1>2, <3>1, <3>2 DEF Contents
      <4> QED  BY <1>2, <1>4, <4>1, <4>2
    <3>4. Remaining'
      BY <1>4, <3>3 DEF Remaining
    <3> QED  BY <3>1, <3>4 DEF Undisturbed
  <2> QED  BY <1>2, <2>1, <2>2, <2>3 DEF Quiet
<1> QED  BY <1>1, <1>3, <1>4

LEMMA DropQuiet == ASSUME IInv, Quiet, Drop PROVE Quiet'
<1> USE DEF Drop
<1>1. PICK p \in drops :
         \/ /\ Hold(Reached(at), p, NoRows)
            /\ drops' = drops \ {p}
            /\ UNCHANGED <<staging, op, pc, at, written, swaps, tf, plan, outcome>>
         \/ /\ ~(Exists(at) /\ Allowed(at, "drops", p))
            /\ Abort
  OBVIOUS
<1>2. /\ pc = "swap" /\ op = "write" /\ plan # None /\ outcome = "none" /\ at \in Node
      /\ p \in Partitions /\ goal[p] = NoRows /\ goal = plan.goal
      /\ UNCHANGED <<replicated, enforced, goal, sums, disturbed, faulty>>
  BY SwapRows DEF IInv, TypeOK, ControlOK, Quiet, Position, Planned, shape, MayDrop
<1>3. CASE ~(Exists(at) /\ Allowed(at, "drops", p)) /\ Abort
  <2> SUFFICES ASSUME ~disturbed PROVE FALSE
    BY <1>2, <1>3, AbortQuiet
  <2>1. enforced => Recorded(at)
    BY <1>2 DEF Recorded, Quiet, Position, Writing
  <2>2. table[at][p] # NoRows
    BY <1>2 DEF Quiet, Undisturbed, Remaining
  <2>3. enforced => plan.reviewed[at] # None /\ p \in plan.reviewed[at].drops
    BY <1>2, <2>1, <2>2 DEF Quiet, Planned, Undisturbed, Covered
  <2>4. Exists(at)
    BY <1>2 DEF Quiet, Undisturbed, Present
  <2> QED  BY <1>3, <2>3, <2>4 DEF Allowed
<1>4. CASE /\ Hold(Reached(at), p, NoRows)
           /\ drops' = drops \ {p}
           /\ UNCHANGED <<staging, op, pc, at, written, swaps, tf, plan, outcome>>
  <2>1. Position' /\ QuietWriteSucceeds'
    BY <1>2, <1>4 DEF Quiet, Position, Writing, QuietWriteSucceeds
  <2>2. Planned'
    BY <1>2, <1>4 DEF Quiet, Planned, Recorded, PartitionsOf
  <2>3. ASSUME ~disturbed PROVE Undisturbed'
    <3>1. /\ Together' /\ Present' /\ Covered' /\ Held' /\ SeenStill'
          /\ table'[at] = [table[at] EXCEPT ![p] = goal[p]]
      BY <1>2, <1>4, <2>3, HoldQuiet
    <3>2. table[at] \in Contents
      BY <1>2, <2>3, WithoutReplicas
    <3>3. ASSUME NEW q \in Partitions
          PROVE  /\ q \in drops' <=> (goal'[q] = NoRows /\ table'[at][q] # NoRows)
                 /\ q \notin swaps' /\ goal'[q] # NoRows => table'[at][q] = goal'[q]
      <4>1. /\ q \in drops <=> (goal[q] = NoRows /\ table[at][q] # NoRows)
            /\ q \notin swaps /\ goal[q] # NoRows => table[at][q] = goal[q]
        BY <1>2, <2>3 DEF Quiet, Undisturbed, Remaining
      <4>2. table'[at][q] = IF q = p THEN goal[p] ELSE table[at][q]
        BY <1>2, <3>1, <3>2 DEF Contents
      <4> QED  BY <1>2, <1>4, <4>1, <4>2
    <3>4. Remaining'
      BY <1>4, <3>3 DEF Remaining
    <3> QED  BY <3>1, <3>4 DEF Undisturbed
  <2> QED  BY <1>2, <2>1, <2>2, <2>3 DEF Quiet
<1> QED  BY <1>1, <1>3, <1>4

(* With nothing left to swap or to drop, the node holds the data.             *)
LEMMA NodeWrittenQuiet == ASSUME IInv, Quiet, NodeWritten PROVE Quiet'
<1> USE DEF NodeWritten
<1>1. /\ pc = "swap" /\ op = "write" /\ plan # None /\ outcome = "none" /\ at \in Node
      /\ UNCHANGED <<shape, table, kept, goal, sums, disturbed, faulty, plan, op, outcome>>
      /\ pc' = "node" /\ at' = at + 1 /\ written'
  BY DEF IInv, TypeOK, ControlOK, Quiet, Position
<1>2. Planned' /\ (~disturbed => Together' /\ Present' /\ Covered')
  BY <1>1, KeepsPlan
<1>3. Position' /\ QuietWriteSucceeds'
  BY <1>1 DEF Quiet, Position, Writing, QuietWriteSucceeds, Node
<1>4. Remaining' /\ SeenStill'
  BY <1>1 DEF Remaining, SeenStill
<1>5. ASSUME ~disturbed PROVE Held'
  <2>1. table[at] \in Contents /\ goal \in Contents
    BY <1>1, <1>5, WithoutReplicas DEF IInv, TypeOK, RowsOK
  <2>2. \A p \in Partitions : table[at][p] = goal[p]
    BY <1>1, <1>5 DEF Quiet, Undisturbed, Remaining
  <2>3. table[at] = goal
    BY <2>1, <2>2, SameContents
  <2>4. \A n \in Node : n < at + 1 => n < at \/ n = at
    BY <1>1 DEF Node
  <2>5. \A n \in Node : n < at => table[n] = goal
    BY <1>1, <1>5 DEF Quiet, Undisturbed, Held, Writing
  <2> QED  BY <1>1, <2>3, <2>4, <2>5 DEF Held
<1> QED  BY <1>1, <1>2, <1>3, <1>4, <1>5 DEF Quiet, Undisturbed

LEMMA LookQuiet == ASSUME IInv, Quiet, Look PROVE Quiet'
<1> USE DEF Look
<1>1. /\ pc = "look" /\ pc' = "look" /\ at \in Node /\ outcome = "none"
      /\ UNCHANGED <<shape, table, kept, goal, disturbed, faulty, plan, op, outcome>>
  BY ContentsAssumption DEF IInv, TypeOK, ControlOK, Quiet, Position, Node
<1>2. Planned' /\ (~disturbed => Together' /\ Present' /\ Covered')
  BY <1>1, KeepsPlan
<1>3. Position' /\ QuietWriteSucceeds'
  BY <1>1 DEF Quiet, Position, Writing, QuietWriteSucceeds
<1>4. Remaining'
  BY <1>1 DEF Remaining
<1>5. ASSUME ~disturbed PROVE Held' /\ SeenStill'
  <2>1. Held'
    BY <1>1, <1>5 DEF Quiet, Undisturbed, Held, Writing
  <2>2. ASSUME NEW n \in Node, n < at + 1 PROVE sums'[n] = table[n]
    <3>1. n < at \/ n = at
      BY <1>1, <2>2 DEF Node
    <3>2. n < at => sums[n] = table[n]
      BY <1>1, <1>5 DEF Quiet, Undisturbed, SeenStill
    <3> QED  BY <1>1, <3>1, <3>2 DEF IInv, TypeOK, RowsOK
  <2>3. SeenStill'
    BY <1>1, <2>2 DEF SeenStill
  <2> QED  BY <2>1, <2>3
<1> QED  BY <1>1, <1>2, <1>3, <1>4, <1>5 DEF Quiet, Undisturbed

LEMMA LookedQuiet == ASSUME IInv, Quiet, Looked PROVE Quiet'
<1> USE DEF Looked
<1>1. /\ pc = "look" /\ at = N + 1 /\ 1 \in Node
      /\ UNCHANGED <<shape, table, kept, goal, sums, disturbed, faulty>>
  BY NodeNat, ContentsAssumption DEF IInv, TypeOK, ControlOK
<1>2. ASSUME ~disturbed PROVE \A n \in Node : sums[n] = table[n]
  BY <1>1, <1>2, ContentsAssumption DEF Quiet, Undisturbed, SeenStill, Node
<1>3. CASE op = "write" /\ Agreed # goal /\ Abort
  <2> SUFFICES ASSUME ~disturbed PROVE FALSE
    BY <1>1, <1>3, AbortQuiet
  <2>1. \A n \in Node : sums[n] = goal
    BY <1>1, <1>2, <1>3 DEF Quiet, Undisturbed, Held
  <2>2. goal # NoTable
    BY NotContents DEF IInv, TypeOK, RowsOK
  <2> QED  BY <1>1, <1>3, <2>1, <2>2 DEF Agreed
<1>4. CASE op = "write" /\ Agreed = goal /\ End("applied", Agreed) /\ plan' = None
  <2>1. Position' /\ Planned' /\ QuietWriteSucceeds'
    BY <1>4 DEF End, Position, Writing, Planned, Recorded, QuietWriteSucceeds
  <2>2. Together' /\ Present' /\ Covered' /\ Remaining' /\ Held' /\ SeenStill'
    BY <1>4 DEF End, Together, Present, Covered, Recorded, Remaining, Held, SeenStill, Writing
  <2> QED  BY <2>1, <2>2 DEF Quiet, Undisturbed
<1>5. CASE /\ op = "refresh" /\ End(IF Agreed = None THEN "removed" ELSE "refreshed", Agreed)
           /\ UNCHANGED plan
  <2>1. Planned' /\ (~disturbed => Together' /\ Present' /\ Covered')
    <3>1. Planned'
      BY <1>1, <1>5 DEF Quiet, Planned, Recorded, End, shape, PartitionsOf
    <3>2. ASSUME ~disturbed PROVE Together' /\ Present' /\ Covered'
      BY <1>1, <1>5, <3>2
         DEF Quiet, Undisturbed, Together, Present, Covered, Recorded, Exists, shape
    <3> QED  BY <3>1, <3>2
  <2>2. Position' /\ QuietWriteSucceeds'
    BY <1>5 DEF End, Position, Writing, QuietWriteSucceeds
  <2>3. Remaining' /\ Held'
    BY <1>5 DEF End, Remaining, Held, Writing
  <2>4. ASSUME ~disturbed PROVE SeenStill'
    <3> SUFFICES ASSUME Agreed # None, Agreed # Differ, NEW n \in Node
                 PROVE  table[n] = Agreed
      BY <1>1, <1>5 DEF End, SeenStill
    <3>1. sums[n] = Agreed
      BY <1>1 DEF Agreed
    <3> QED  BY <1>2, <2>4, <3>1
  <2> QED  BY <1>1, <2>1, <2>2, <2>3, <2>4 DEF Quiet, Undisturbed
<1> QED  BY <1>3, <1>4, <1>5

LEMMA CallFailsQuiet == ASSUME IInv, Quiet, CallFails PROVE Quiet'
BY AbortQuiet DEF CallFails

(* There is nothing to catch up with while nobody disturbs.                   *)
LEMMA CatchUpQuiet == ASSUME IInv, Quiet, CatchUp PROVE Quiet'
<1>1. /\ UNCHANGED <<shape, kept, control, goal, sums, tf, plan, outcome, disturbed, faulty>>
      /\ replicated /\ \E n \in Node, p \in Partitions : table[n][p] # kept[p]
  BY DEF CatchUp
<1>2. Position' /\ QuietWriteSucceeds'
  BY <1>1 DEF Quiet, Position, QuietWriteSucceeds, control, shape
<1>3. Planned'
  BY <1>1 DEF Quiet, Planned, Recorded, PartitionsOf, control, shape
<1>4. ASSUME ~disturbed PROVE Undisturbed'
  <2>1. pc = "idle" /\ plan = None /\ outcome # "refreshed" /\ op = "none"
    BY <1>1, <1>4 DEF Quiet, Undisturbed, Together, IInv, TypeOK, ControlOK
  <2> QED  BY <1>1, <2>1 DEF Undisturbed, Together, Present, Covered, Recorded, Remaining,
                              Held, SeenStill, Writing, control
<1> QED  BY <1>1, <1>2, <1>3, <1>4 DEF Quiet

LEMMA OtherClientQuiet == ASSUME IInv, Quiet, OtherClient PROVE Quiet'
<1>1. /\ UNCHANGED <<shape, control, goal, plan, outcome>>
      /\ disturbed'
  BY DEF OtherClient
<1>2. Position' /\ QuietWriteSucceeds'
  BY <1>1 DEF Quiet, Position, QuietWriteSucceeds, control, shape
<1>3. Planned'
  BY <1>1 DEF Quiet, Planned, Recorded, PartitionsOf, control, shape
<1> QED  BY <1>1, <1>2, <1>3 DEF Quiet

LEMMA StutterQuiet == ASSUME Quiet, UNCHANGED vars PROVE Quiet'
<1> USE DEF vars, control, shape
<1>1. Position' /\ Planned' /\ QuietWriteSucceeds'
  BY DEF Quiet, Position, Planned, Recorded, PartitionsOf, QuietWriteSucceeds
<1>2. ASSUME ~disturbed PROVE Undisturbed'
  <2>1. Together' /\ Present' /\ Covered' /\ Held'
    BY <1>2 DEF Quiet, Undisturbed, Together, Present, Covered, Recorded, Held, Exists
  <2>2. Remaining' /\ SeenStill'
    BY <1>2 DEF Quiet, Undisturbed, Remaining, SeenStill
  <2> QED  BY <2>1, <2>2 DEF Undisturbed
<1> QED  BY <1>1, <1>2 DEF Quiet

LEMMA StepQuiet == ASSUME IInv, Quiet, [Next]_vars PROVE Quiet'
BY StutterQuiet, RefreshQuiet, PlanQuiet, ApplyQuiet, OperatorQuiet, NextNodeQuiet, StageQuiet,
   ListQuiet, SwapQuiet, DropQuiet, NodeWrittenQuiet, LookQuiet, LookedQuiet, CallFailsQuiet,
   CatchUpQuiet, OtherClientQuiet DEF Next, Provider

THEOREM QuietInvariance == Spec => []Quiet
BY InitQuiet, StepQuiet, Invariance, PTL DEF Spec

(* Whatever earlier applies left behind, an apply that nobody disturbs and    *)
(* whose calls succeed never ends in an error: the reviewed statements cover  *)
(* those it sends, and every node holds the data when it looks.               *)
THEOREM QuietWrites == Spec => []QuietWriteSucceeds
<1>1. Quiet => QuietWriteSucceeds
  BY DEF Quiet
<1> QED  BY <1>1, QuietInvariance, PTL

(* A refresh during which nobody acts reports what every node holds.          *)
THEOREM DriftIsSeen == Spec => []DriftSeen
<1>1. Quiet => DriftSeen
  BY DEF Quiet, Undisturbed, SeenStill, DriftSeen
<1> QED  BY <1>1, QuietInvariance, PTL

-----------------------------------------------------------------------------
(* Rows that stay.                                                            *)

LEMMA SwapKeepsRows ==
    ASSUME IInv, Quiet, Swap, ~disturbed, NEW n \in Node, PartitionsOf(table[n]) # {}
    PROVE  PartitionsOf(table'[n]) # {}
<1>1. PICK p \in swaps :
         \/ Hold(Reached(at), p, staging[at][p])
         \/ UNCHANGED table
  BY DEF Swap
<1>2. /\ plan # None /\ p \in Partitions /\ goal[p] # NoRows
      /\ staging[at][p] = goal[p]
  BY SwapRows DEF Swap, IInv, TypeOK, ControlOK, Quiet, Position
<1>3. table[n] \in Contents
  BY <1>2, WithoutReplicas
<1>4. CASE Hold(Reached(at), p, staging[at][p])
  <2>1. CASE n \in Reached(at) /\ Exists(n)
    <3>1. table'[n] = [table[n] EXCEPT ![p] = goal[p]]
      BY <1>2, <1>4, <2>1 DEF Hold
    <3>2. table'[n][p] # NoRows
      BY <1>2, <1>3, <3>1 DEF Contents
    <3> QED  BY <1>2, <3>2 DEF PartitionsOf
  <2>2. CASE ~(n \in Reached(at) /\ Exists(n))
    <3>1. table'[n] = table[n]
      BY <1>4, <2>2 DEF Hold
    <3> QED  BY <3>1 DEF PartitionsOf
  <2> QED  BY <2>1, <2>2
<1> QED  BY <1>1, <1>4

(* When a partition is dropped, those of the data are in.                     *)
LEMMA DropKeepsRows ==
    ASSUME IInv, Quiet, Drop, ~disturbed, NEW n \in Node, PartitionsOf(table[n]) # {},
           PartitionsOf(goal) # {}
    PROVE  PartitionsOf(table'[n]) # {}
<1>1. PICK p \in drops :
         \/ Hold(Reached(at), p, NoRows)
         \/ UNCHANGED table
  BY DEF Drop
<1>2. /\ pc = "swap" /\ swaps = {} /\ plan # None /\ at \in Node
      /\ p \in Partitions /\ goal[p] = NoRows
  BY SwapRows DEF Drop, MayDrop, IInv, TypeOK, ControlOK
<1>3. PICK q \in Partitions : goal[q] # NoRows
  BY DEF PartitionsOf
<1>4. table[at][q] = goal[q] /\ q # p
  BY <1>2, <1>3 DEF Quiet, Undisturbed, Remaining
<1>5. table[n] \in Contents
  BY <1>2, WithoutReplicas
<1>6. CASE Hold(Reached(at), p, NoRows)
  <2>1. CASE n \in Reached(at) /\ Exists(n)
    <3>1. table[n] = table[at]
      BY <1>2, <2>1 DEF Reached, Quiet, Undisturbed, Together
    <3>2. table'[n] = [table[n] EXCEPT ![p] = NoRows]
      BY <1>6, <2>1 DEF Hold
    <3>3. table'[n][q] # NoRows
      BY <1>3, <1>4, <1>5, <3>1, <3>2 DEF Contents
    <3> QED  BY <3>3 DEF PartitionsOf
  <2>2. CASE ~(n \in Reached(at) /\ Exists(n))
    <3>1. table'[n] = table[n]
      BY <1>6, <2>2 DEF Hold
    <3> QED  BY <3>1 DEF PartitionsOf
  <2> QED  BY <2>1, <2>2
<1> QED  BY <1>1, <1>6

(* The provider's statements never empty a table that has rows, unless no     *)
(* rows are declared: the old partitions go only once the new ones are in.    *)
THEOREM RowsStay == Spec => NeverEmptied
<1>1. ASSUME IInv, Quiet, Provider, ~disturbed, NEW n \in Node, Exists(n),
             PartitionsOf(table[n]) # {}, PartitionsOf(goal) # {}
      PROVE  PartitionsOf(table'[n]) # {}
  <2>1. CASE Swap
    BY <1>1, <2>1, SwapKeepsRows
  <2>2. CASE Drop
    BY <1>1, <2>2, DropKeepsRows
  <2>3. CASE ~Swap /\ ~Drop
    <3>1. UNCHANGED table
      BY <1>1, <2>3 DEF Provider, NextNode, Stage, ListPartitions, NodeWritten, Look, Looked
    <3> QED  BY <1>1, <3>1 DEF PartitionsOf
  <2> QED  BY <2>1, <2>2, <2>3
<1>2. ASSUME IInv, Quiet, [Next]_vars
      PROVE  [(Provider /\ ~disturbed) =>
                  \A n \in Node :
                     /\ Exists(n) /\ PartitionsOf(table[n]) # {}
                     /\ PartitionsOf(goal) # {}
                     => PartitionsOf(table'[n]) # {}]_vars
  BY <1>1, <1>2
<1> QED  BY <1>2, Invariance, QuietInvariance, PTL DEF Spec, NeverEmptied

=============================================================================
