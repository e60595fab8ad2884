------------------------ MODULE ColumnPlannerProofs -------------------------
(***************************************************************************)
(* The proofs about ColumnPlanner: a plan's groups lead from the table to  *)
(* the preview, the preview is what the configuration asks for, the server *)
(* accepts every statement, ignore_column_order moves nothing, and what    *)
(* the configuration does not manage is left alone.                        *)
(***************************************************************************)
EXTENDS ColumnListProofs

-----------------------------------------------------------------------------
(* What planColumnUpdate and previewUpdatedTable fold over.                   *)
Move  == [column : Column, after : Position]
Plans == [order : Seq(Column), adds : Seq(Action), modifies : Seq(Action)]
Walks == [physical : Seq(Column), order : Seq(Column), moves : Seq(Move)]

LEMMA WantFacts ==
    ASSUME conf \in Configurations
    PROVE  /\ Want \in Lists /\ Want \in Seq(Column) /\ Distinct(Want) /\ Want # <<>>
           /\ conf.ignore \in BOOLEAN
           /\ Len(Want) \in Nat /\ Len(Want) > 0 /\ DOMAIN Want = 1 .. Len(Want)
           /\ \A i \in 1 .. Len(Want) : Want[i] \in Column
           /\ NameSet(Want) = {Want[i].name : i \in 1 .. Len(Want)} /\ NameSet(Want) \subseteq Names
<1>1. Want \in Seq(Column) /\ Distinct(Want) /\ Want # <<>> /\ conf.ignore \in BOOLEAN
  BY ColumnAssumption DEF Want
<1>2. NameSet(Want) = {Want[i].name : i \in 1 .. Len(Want)} /\ NameSet(Want) \subseteq Names
  BY <1>1, NamesSeq
<1>3. /\ Len(Want) \in Nat /\ Len(Want) > 0 /\ DOMAIN Want = 1 .. Len(Want)
      /\ \A i \in 1 .. Len(Want) : Want[i] \in Column
  BY <1>1
<1> QED  BY <1>1, <1>2, <1>3 DEF Lists

LEMMA PreviousFacts ==
    ASSUME conf \in Configurations, NEW i \in 1 .. Len(Want)
    PROVE  /\ Previous(Want, i) \in Position /\ Previous(Want, i) # Keep
           /\ i = 1 => Previous(Want, i) = AtFront
           /\ i # 1 => /\ i - 1 \in 1 .. Len(Want) /\ Previous(Want, i) = Want[i - 1].name
                       /\ Previous(Want, i) \in Names /\ Previous(Want, i) # AtFront
                       /\ Previous(Want, i) # Want[i].name
<1>1. /\ Want \in Seq(Column) /\ Distinct(Want)
      /\ Len(Want) \in Nat /\ \A k \in 1 .. Len(Want) : Want[k] \in Column
  BY WantFacts
<1>2. AtFront \in Position /\ \A n \in Names : n \in Position /\ n # Keep /\ n # AtFront
  BY ColumnAssumption DEF Position
<1>3. AtFront # Keep
  BY DEF AtFront, Keep
<1>4. CASE i = 1
  BY <1>2, <1>3, <1>4 DEF Previous
<1>5. CASE i # 1
  <2>1. i - 1 \in 1 .. Len(Want) /\ Previous(Want, i) = Want[i - 1].name
    BY <1>1, <1>5 DEF Previous
  <2>2. Want[i - 1].name \in Names
    BY <1>1, <2>1, ColumnFields
  <2>3. i - 1 # i
    BY <1>1
  <2>4. Want[i - 1].name # Want[i].name
    BY <1>1, <2>1, <2>3, DistinctIs
  <2> QED  BY <1>2, <1>5, <2>1, <2>2, <2>4
<1> QED  BY <1>4, <1>5

LEMMA RenameType ==
    ASSUME conf \in Configurations, NEW l \in Seq(Column), NEW i \in RenamedAt(l)
    PROVE  Rename(l, i) \in Action
<1>1. i \in 1 .. Len(l) /\ i \in 1 .. Len(Want)
  BY WantFacts DEF RenamedAt
<1>2. l[i] \in Column /\ Want[i] \in Column
  BY <1>1, WantFacts
<1>3. l[i].name \in Names /\ Want[i].name \in Names
  BY <1>2, ColumnFields
<1> QED  BY <1>3 DEF Rename, Action

LEMMA ModificationTypes ==
    ASSUME NEW old \in Column, NEW new \in Column, NEW moved, NEW p \in Position
    PROVE  /\ RemoveExpression(old, new) \in Seq(Action)
           /\ ModifyColumn(old, new, moved, p) \in Seq(Action)
<1>1. new.name \in Names
  BY ColumnFields
<1>2. RemoveExpression(old, new) \in Seq(Action)
  <2>1. CASE old.kind = "DEFAULT" /\ new.kind # "DEFAULT"
    <3>1. [do |-> "remove", name |-> new.name, kind |-> old.kind] \in Action
      BY <1>1, <2>1 DEF Action
    <3> QED  BY <2>1, <3>1 DEF RemoveExpression
  <2>2. CASE ~(old.kind = "DEFAULT" /\ new.kind # "DEFAULT")
    BY <2>2 DEF RemoveExpression
  <2> QED  BY <2>1, <2>2
<1>3. ModifyColumn(old, new, moved, p) \in Seq(Action)
  <2> DEFINE a == [do |-> "modify", column |-> new, after |-> IF moved THEN p ELSE Keep]
  <2>1. (IF moved THEN p ELSE Keep) \in Position
    BY DEF Position
  <2>2. a \in Action
    BY <2>1 DEF Action
  <2>3. ModifyColumn(old, new, moved, p) = <<a>> \/ ModifyColumn(old, new, moved, p) = <<>>
    BY DEF ModifyColumn
  <2> HIDE DEF a
  <2>4. <<a>> \in Seq(Action) /\ <<>> \in Seq(Action)
    BY <2>2
  <2> QED  BY <2>3, <2>4
<1> QED  BY <1>2, <1>3

(* One turn of planColumnUpdate.                                              *)
Add(i)     == [do |-> "add", column |-> Want[i], after |-> Previous(Want, i)]
Shift(l, i) == ~InPosition(l, Want[i].name, Previous(Want, i))
Old(l, i)   == Lookup(l, Want[i].name)

LEMMA PlanColumnIs ==
    ASSUME conf \in Configurations, NEW plan \in Plans, NEW i \in 1 .. Len(Want)
    PROVE  /\ PlanColumn(plan, i) \in Plans
           /\ ~Has(plan.order, Want[i].name) =>
                 /\ PlanColumn(plan, i).order = InsertAfter(plan.order, Want[i], Previous(Want, i))
                 /\ PlanColumn(plan, i).adds = Append(plan.adds, Add(i))
                 /\ PlanColumn(plan, i).modifies = plan.modifies
           /\ Has(plan.order, Want[i].name) =>
                 /\ PlanColumn(plan, i).order =
                       IF Shift(plan.order, i) THEN MoveAfter(plan.order, Want[i], Previous(Want, i))
                       ELSE plan.order
                 /\ PlanColumn(plan, i).adds = plan.adds
                 /\ PlanColumn(plan, i).modifies =
                       plan.modifies \o RemoveExpression(Old(plan.order, i), Want[i])
                         \o ModifyColumn(Old(plan.order, i), Want[i], Shift(plan.order, i), Previous(Want, i))
<1>1. Want[i] \in Column /\ Previous(Want, i) \in Position
  BY WantFacts, PreviousFacts
<1>2. plan.order \in Seq(Column) /\ plan.adds \in Seq(Action) /\ plan.modifies \in Seq(Action)
  BY DEF Plans
<1>3. CASE ~Has(plan.order, Want[i].name)
  <2> DEFINE order == InsertAfter(plan.order, Want[i], Previous(Want, i))
             adds == Append(plan.adds, Add(i))
  <2>1. PlanColumn(plan, i) = [plan EXCEPT !.order = order, !.adds = adds]
    BY <1>3 DEF PlanColumn, Add
  <2>2. order \in Seq(Column)
    BY <1>1, <1>2, InsertFacts
  <2>3. Add(i) \in Action
    BY <1>1 DEF Add, Action
  <2>4. adds \in Seq(Action)
    BY <1>2, <2>3
  <2> HIDE DEF order, adds
  <2>5. [plan EXCEPT !.order = order, !.adds = adds] \in Plans
    BY <2>2, <2>4 DEF Plans
  <2>6. /\ [plan EXCEPT !.order = order, !.adds = adds].order = order
        /\ [plan EXCEPT !.order = order, !.adds = adds].adds = adds
        /\ [plan EXCEPT !.order = order, !.adds = adds].modifies = plan.modifies
    BY DEF Plans
  <2> QED  BY <1>3, <2>1, <2>5, <2>6 DEF order, adds
<1>4. CASE Has(plan.order, Want[i].name)
  <2> DEFINE order == IF Shift(plan.order, i) THEN MoveAfter(plan.order, Want[i], Previous(Want, i))
                      ELSE plan.order
             remove == RemoveExpression(Old(plan.order, i), Want[i])
             modify == ModifyColumn(Old(plan.order, i), Want[i], Shift(plan.order, i), Previous(Want, i))
             modifies == plan.modifies \o remove \o modify
  <2>1. PlanColumn(plan, i) = [plan EXCEPT !.order = order, !.modifies = modifies]
    BY <1>4 DEF PlanColumn, Shift, Old
  <2>2. order \in Seq(Column)
    BY <1>1, <1>2, MoveFacts
  <2>3. Old(plan.order, i) \in Column
    BY <1>2, <1>4, LookupFacts DEF Old
  <2>4. remove \in Seq(Action) /\ modify \in Seq(Action)
    BY <1>1, <2>3, ModificationTypes
  <2> HIDE DEF remove, modify
  <2>5. modifies \in Seq(Action)
    BY <1>2, <2>4
  <2> HIDE DEF order, modifies
  <2>6. [plan EXCEPT !.order = order, !.modifies = modifies] \in Plans
    BY <2>2, <2>5 DEF Plans
  <2>7. /\ [plan EXCEPT !.order = order, !.modifies = modifies].order = order
        /\ [plan EXCEPT !.order = order, !.modifies = modifies].adds = plan.adds
        /\ [plan EXCEPT !.order = order, !.modifies = modifies].modifies = modifies
    BY DEF Plans
  <2> QED  BY <1>4, <2>1, <2>6, <2>7 DEF order, modifies, remove, modify
<1> QED  BY <1>3, <1>4

(* One turn of previewUpdatedTable.                                           *)
LEMMA PreviewColumnIs ==
    ASSUME conf \in Configurations, NEW walk \in Walks, NEW i \in 1 .. Len(Want)
    PROVE  /\ PreviewColumn(walk, i) \in Walks
           /\ ~Has(walk.order, Want[i].name) =>
                 /\ PreviewColumn(walk, i).physical = InsertAfter(walk.physical, Want[i], Previous(Want, i))
                 /\ PreviewColumn(walk, i).order = InsertAfter(walk.order, Want[i], Previous(Want, i))
                 /\ PreviewColumn(walk, i).moves = walk.moves
           /\ Has(walk.order, Want[i].name) =>
                 /\ PreviewColumn(walk, i).physical = walk.physical
                 /\ PreviewColumn(walk, i).order =
                       IF Shift(walk.order, i) THEN MoveAfter(walk.order, Want[i], Previous(Want, i))
                       ELSE walk.order
                 /\ PreviewColumn(walk, i).moves =
                       IF Shift(walk.order, i)
                       THEN Append(walk.moves, [column |-> Want[i], after |-> Previous(Want, i)])
                       ELSE walk.moves
<1>1. Want[i] \in Column /\ Previous(Want, i) \in Position
  BY WantFacts, PreviousFacts
<1>2. walk.physical \in Seq(Column) /\ walk.order \in Seq(Column) /\ walk.moves \in Seq(Move)
  BY DEF Walks
<1>3. CASE ~Has(walk.order, Want[i].name)
  <2> DEFINE physical == InsertAfter(walk.physical, Want[i], Previous(Want, i))
             order == InsertAfter(walk.order, Want[i], Previous(Want, i))
  <2>1. PreviewColumn(walk, i) = [walk EXCEPT !.physical = physical, !.order = order]
    BY <1>3 DEF PreviewColumn
  <2>2. order \in Seq(Column) /\ physical \in Seq(Column)
    BY <1>1, <1>2, InsertFacts
  <2> HIDE DEF order, physical
  <2>3. [walk EXCEPT !.physical = physical, !.order = order] \in Walks
    BY <2>2 DEF Walks
  <2>4. /\ [walk EXCEPT !.physical = physical, !.order = order].physical = physical
        /\ [walk EXCEPT !.physical = physical, !.order = order].order = order
        /\ [walk EXCEPT !.physical = physical, !.order = order].moves = walk.moves
    BY DEF Walks
  <2> QED  BY <1>3, <2>1, <2>3, <2>4 DEF order, physical
<1>4. CASE Has(walk.order, Want[i].name) /\ Shift(walk.order, i)
  <2> DEFINE order == MoveAfter(walk.order, Want[i], Previous(Want, i))
             moves == Append(walk.moves, [column |-> Want[i], after |-> Previous(Want, i)])
  <2>1. PreviewColumn(walk, i) = [walk EXCEPT !.moves = moves, !.order = order]
    BY <1>4 DEF PreviewColumn, Shift
  <2>2. order \in Seq(Column)
    BY <1>1, <1>2, MoveFacts
  <2>3. [column |-> Want[i], after |-> Previous(Want, i)] \in Move
    BY <1>1 DEF Move
  <2>4. moves \in Seq(Move)
    BY <1>2, <2>3
  <2> HIDE DEF order, moves
  <2>5. [walk EXCEPT !.moves = moves, !.order = order] \in Walks
    BY <2>2, <2>4 DEF Walks
  <2>6. /\ [walk EXCEPT !.moves = moves, !.order = order].physical = walk.physical
        /\ [walk EXCEPT !.moves = moves, !.order = order].order = order
        /\ [walk EXCEPT !.moves = moves, !.order = order].moves = moves
    BY DEF Walks
  <2> QED  BY <1>4, <2>1, <2>5, <2>6 DEF order, moves
<1>5. CASE Has(walk.order, Want[i].name) /\ ~Shift(walk.order, i)
  <2>1. PreviewColumn(walk, i) = walk
    BY <1>5 DEF PreviewColumn, Shift
  <2> QED  BY <1>5, <2>1
<1> QED  BY <1>3, <1>4, <1>5

LEMMA RenamesFold ==
    ASSUME conf \in Configurations,
           NEW list \in Seq(Column)
    PROVE  \E f : /\ f[0] = <<>>
                  /\ \A k \in 1 .. Len(list) : f[k - 1] \in Seq(Action) /\ f[k] = (IF k \in RenamedAt(list) THEN Append(f[k - 1], Rename(list, k)) ELSE f[k - 1])
                  /\ Renames(list) = f[Len(list)]
                  /\ Renames(list) \in Seq(Action)
<1> DEFINE T == Seq(Action)
           n == Len(list)
           step == [p \in T \X (1 .. n) |-> (IF p[2] \in RenamedAt(list) THEN Append(p[1], Rename(list, p[2])) ELSE p[1])]
<1>1. n \in Nat /\ DOMAIN list = 1 .. n
  OBVIOUS
<1>2. <<>> \in T /\ \A l \in T, k \in 1 .. n : (IF k \in RenamedAt(list) THEN Append(l, Rename(list, k)) ELSE l) \in T
  BY <1>1, RenameType
<1> HIDE DEF n, T
<1>3. step \in [T \X (1 .. n) -> T]
  BY <1>2
<1>4. \A m \in T, k \in 1 .. n : step[<<m, k>>] = (IF k \in RenamedAt(list) THEN Append(m, Rename(list, k)) ELSE m)
  OBVIOUS
<1> HIDE DEF step
<1>5. PICK h \in [SUBSET (1 .. n) -> T] : Folds(h, <<>>, step, n)
  BY <1>1, <1>2, <1>3, FoldExists, Zenon
<1>6. h = [s \in SUBSET (1 .. n) |->
              IF s = {} THEN <<>> ELSE (IF Max(s) \in RenamedAt(list) THEN Append(h[s \ {Max(s)}], Rename(list, Max(s))) ELSE h[s \ {Max(s)}])]
  <2>1. ASSUME NEW s \in SUBSET (1 .. n), s # {}
        PROVE  h[s] = (IF Max(s) \in RenamedAt(list) THEN Append(h[s \ {Max(s)}], Rename(list, Max(s))) ELSE h[s \ {Max(s)}])
    <3>1. Max(s) \in 1 .. n /\ s \ {Max(s)} \in SUBSET (1 .. n)
      BY <1>1, <2>1, MaxIs
    <3>2. h[s \ {Max(s)}] \in T
      BY <3>1
    <3>3. h[s] = step[<<h[s \ {Max(s)}], Max(s)>>]
      BY <1>5, <2>1 DEF Folds
    <3> QED  BY <1>4, <3>1, <3>2, <3>3
  <2> QED  BY <1>5, <2>1 DEF Folds
<1>7. PICK iter : /\ iter = [s \in SUBSET (1 .. n) |->
                        IF s = {} THEN <<>> ELSE (IF Max(s) \in RenamedAt(list) THEN Append(iter[s \ {Max(s)}], Rename(list, Max(s))) ELSE iter[s \ {Max(s)}])]
                  /\ Renames(list) = iter[1 .. n]
  <2> DEFINE idx == [i \in DOMAIN list |-> i]
  <2>1. Renames(list) = (CHOOSE iter : iter = [s \in SUBSET DOMAIN idx |->
                       IF s = {} THEN <<>> ELSE (IF idx[Max(s)] \in RenamedAt(list) THEN Append(iter[s \ {Max(s)}], Rename(list, idx[Max(s)])) ELSE iter[s \ {Max(s)}])])[DOMAIN idx]
    BY Zenon DEF Renames, FoldLeftDomain, FoldLeft, MapThenFoldSet
  <2>2. DOMAIN idx = 1 .. n /\ \A k \in 1 .. n : idx[k] = k
    BY <1>1
  <2> HIDE DEF idx
  <2>3. \A s \in SUBSET (1 .. n) : s # {} => idx[Max(s)] = Max(s)
    BY <1>1, <2>2, MaxIs
  <2>4. h = [s \in SUBSET DOMAIN idx |->
                IF s = {} THEN <<>> ELSE (IF idx[Max(s)] \in RenamedAt(list) THEN Append(h[s \ {Max(s)}], Rename(list, idx[Max(s)])) ELSE h[s \ {Max(s)}])]
    <3>1. ASSUME NEW s \in SUBSET (1 .. n)
          PROVE  h[s] = IF s = {} THEN <<>> ELSE (IF idx[Max(s)] \in RenamedAt(list) THEN Append(h[s \ {Max(s)}], Rename(list, idx[Max(s)])) ELSE h[s \ {Max(s)}])
      <4>1. h[s] = IF s = {} THEN <<>> ELSE (IF Max(s) \in RenamedAt(list) THEN Append(h[s \ {Max(s)}], Rename(list, Max(s))) ELSE h[s \ {Max(s)}])
        BY <1>6
      <4> QED  BY <2>3, <4>1
    <3>2. h = [s \in SUBSET (1 .. n) |-> h[s]]
      OBVIOUS
    <3> QED  BY <2>2, <3>1, <3>2
  <2>5. PICK iter : /\ iter = [s \in SUBSET DOMAIN idx |->
                          IF s = {} THEN <<>> ELSE (IF idx[Max(s)] \in RenamedAt(list) THEN Append(iter[s \ {Max(s)}], Rename(list, idx[Max(s)])) ELSE iter[s \ {Max(s)}])]
                    /\ Renames(list) = iter[DOMAIN idx]
    BY <2>1, <2>4, Zenon
  <2>6. iter = [s \in SUBSET (1 .. n) |->
                   IF s = {} THEN <<>> ELSE (IF Max(s) \in RenamedAt(list) THEN Append(iter[s \ {Max(s)}], Rename(list, Max(s))) ELSE iter[s \ {Max(s)}])]
    <3>1. ASSUME NEW s \in SUBSET (1 .. n)
          PROVE  iter[s] = IF s = {} THEN <<>> ELSE (IF idx[Max(s)] \in RenamedAt(list) THEN Append(iter[s \ {Max(s)}], Rename(list, idx[Max(s)])) ELSE iter[s \ {Max(s)}])
      BY <2>2, <2>5
    <3>2. ASSUME NEW s \in SUBSET (1 .. n)
          PROVE  iter[s] = IF s = {} THEN <<>> ELSE (IF Max(s) \in RenamedAt(list) THEN Append(iter[s \ {Max(s)}], Rename(list, Max(s))) ELSE iter[s \ {Max(s)}])
      BY <2>3, <3>1
    <3>3. iter = [s \in SUBSET (1 .. n) |-> iter[s]]
      BY <2>2, <2>5
    <3> QED  BY <3>2, <3>3
  <2> HIDE DEF idx
  <2> QED  BY <2>2, <2>5, <2>6, Zenon
<1> DEFINE f == [k \in 0 .. n |-> iter[1 .. k]]
<1>8. f[0] = <<>>
  BY <1>1, <1>7
<1>9. ASSUME NEW k \in 1 .. n PROVE f[k] = (IF k \in RenamedAt(list) THEN Append(f[k - 1], Rename(list, k)) ELSE f[k - 1])
  <2>1. k - 1 \in 0 .. n /\ k \in 0 .. n
    BY <1>1
  <2>2. f[k] = iter[1 .. k] /\ f[k - 1] = iter[1 .. (k - 1)]
    BY <2>1
  <2>3. /\ 1 .. k \in SUBSET (1 .. n) /\ 1 .. k # {}
        /\ Max(1 .. k) = k /\ (1 .. k) \ {k} = 1 .. (k - 1)
    BY <1>1, PrefixSet
  <2>4. iter[1 .. k] = (IF Max(1 .. k) \in RenamedAt(list) THEN Append(iter[(1 .. k) \ {Max(1 .. k)}], Rename(list, Max(1 .. k))) ELSE iter[(1 .. k) \ {Max(1 .. k)}])
    BY <1>7, <2>3
  <2> QED  BY <2>2, <2>3, <2>4
<1>10. Renames(list) = f[n]
  <2>1. n \in 0 .. n
    BY <1>1
  <2>2. f[n] = iter[1 .. n]
    BY <2>1
  <2> QED  BY <1>7, <2>2
<1> HIDE DEF f
<1>11. \A k \in 0 .. n : f[k] \in T
  <2> DEFINE Typed == {k \in 0 .. n : f[k] \in T}
  <2>1. 0 \in Typed
    BY <1>1, <1>2, <1>8
  <2>2. ASSUME NEW k \in 1 .. n, k - 1 \in Typed PROVE k \in Typed
    <3>1. f[k - 1] \in T /\ k \in 0 .. n
      BY <1>1, <2>2
    <3>2. f[k] \in T
      BY <1>2, <1>9, <3>1
    <3> QED  BY <3>1, <3>2
  <2>3. Typed \in SUBSET (0 .. n)
    OBVIOUS
  <2> HIDE DEF Typed
  <2>4. \A k \in 0 .. n : k \in Typed
    BY <1>1, <2>1, <2>2, <2>3, InductTo
  <2> QED  BY <2>4 DEF Typed
<1>12. f[n] \in T /\ \A k \in 1 .. n : f[k - 1] \in T
  <2>1. n \in 0 .. n /\ \A k \in 1 .. n : k - 1 \in 0 .. n
    BY <1>1
  <2> QED  BY <1>11, <2>1
<1> QED  BY <1>8, <1>9, <1>10, <1>12 DEF n, T

PlanStart(list) == [order |-> Aligned(list), adds |-> <<>>, modifies |-> <<>>]

LEMMA PlannedFold ==
    ASSUME conf \in Configurations,
           NEW list,
           Aligned(list) \in Seq(Column)
    PROVE  \E f : /\ f[0] = PlanStart(list)
                  /\ \A k \in 1 .. Len(Want) : f[k - 1] \in Plans /\ f[k] = PlanColumn(f[k - 1], k)
                  /\ Planned(list) = f[Len(Want)]
                  /\ Planned(list) \in Plans
<1> DEFINE T == Plans
           n == Len(Want)
           step == [p \in T \X (1 .. n) |-> PlanColumn(p[1], p[2])]
<1>1. n \in Nat /\ DOMAIN Want = 1 .. n
  BY WantFacts
<1>2. PlanStart(list) \in T /\ \A l \in T, k \in 1 .. n : PlanColumn(l, k) \in T
  <2>1. \A l \in T, k \in 1 .. n : PlanColumn(l, k) \in T
    BY PlanColumnIs
  <2>2. PlanStart(list) \in T
    BY DEF PlanStart, Plans
  <2> QED  BY <2>1, <2>2
<1> HIDE DEF n, T
<1>3. step \in [T \X (1 .. n) -> T]
  BY <1>2
<1>4. \A m \in T, k \in 1 .. n : step[<<m, k>>] = PlanColumn(m, k)
  OBVIOUS
<1> HIDE DEF step
<1>5. PICK h \in [SUBSET (1 .. n) -> T] : Folds(h, PlanStart(list), step, n)
  BY <1>1, <1>2, <1>3, FoldExists, Zenon
<1>6. h = [s \in SUBSET (1 .. n) |->
              IF s = {} THEN PlanStart(list) ELSE PlanColumn(h[s \ {Max(s)}], Max(s))]
  <2>1. ASSUME NEW s \in SUBSET (1 .. n), s # {}
        PROVE  h[s] = PlanColumn(h[s \ {Max(s)}], Max(s))
    <3>1. Max(s) \in 1 .. n /\ s \ {Max(s)} \in SUBSET (1 .. n)
      BY <1>1, <2>1, MaxIs
    <3>2. h[s \ {Max(s)}] \in T
      BY <3>1
    <3>3. h[s] = step[<<h[s \ {Max(s)}], Max(s)>>]
      BY <1>5, <2>1 DEF Folds
    <3> QED  BY <1>4, <3>1, <3>2, <3>3
  <2> QED  BY <1>5, <2>1 DEF Folds
<1>7. PICK iter : /\ iter = [s \in SUBSET (1 .. n) |->
                        IF s = {} THEN PlanStart(list) ELSE PlanColumn(iter[s \ {Max(s)}], Max(s))]
                  /\ Planned(list) = iter[1 .. n]
  <2> DEFINE idx == [i \in DOMAIN Want |-> i]
  <2>1. Planned(list) = (CHOOSE iter : iter = [s \in SUBSET DOMAIN idx |->
                       IF s = {} THEN PlanStart(list) ELSE PlanColumn(iter[s \ {Max(s)}], idx[Max(s)])])[DOMAIN idx]
    BY Zenon DEF Planned, PlanStart, FoldLeftDomain, FoldLeft, MapThenFoldSet
  <2>2. DOMAIN idx = 1 .. n /\ \A k \in 1 .. n : idx[k] = k
    BY <1>1
  <2> HIDE DEF idx
  <2>3. \A s \in SUBSET (1 .. n) : s # {} => idx[Max(s)] = Max(s)
    BY <1>1, <2>2, MaxIs
  <2>4. h = [s \in SUBSET DOMAIN idx |->
                IF s = {} THEN PlanStart(list) ELSE PlanColumn(h[s \ {Max(s)}], idx[Max(s)])]
    <3>1. ASSUME NEW s \in SUBSET (1 .. n)
          PROVE  h[s] = IF s = {} THEN PlanStart(list) ELSE PlanColumn(h[s \ {Max(s)}], idx[Max(s)])
      <4>1. h[s] = IF s = {} THEN PlanStart(list) ELSE PlanColumn(h[s \ {Max(s)}], Max(s))
        BY <1>6
      <4> QED  BY <2>3, <4>1
    <3>2. h = [s \in SUBSET (1 .. n) |-> h[s]]
      OBVIOUS
    <3> QED  BY <2>2, <3>1, <3>2
  <2>5. PICK iter : /\ iter = [s \in SUBSET DOMAIN idx |->
                          IF s = {} THEN PlanStart(list) ELSE PlanColumn(iter[s \ {Max(s)}], idx[Max(s)])]
                    /\ Planned(list) = iter[DOMAIN idx]
    BY <2>1, <2>4, Zenon
  <2>6. iter = [s \in SUBSET (1 .. n) |->
                   IF s = {} THEN PlanStart(list) ELSE PlanColumn(iter[s \ {Max(s)}], Max(s))]
    BY <2>2, <2>3, <2>5
  <2> HIDE DEF idx
  <2> QED  BY <2>2, <2>5, <2>6, Zenon
<1> DEFINE f == [k \in 0 .. n |-> iter[1 .. k]]
<1>8. f[0] = PlanStart(list)
  BY <1>1, <1>7
<1>9. ASSUME NEW k \in 1 .. n PROVE f[k] = PlanColumn(f[k - 1], k)
  <2>1. k - 1 \in 0 .. n /\ k \in 0 .. n
    BY <1>1
  <2>2. f[k] = iter[1 .. k] /\ f[k - 1] = iter[1 .. (k - 1)]
    BY <2>1
  <2>3. /\ 1 .. k \in SUBSET (1 .. n) /\ 1 .. k # {}
        /\ Max(1 .. k) = k /\ (1 .. k) \ {k} = 1 .. (k - 1)
    BY <1>1, PrefixSet
  <2>4. iter[1 .. k] = PlanColumn(iter[(1 .. k) \ {Max(1 .. k)}], Max(1 .. k))
    BY <1>7, <2>3
  <2> QED  BY <2>2, <2>3, <2>4
<1>10. Planned(list) = f[n]
  <2>1. n \in 0 .. n
    BY <1>1
  <2>2. f[n] = iter[1 .. n]
    BY <2>1
  <2> QED  BY <1>7, <2>2
<1> HIDE DEF f
<1>11. \A k \in 0 .. n : f[k] \in T
  <2> DEFINE Typed == {k \in 0 .. n : f[k] \in T}
  <2>1. 0 \in Typed
    BY <1>1, <1>2, <1>8
  <2>2. ASSUME NEW k \in 1 .. n, k - 1 \in Typed PROVE k \in Typed
    <3>1. f[k - 1] \in T /\ k \in 0 .. n
      BY <1>1, <2>2
    <3>2. f[k] \in T
      BY <1>2, <1>9, <3>1
    <3> QED  BY <3>1, <3>2
  <2>3. Typed \in SUBSET (0 .. n)
    OBVIOUS
  <2> HIDE DEF Typed
  <2>4. \A k \in 0 .. n : k \in Typed
    BY <1>1, <2>1, <2>2, <2>3, InductTo
  <2> QED  BY <2>4 DEF Typed
<1>12. f[n] \in T /\ \A k \in 1 .. n : f[k - 1] \in T
  <2>1. n \in 0 .. n /\ \A k \in 1 .. n : k - 1 \in 0 .. n
    BY <1>1
  <2> QED  BY <1>11, <2>1
<1> QED  BY <1>8, <1>9, <1>10, <1>12 DEF n, T

WalkStart(list) == [physical |-> RenamedPhysical(list), order |-> Aligned(list), moves |-> <<>>]

LEMMA WalkedFold ==
    ASSUME conf \in Configurations,
           NEW list,
           Aligned(list) \in Seq(Column),
           RenamedPhysical(list) \in Seq(Column)
    PROVE  \E f : /\ f[0] = WalkStart(list)
                  /\ \A k \in 1 .. Len(Want) : f[k - 1] \in Walks /\ f[k] = PreviewColumn(f[k - 1], k)
                  /\ Walked(list) = f[Len(Want)]
                  /\ Walked(list) \in Walks
<1> DEFINE T == Walks
           n == Len(Want)
           step == [p \in T \X (1 .. n) |-> PreviewColumn(p[1], p[2])]
<1>1. n \in Nat /\ DOMAIN Want = 1 .. n
  BY WantFacts
<1>2. WalkStart(list) \in T /\ \A l \in T, k \in 1 .. n : PreviewColumn(l, k) \in T
  <2>1. \A l \in T, k \in 1 .. n : PreviewColumn(l, k) \in T
    BY PreviewColumnIs
  <2>2. WalkStart(list) \in T
    BY DEF WalkStart, Walks
  <2> QED  BY <2>1, <2>2
<1> HIDE DEF n, T
<1>3. step \in [T \X (1 .. n) -> T]
  BY <1>2
<1>4. \A m \in T, k \in 1 .. n : step[<<m, k>>] = PreviewColumn(m, k)
  OBVIOUS
<1> HIDE DEF step
<1>5. PICK h \in [SUBSET (1 .. n) -> T] : Folds(h, WalkStart(list), step, n)
  BY <1>1, <1>2, <1>3, FoldExists, Zenon
<1>6. h = [s \in SUBSET (1 .. n) |->
              IF s = {} THEN WalkStart(list) ELSE PreviewColumn(h[s \ {Max(s)}], Max(s))]
  <2>1. ASSUME NEW s \in SUBSET (1 .. n), s # {}
        PROVE  h[s] = PreviewColumn(h[s \ {Max(s)}], Max(s))
    <3>1. Max(s) \in 1 .. n /\ s \ {Max(s)} \in SUBSET (1 .. n)
      BY <1>1, <2>1, MaxIs
    <3>2. h[s \ {Max(s)}] \in T
      BY <3>1
    <3>3. h[s] = step[<<h[s \ {Max(s)}], Max(s)>>]
      BY <1>5, <2>1 DEF Folds
    <3> QED  BY <1>4, <3>1, <3>2, <3>3
  <2> QED  BY <1>5, <2>1 DEF Folds
<1>7. PICK iter : /\ iter = [s \in SUBSET (1 .. n) |->
                        IF s = {} THEN WalkStart(list) ELSE PreviewColumn(iter[s \ {Max(s)}], Max(s))]
                  /\ Walked(list) = iter[1 .. n]
  <2> DEFINE idx == [i \in DOMAIN Want |-> i]
  <2>1. Walked(list) = (CHOOSE iter : iter = [s \in SUBSET DOMAIN idx |->
                       IF s = {} THEN WalkStart(list) ELSE PreviewColumn(iter[s \ {Max(s)}], idx[Max(s)])])[DOMAIN idx]
    BY Zenon DEF Walked, WalkStart, FoldLeftDomain, FoldLeft, MapThenFoldSet
  <2>2. DOMAIN idx = 1 .. n /\ \A k \in 1 .. n : idx[k] = k
    BY <1>1
  <2> HIDE DEF idx
  <2>3. \A s \in SUBSET (1 .. n) : s # {} => idx[Max(s)] = Max(s)
    BY <1>1, <2>2, MaxIs
  <2>4. h = [s \in SUBSET DOMAIN idx |->
                IF s = {} THEN WalkStart(list) ELSE PreviewColumn(h[s \ {Max(s)}], idx[Max(s)])]
    <3>1. ASSUME NEW s \in SUBSET (1 .. n)
          PROVE  h[s] = IF s = {} THEN WalkStart(list) ELSE PreviewColumn(h[s \ {Max(s)}], idx[Max(s)])
      <4>1. h[s] = IF s = {} THEN WalkStart(list) ELSE PreviewColumn(h[s \ {Max(s)}], Max(s))
        BY <1>6
      <4> QED  BY <2>3, <4>1
    <3>2. h = [s \in SUBSET (1 .. n) |-> h[s]]
      OBVIOUS
    <3> QED  BY <2>2, <3>1, <3>2
  <2>5. PICK iter : /\ iter = [s \in SUBSET DOMAIN idx |->
                          IF s = {} THEN WalkStart(list) ELSE PreviewColumn(iter[s \ {Max(s)}], idx[Max(s)])]
                    /\ Walked(list) = iter[DOMAIN idx]
    BY <2>1, <2>4, Zenon
  <2>6. iter = [s \in SUBSET (1 .. n) |->
                   IF s = {} THEN WalkStart(list) ELSE PreviewColumn(iter[s \ {Max(s)}], Max(s))]
    BY <2>2, <2>3, <2>5
  <2> HIDE DEF idx
  <2> QED  BY <2>2, <2>5, <2>6, Zenon
<1> DEFINE f == [k \in 0 .. n |-> iter[1 .. k]]
<1>8. f[0] = WalkStart(list)
  BY <1>1, <1>7
<1>9. ASSUME NEW k \in 1 .. n PROVE f[k] = PreviewColumn(f[k - 1], k)
  <2>1. k - 1 \in 0 .. n /\ k \in 0 .. n
    BY <1>1
  <2>2. f[k] = iter[1 .. k] /\ f[k - 1] = iter[1 .. (k - 1)]
    BY <2>1
  <2>3. /\ 1 .. k \in SUBSET (1 .. n) /\ 1 .. k # {}
        /\ Max(1 .. k) = k /\ (1 .. k) \ {k} = 1 .. (k - 1)
    BY <1>1, PrefixSet
  <2>4. iter[1 .. k] = PreviewColumn(iter[(1 .. k) \ {Max(1 .. k)}], Max(1 .. k))
    BY <1>7, <2>3
  <2> QED  BY <2>2, <2>3, <2>4
<1>10. Walked(list) = f[n]
  <2>1. n \in 0 .. n
    BY <1>1
  <2>2. f[n] = iter[1 .. n]
    BY <2>1
  <2> QED  BY <1>7, <2>2
<1> HIDE DEF f
<1>11. \A k \in 0 .. n : f[k] \in T
  <2> DEFINE Typed == {k \in 0 .. n : f[k] \in T}
  <2>1. 0 \in Typed
    BY <1>1, <1>2, <1>8
  <2>2. ASSUME NEW k \in 1 .. n, k - 1 \in Typed PROVE k \in Typed
    <3>1. f[k - 1] \in T /\ k \in 0 .. n
      BY <1>1, <2>2
    <3>2. f[k] \in T
      BY <1>2, <1>9, <3>1
    <3> QED  BY <3>1, <3>2
  <2>3. Typed \in SUBSET (0 .. n)
    OBVIOUS
  <2> HIDE DEF Typed
  <2>4. \A k \in 0 .. n : k \in Typed
    BY <1>1, <2>1, <2>2, <2>3, InductTo
  <2> QED  BY <2>4 DEF Typed
<1>12. f[n] \in T /\ \A k \in 1 .. n : f[k - 1] \in T
  <2>1. n \in 0 .. n /\ \A k \in 1 .. n : k - 1 \in 0 .. n
    BY <1>1
  <2> QED  BY <1>11, <2>1
<1> QED  BY <1>8, <1>9, <1>10, <1>12 DEF n, T

LEMMA MovedFold ==
    ASSUME NEW list \in Seq(Column),
           NEW moves \in Seq(Move)
    PROVE  \E f : /\ f[0] = list
                  /\ \A k \in 1 .. Len(moves) : f[k - 1] \in Seq(Column) /\ f[k] = MoveAfter(f[k - 1], moves[k].column, moves[k].after)
                  /\ Moved(list, moves) = f[Len(moves)]
                  /\ Moved(list, moves) \in Seq(Column)
<1> DEFINE T == Seq(Column)
           n == Len(moves)
           step == [p \in T \X (1 .. n) |-> MoveAfter(p[1], moves[p[2]].column, moves[p[2]].after)]
<1>1. n \in Nat /\ DOMAIN moves = 1 .. n /\ \A k \in 1 .. n : moves[k] \in Move
  OBVIOUS
<1>2. list \in T /\ \A l \in T, k \in 1 .. n : MoveAfter(l, moves[k].column, moves[k].after) \in T
  BY <1>1, MoveFacts DEF Move
<1> HIDE DEF n, T
<1>3. step \in [T \X (1 .. n) -> T]
  BY <1>2
<1>4. \A m \in T, k \in 1 .. n : step[<<m, k>>] = MoveAfter(m, moves[k].column, moves[k].after)
  OBVIOUS
<1> HIDE DEF step
<1>5. PICK h \in [SUBSET (1 .. n) -> T] : Folds(h, list, step, n)
  BY <1>1, <1>2, <1>3, FoldExists, Zenon
<1>6. h = [s \in SUBSET (1 .. n) |->
              IF s = {} THEN list ELSE MoveAfter(h[s \ {Max(s)}], moves[Max(s)].column, moves[Max(s)].after)]
  <2>1. ASSUME NEW s \in SUBSET (1 .. n), s # {}
        PROVE  h[s] = MoveAfter(h[s \ {Max(s)}], moves[Max(s)].column, moves[Max(s)].after)
    <3>1. Max(s) \in 1 .. n /\ s \ {Max(s)} \in SUBSET (1 .. n)
      BY <1>1, <2>1, MaxIs
    <3>2. h[s \ {Max(s)}] \in T
      BY <3>1
    <3>3. h[s] = step[<<h[s \ {Max(s)}], Max(s)>>]
      BY <1>5, <2>1 DEF Folds
    <3> QED  BY <1>4, <3>1, <3>2, <3>3
  <2> QED  BY <1>5, <2>1 DEF Folds
<1>7. PICK iter : /\ iter = [s \in SUBSET (1 .. n) |->
                        IF s = {} THEN list ELSE MoveAfter(iter[s \ {Max(s)}], moves[Max(s)].column, moves[Max(s)].after)]
                  /\ Moved(list, moves) = iter[1 .. n]
  BY <1>1, <1>6, Zenon DEF Moved, FoldLeft, MapThenFoldSet
<1> DEFINE f == [k \in 0 .. n |-> iter[1 .. k]]
<1>8. f[0] = list
  BY <1>1, <1>7
<1>9. ASSUME NEW k \in 1 .. n PROVE f[k] = MoveAfter(f[k - 1], moves[k].column, moves[k].after)
  <2>1. k - 1 \in 0 .. n /\ k \in 0 .. n
    BY <1>1
  <2>2. f[k] = iter[1 .. k] /\ f[k - 1] = iter[1 .. (k - 1)]
    BY <2>1
  <2>3. /\ 1 .. k \in SUBSET (1 .. n) /\ 1 .. k # {}
        /\ Max(1 .. k) = k /\ (1 .. k) \ {k} = 1 .. (k - 1)
    BY <1>1, PrefixSet
  <2>4. iter[1 .. k] = MoveAfter(iter[(1 .. k) \ {Max(1 .. k)}], moves[Max(1 .. k)].column, moves[Max(1 .. k)].after)
    BY <1>7, <2>3
  <2> QED  BY <2>2, <2>3, <2>4
<1>10. Moved(list, moves) = f[n]
  <2>1. n \in 0 .. n
    BY <1>1
  <2>2. f[n] = iter[1 .. n]
    BY <2>1
  <2> QED  BY <1>7, <2>2
<1> HIDE DEF f
<1>11. \A k \in 0 .. n : f[k] \in T
  <2> DEFINE Typed == {k \in 0 .. n : f[k] \in T}
  <2>1. 0 \in Typed
    BY <1>1, <1>2, <1>8
  <2>2. ASSUME NEW k \in 1 .. n, k - 1 \in Typed PROVE k \in Typed
    <3>1. f[k - 1] \in T /\ k \in 0 .. n
      BY <1>1, <2>2
    <3>2. f[k] \in T
      BY <1>2, <1>9, <3>1
    <3> QED  BY <3>1, <3>2
  <2>3. Typed \in SUBSET (0 .. n)
    OBVIOUS
  <2> HIDE DEF Typed
  <2>4. \A k \in 0 .. n : k \in Typed
    BY <1>1, <2>1, <2>2, <2>3, InductTo
  <2> QED  BY <2>4 DEF Typed
<1>12. f[n] \in T /\ \A k \in 1 .. n : f[k - 1] \in T
  <2>1. n \in 0 .. n /\ \A k \in 1 .. n : k - 1 \in 0 .. n
    BY <1>1
  <2> QED  BY <1>11, <2>1
<1> QED  BY <1>8, <1>9, <1>10, <1>12 DEF n, T

(* A list has one column of a name.                                           *)
LEMMA Columns ==
    ASSUME NEW l \in Lists
    PROVE  /\ l \in Seq(Column) /\ Distinct(l) /\ ToSet(l) \subseteq Column
           /\ NameSet(l) = {c.name : c \in ToSet(l)}
           /\ \A c, d \in ToSet(l) : c.name = d.name => c = d
           /\ \A c \in ToSet(l) : Has(l, c.name) /\ Lookup(l, c.name) = c
<1>1. l \in Seq(Column) /\ Distinct(l)
  BY DEF Lists
<1>2. /\ NameSet(l) = {l[i].name : i \in 1 .. Len(l)}
      /\ ToSet(l) = {l[i] : i \in 1 .. Len(l)} /\ ToSet(l) \subseteq Column
  BY <1>1, NamesSeq
<1>3. \A c \in ToSet(l) : Has(l, c.name) /\ Lookup(l, c.name) = c
  BY <1>1, <1>2, AtUnique
<1> QED  BY <1>1, <1>2, <1>3

(* The columns of one list under the names of another, in the order there.    *)
LEMMA Lookups ==
    ASSUME NEW b \in Lists, NEW m \in Lists, NameSet(b) \subseteq NameSet(m), NEW g,
           g = [i \in DOMAIN b |-> Lookup(m, b[i].name)]
    PROVE  /\ g \in Lists /\ NamesOf(g) = NamesOf(b)
           /\ ToSet(g) = {c \in ToSet(m) : c.name \in NameSet(b)}
<1> DEFINE n == Len(b)
<1>1. b \in Seq(Column) /\ Distinct(b) /\ m \in Seq(Column)
  BY DEF Lists
<1>2. n \in Nat /\ DOMAIN b = 1 .. n /\ DOMAIN g = 1 .. n
  BY <1>1
<1>3. \A i \in 1 .. n : g[i] = Lookup(m, b[i].name) /\ Has(m, b[i].name)
  <2>1. \A i \in 1 .. n : b[i].name \in NameSet(b)
    BY <1>1, NamesSeq
  <2> QED  BY <1>2, <2>1 DEF Has
<1>4. ASSUME NEW i \in 1 .. n
      PROVE  g[i] \in Column /\ g[i].name = b[i].name /\ g[i] \in ToSet(m)
  <2> DEFINE name == b[i].name
  <2>1. Has(m, name) /\ g[i] = Lookup(m, name)
    BY <1>3
  <2> HIDE DEF name
  <2>2. /\ Lookup(m, name) \in Column /\ Lookup(m, name).name = name
        /\ Lookup(m, name) \in ToSet(m)
    BY <1>1, <2>1, LookupFacts, Zenon
  <2> QED  BY <2>1, <2>2 DEF name
<1>5. g \in Seq(Column) /\ Len(g) = n
  <2>1. g = [i \in 1 .. n |-> g[i]]
    BY <1>2
  <2>2. g \in [1 .. n -> Column]
    BY <1>2, <1>4, <2>1
  <2> HIDE DEF n
  <2> QED  BY <1>2, <2>2
<1>6. NamesOf(g) = NamesOf(b)
  BY <1>2, <1>4 DEF NamesOf
<1>7. Distinct(g)
  BY <1>1, <1>5, <1>6, SameNames
<1>8. ToSet(g) = {c \in ToSet(m) : c.name \in NameSet(b)}
  <2>1. ToSet(g) = {g[i] : i \in 1 .. n}
    BY <1>5, NamesSeq
  <2>2. NameSet(b) = {b[i].name : i \in 1 .. n}
    BY <1>1, NamesSeq
  <2>3. \A c \in ToSet(m) : Lookup(m, c.name) = c
    BY Columns
  <2>4. ASSUME NEW c \in ToSet(m), c.name \in NameSet(b) PROVE c \in ToSet(g)
    <3>1. PICK i \in 1 .. n : b[i].name = c.name
      BY <2>2, <2>4
    <3>2. g[i] = c
      BY <1>3, <2>3, <3>1
    <3> QED  BY <2>1, <3>2
  <2>5. ASSUME NEW c \in ToSet(g) PROVE c \in ToSet(m) /\ c.name \in NameSet(b)
    BY <1>4, <2>1, <2>2, <2>5
  <2> QED  BY <2>4, <2>5
<1> QED  BY <1>5, <1>6, <1>7, <1>8 DEF Lists

-----------------------------------------------------------------------------
(* What Reconcile works on.                                                   *)

LEMMA OnlyInLists ==
    ASSUME NEW l \in Lists, NEW S
    PROVE  Only(l, S) \in Lists
BY OnlyMembers DEF Lists

Aligns(m, first) ==
    /\ Align(m) = first \o Only(m, Undeclared)
    /\ NamesOf(first) = NamesOf(Only(Want, NameSet(m)))

LEMMA AlignFacts ==
    ASSUME conf \in Configurations, NEW m \in Lists
    PROVE  /\ Align(m) \in Lists /\ ToSet(Align(m)) = ToSet(m)
           /\ \E first \in Lists : Aligns(m, first)
<1> DEFINE both == Only(Want, NameSet(m))
           first == [i \in DOMAIN both |-> Lookup(m, both[i].name)]
           rest == Only(m, Undeclared)
<1>1. Want \in Lists /\ Want \in Seq(Column) /\ m \in Seq(Column) /\ NameSet(m) \subseteq Names
  BY WantFacts, Columns, NamesSeq
<1>2. both \in Lists /\ NameSet(both) = NameSet(Want) \cap NameSet(m)
  BY <1>1, OnlyInLists, OnlyMembers
<1>3. rest \in Lists /\ NameSet(rest) = NameSet(m) \cap Undeclared
      /\ ToSet(rest) = {c \in ToSet(m) : c.name \in Undeclared}
  BY <1>1, OnlyInLists, OnlyMembers
<1>4. Align(m) = first \o rest
  BY DEF Align
<1> HIDE DEF both
<1>5. /\ first \in Lists /\ NamesOf(first) = NamesOf(both)
      /\ ToSet(first) = {c \in ToSet(m) : c.name \in NameSet(both)}
  BY <1>2, Lookups
<1> HIDE DEF first, rest
<1>6. first \in Seq(Column) /\ rest \in Seq(Column) /\ both \in Seq(Column)
      /\ Distinct(first) /\ Distinct(rest)
  BY <1>2, <1>3, <1>5 DEF Lists
<1>7. NameSet(first) = NameSet(both)
  BY <1>5, <1>6, SameNames
<1>8. NameSet(first) \cap NameSet(rest) = {}
  BY <1>2, <1>3, <1>7 DEF Undeclared
<1>9. first \o rest \in Lists
  <2>1. first \o rest \in Seq(Column)
    BY <1>6
  <2>2. Distinct(first \o rest)
    BY <1>6, <1>8, DistinctConcat
  <2> QED  BY <2>1, <2>2 DEF Lists
<1>10. ToSet(first \o rest) = ToSet(m)
  <2>1. ToSet(first \o rest) = ToSet(first) \cup ToSet(rest)
    BY <1>6, ConcatFacts
  <2>2. \A c \in ToSet(m) : c.name \in NameSet(m) /\ c.name \in Names
    BY <1>1, Columns
  <2>3. \A c \in ToSet(m) : c.name \in NameSet(both) \/ c.name \in Undeclared
    BY <1>2, <2>2 DEF Undeclared
  <2> QED  BY <1>3, <1>5, <2>1, <2>3
<1>11. Aligns(m, first)
  BY <1>4, <1>5 DEF Aligns, rest, both
<1> QED  BY <1>4, <1>5, <1>9, <1>10, <1>11

ManagedNames == NameSet(Want) \cup (Names \ Unmanaged)

LEMMA CurrentFacts ==
    ASSUME conf \in Configurations, NEW B \in Lists
    PROVE  /\ Managed(B) \in Lists /\ Current(B) \in Lists
           /\ ToSet(Managed(B)) = {c \in ToSet(B) : c.name \in ManagedNames}
           /\ ToSet(Current(B)) = {c \in ToSet(B) : c.name \in ManagedNames}
           /\ NameSet(Current(B)) = NameSet(B) \cap ManagedNames
<1>1. B \in Seq(Column)
  BY DEF Lists
<1>2. Managed(B) = Only(B, ManagedNames)
  BY DEF Managed, ManagedNames
<1>3. Managed(B) \in Lists /\ ToSet(Managed(B)) = {c \in ToSet(B) : c.name \in ManagedNames}
  BY <1>1, <1>2, OnlyInLists, OnlyMembers
<1>4. Current(B) \in Lists /\ ToSet(Current(B)) = ToSet(Managed(B))
  BY <1>3, AlignFacts DEF Current
<1>5. /\ NameSet(Current(B)) = {c.name : c \in ToSet(Current(B))}
      /\ NameSet(B) = {c.name : c \in ToSet(B)}
  BY <1>4, Columns
<1>6. NameSet(Current(B)) = NameSet(B) \cap ManagedNames
  BY <1>3, <1>4, <1>5
<1> QED  BY <1>3, <1>4, <1>6

-----------------------------------------------------------------------------
(* applySafeRenames.                                                          *)

RenamesUpTo(l, k) == {j \in RenamedAt(l) : j <= k}
OldNames(l, k) == {l[j] : j \in RenamesUpTo(l, k)}
NewNames(l, k) == {Want[j] : j \in RenamesUpTo(l, k)}

LEMMA RenamedAtFacts ==
    ASSUME conf \in Configurations, NEW l \in Lists
    PROVE  \A j \in RenamedAt(l) :
              /\ j \in 1 .. Len(l) /\ j \in 1 .. Len(Want) /\ j \in Nat
              /\ l[j] \in Column /\ l[j] \in ToSet(l) /\ l[j].name \in NameSet(l)
              /\ l[j].name \in Names /\ l[j].name \notin NameSet(Want)
              /\ Want[j] \in Column /\ Want[j].name \in NameSet(Want)
              /\ Want[j].name \notin NameSet(l) /\ Want[j].kind = l[j].kind
<1>1. l \in Seq(Column)
  BY DEF Lists
<1> SUFFICES ASSUME NEW j \in RenamedAt(l)
             PROVE  /\ j \in 1 .. Len(l) /\ j \in 1 .. Len(Want) /\ j \in Nat
                    /\ l[j] \in Column /\ l[j] \in ToSet(l) /\ l[j].name \in NameSet(l)
                    /\ l[j].name \in Names /\ l[j].name \notin NameSet(Want)
                    /\ Want[j] \in Column /\ Want[j].name \in NameSet(Want)
                    /\ Want[j].name \notin NameSet(l) /\ Want[j].kind = l[j].kind
  OBVIOUS
<1>2. /\ j \in DOMAIN l \cap DOMAIN Want
      /\ ~Declared(l[j].name) /\ ~Has(l, Want[j].name) /\ l[j].kind = Want[j].kind
  BY DEF RenamedAt
<1>3. DOMAIN l = 1 .. Len(l) /\ DOMAIN Want = 1 .. Len(Want) /\ Len(l) \in Nat
  BY <1>1, WantFacts
<1>4. j \in 1 .. Len(l) /\ j \in 1 .. Len(Want) /\ j \in Nat
  BY <1>2, <1>3
<1>5. l[j].name \notin NameSet(Want) /\ Want[j].name \notin NameSet(l)
  BY <1>2 DEF Declared, Has
<1>6. /\ l[j] \in Column /\ l[j].name \in Names
      /\ NameSet(l) = {l[i].name : i \in 1 .. Len(l)} /\ ToSet(l) = {l[i] : i \in 1 .. Len(l)}
  BY <1>1, <1>4, NamesSeq
<1>7. Want[j] \in Column /\ Want[j].name \in NameSet(Want)
  BY <1>4, WantFacts
<1> QED  BY <1>2, <1>4, <1>5, <1>6, <1>7

LEMMA SameColumn ==
    ASSUME NEW c \in Column, NEW d \in Column, c.name = d.name, c.kind = d.kind
    PROVE  c = d
BY DEF Column

(* The columns of "from" that are among the first k renamed of "l", renamed.  *)
Chain(l, from, k, m) ==
    /\ m \in Lists
    /\ ToSet(m) = (ToSet(from) \ OldNames(l, k)) \cup NewNames(l, k)

(* The renames one after another, for a list "from" that contains "l".        *)
LEMMA RenameStep ==
    ASSUME conf \in Configurations, NEW l \in Lists, NEW from \in Lists,
           ToSet(l) \subseteq ToSet(from),
           NameSet(from) \cap NameSet(Want) = NameSet(l) \cap NameSet(Want),
           NEW k \in RenamedAt(l), NEW m, Chain(l, from, k - 1, m)
    PROVE  /\ Accepts(m, Rename(l, k)) /\ m # Rejected
           /\ Sent(m, Rename(l, k)) = [m EXCEPT ![At(m, l[k].name)] = Want[k]]
           /\ Chain(l, from, k, Sent(m, Rename(l, k)))
           /\ Lookup(m, l[k].name) = l[k]
<1> DEFINE act == Rename(l, k)
           old == l[k]
           new == Want[k]
<1>1. /\ k \in 1 .. Len(l) /\ k \in Nat
      /\ old \in Column /\ old \in ToSet(l) /\ old.name \in Names /\ old.name \notin NameSet(Want)
      /\ new \in Column /\ new.name \in NameSet(Want) /\ new.name \notin NameSet(l)
      /\ new.kind = old.kind
  BY RenamedAtFacts
<1>2. m \in Lists /\ ToSet(m) = (ToSet(from) \ OldNames(l, k - 1)) \cup NewNames(l, k - 1)
  BY DEF Chain
<1>3. old \notin OldNames(l, k - 1)
  <2>1. \A j \in RenamesUpTo(l, k - 1) : j \in 1 .. Len(l) /\ j # k
    BY <1>1, RenamedAtFacts DEF RenamesUpTo
  <2>2. \A j \in RenamesUpTo(l, k - 1) : l[j].name # l[k].name
    BY <1>1, <2>1, DistinctIs DEF Lists
  <2> QED  BY <2>2 DEF OldNames
<1>4. old \in ToSet(m)
  BY <1>1, <1>2, <1>3
<1>5. Has(m, old.name) /\ Lookup(m, old.name) = old
  BY <1>2, <1>4, Columns
<1>6. new.name \notin NameSet(m)
  <2>1. new.name \notin NameSet(from)
    BY <1>1
  <2>2. \A c \in ToSet(from) : c.name # new.name
    BY <2>1, Columns
  <2>3. \A j \in RenamesUpTo(l, k - 1) : j \in 1 .. Len(Want) /\ j # k /\ k \in 1 .. Len(Want)
    BY <1>1, RenamedAtFacts DEF RenamesUpTo
  <2>4. \A j \in RenamesUpTo(l, k - 1) : Want[j].name # Want[k].name
    BY <2>3, WantFacts, DistinctIs
  <2>5. \A c \in NewNames(l, k - 1) : c.name # new.name
    BY <2>4 DEF NewNames
  <2>6. \A c \in ToSet(m) : c.name # new.name
    BY <1>2, <2>2, <2>5
  <2> QED  BY <1>2, <2>6, Columns
<1>7. act \in Action /\ act.do = "rename" /\ act.name = old.name /\ act.to = new.name
  <2>1. act \in Action
    BY RenameType DEF Lists
  <2> QED  BY <2>1 DEF Rename
<1>8. m # Rejected
  <2>1. m # <<>>
    BY <1>5, NilFacts DEF Has
  <2> QED  BY <2>1 DEF Rejected
<1> HIDE DEF act
<1>9. Accepts(m, act)
  <2>1. Has(m, act.name) /\ ~Has(m, act.to)
    BY <1>5, <1>6, <1>7 DEF Has
  <2> QED  BY <1>7, <2>1, Zenon DEF Accepts
<1>10. Sent(m, act) = Apply(m, act)
  BY <1>2, <1>7, <1>8, <1>9, SentFacts
<1>11. [Lookup(m, act.name) EXCEPT !.name = act.to] = new
  <2>1. /\ [old EXCEPT !.name = new.name] \in Column
        /\ [old EXCEPT !.name = new.name].name = new.name
        /\ [old EXCEPT !.name = new.name].kind = new.kind
    BY <1>1, ColumnFields
  <2>2. [old EXCEPT !.name = new.name] = new
    BY <1>1, <2>1, SameColumn
  <2>3. [Lookup(m, act.name) EXCEPT !.name = act.to] = [old EXCEPT !.name = new.name]
    BY <1>5, <1>7
  <2> QED  BY <2>2, <2>3
<1>12. Apply(m, act) = [m EXCEPT ![At(m, old.name)] = new]
  <2>1. Apply(m, act) = [m EXCEPT ![At(m, act.name)].name = act.to]
    BY <1>7, Zenon DEF Apply
  <2> QED  BY <1>7, <1>11, <2>1 DEF Lookup
<1>13. Swapped(m, Apply(m, act), old, new)
  <2>1. Swapped(m, [m EXCEPT ![At(m, old.name)] = new], Lookup(m, old.name), new)
    BY <1>1, <1>2, <1>5, SwapAt, Zenon
  <2> QED  BY <1>5, <1>12, <2>1
<1>14. /\ Apply(m, act) \in Lists
       /\ ToSet(Apply(m, act)) = (ToSet(m) \ {old}) \cup {new}
  BY <1>1, <1>2, <1>6, <1>13, SwapFacts
<1>15. OldNames(l, k) = OldNames(l, k - 1) \cup {old} /\ NewNames(l, k) = NewNames(l, k - 1) \cup {new}
  <2>1. \A j \in RenamedAt(l) : j \in Nat
    BY RenamedAtFacts
  <2>2. RenamesUpTo(l, k) = RenamesUpTo(l, k - 1) \cup {k}
    <3>1. \A j \in RenamedAt(l) : j <= k <=> (j <= k - 1 \/ j = k)
      BY <1>1, <2>1
    <3> QED  BY <3>1 DEF RenamesUpTo
  <2> QED  BY <2>2 DEF OldNames, NewNames
<1>16. old \notin NewNames(l, k - 1)
  <2>1. \A c \in NewNames(l, k - 1) : c.name \in NameSet(Want)
    BY RenamedAtFacts DEF NewNames, RenamesUpTo
  <2> QED  BY <1>1, <2>1
<1>17. \A c \in ToSet(from) : c # new
  <2>1. \A c \in ToSet(from) : c.name \in NameSet(from)
    BY Columns
  <2> QED  BY <1>1, <2>1
<1>18. (ToSet(m) \ {old}) \cup {new} = (ToSet(from) \ OldNames(l, k)) \cup NewNames(l, k)
  <2>1. new \notin OldNames(l, k - 1)
    <3>1. \A c \in OldNames(l, k - 1) : c.name \notin NameSet(Want)
      BY RenamedAtFacts DEF OldNames, RenamesUpTo
    <3> QED  BY <1>1, <3>1
  <2> QED  BY <1>2, <1>15, <1>16, <2>1
<1> QED  BY <1>5, <1>8, <1>9, <1>10, <1>12, <1>14, <1>18 DEF Chain, act

(* The list "from" after the first k renames.                                 *)
RenamedPart(l, from, k) ==
    [i \in DOMAIN from |->
        IF from[i] \in OldNames(l, k) THEN Want[At(l, from[i].name)] ELSE from[i]]

LEMMA OldNameAt ==
    ASSUME conf \in Configurations, NEW l \in Lists, NEW k \in RenamedAt(l)
    PROVE  /\ At(l, l[k].name) = k
           /\ \A j \in RenamedAt(l) : l[j] = l[k] => j = k
<1>1. l \in Seq(Column) /\ Distinct(l) /\ k \in 1 .. Len(l)
  BY RenamedAtFacts DEF Lists
<1>2. At(l, l[k].name) = k
  BY <1>1, AtUnique
<1>3. \A j \in RenamedAt(l) : l[j] = l[k] => j = k
  BY <1>1, RenamedAtFacts, DistinctIs
<1> QED  BY <1>2, <1>3

LEMMA RenamedPartStep ==
    ASSUME conf \in Configurations, NEW l \in Lists, NEW from \in Lists,
           ToSet(l) \subseteq ToSet(from),
           NEW k \in RenamedAt(l), NEW m, m = RenamedPart(l, from, k - 1), m \in Lists
    PROVE  RenamedPart(l, from, k) = [m EXCEPT ![At(m, l[k].name)] = Want[k]]
<1>1. from \in Seq(Column) /\ Distinct(from) /\ m \in Seq(Column) /\ Distinct(m)
  BY DEF Lists
<1>2. k \in 1 .. Len(l) /\ k \in Nat /\ l[k] \in ToSet(l) /\ At(l, l[k].name) = k
  BY RenamedAtFacts, OldNameAt
<1>3. PICK x \in 1 .. Len(from) : from[x] = l[k]
  BY <1>1, <1>2, NamesSeq
<1>4. DOMAIN from = 1 .. Len(from) /\ DOMAIN m = 1 .. Len(from) /\ Len(m) = Len(from)
  <2>1. DOMAIN from = 1 .. Len(from) /\ Len(from) \in Nat /\ DOMAIN m = 1 .. Len(m) /\ Len(m) \in Nat
    BY <1>1
  <2>2. DOMAIN m = DOMAIN from
    BY DEF RenamedPart
  <2> QED  BY <2>1, <2>2
<1>5. l[k] \notin OldNames(l, k - 1)
  <2>1. \A j \in RenamesUpTo(l, k - 1) : j \in RenamedAt(l) /\ j # k
    BY <1>2, RenamedAtFacts DEF RenamesUpTo
  <2> QED  BY <2>1, OldNameAt DEF OldNames
<1>6. \A c : c \in OldNames(l, k) <=> (c \in OldNames(l, k - 1) \/ c = l[k])
  <2>1. \A j \in RenamedAt(l) : j <= k <=> (j <= k - 1 \/ j = k)
    BY <1>2, RenamedAtFacts
  <2> QED  BY <1>2, <2>1 DEF OldNames, RenamesUpTo
<1>7. m[x] = l[k]
  BY <1>3, <1>4, <1>5 DEF RenamedPart
<1>8. At(m, l[k].name) = x
  BY <1>1, <1>3, <1>4, <1>7, AtUnique
<1>9. \A i \in 1 .. Len(from) : from[i] = l[k] <=> i = x
  BY <1>1, <1>3, DistinctIs
<1>10. \A i \in 1 .. Len(from) : RenamedPart(l, from, k)[i] = IF i = x THEN Want[k] ELSE m[i]
  <2> SUFFICES ASSUME NEW i \in 1 .. Len(from)
               PROVE  RenamedPart(l, from, k)[i] = IF i = x THEN Want[k] ELSE m[i]
    OBVIOUS
  <2>1. RenamedPart(l, from, k)[i] =
            IF from[i] \in OldNames(l, k) THEN Want[At(l, from[i].name)] ELSE from[i]
    BY <1>4 DEF RenamedPart
  <2>2. m[i] = IF from[i] \in OldNames(l, k - 1) THEN Want[At(l, from[i].name)] ELSE from[i]
    BY <1>4 DEF RenamedPart
  <2> QED  BY <1>2, <1>3, <1>6, <1>9, <2>1, <2>2
<1>11. DOMAIN RenamedPart(l, from, k) = 1 .. Len(from)
  BY <1>4 DEF RenamedPart
<1> DEFINE r == RenamedPart(l, from, k)
<1>12. r = [i \in 1 .. Len(from) |-> r[i]]
  BY <1>4 DEF RenamedPart
<1> HIDE DEF r
<1> QED  BY <1>4, <1>8, <1>10, <1>12 DEF r

(* Renamed and RenamedPhysical are what the renames make of a table.          *)
LEMMA RenameAll ==
    ASSUME conf \in Configurations, NEW l \in Lists, NEW from \in Lists,
           ToSet(l) \subseteq ToSet(from),
           NameSet(from) \cap NameSet(Want) = NameSet(l) \cap NameSet(Want)
    PROVE  /\ Renames(l) \in Seq(Action)
           /\ AlterTable(from, Renames(l)) = RenamedPart(l, from, Len(l))
           /\ Chain(l, from, Len(l), RenamedPart(l, from, Len(l)))
<1> DEFINE n == Len(l)
<1>0. n \in Nat /\ l \in Seq(Column) /\ from \in Seq(Column) /\ \A j \in RenamedAt(l) : j \in 1 .. n
  BY RenamedAtFacts DEF Lists
<1>1. PICK f : /\ f[0] = <<>>
               /\ \A k \in 1 .. Len(l) : f[k - 1] \in Seq(Action) /\ f[k] = (IF k \in RenamedAt(l) THEN Append(f[k - 1], Rename(l, k)) ELSE f[k - 1])
               /\ Renames(l) = f[Len(l)]
               /\ Renames(l) \in Seq(Action)
  BY <1>0, RenamesFold, Zenon
<1> DEFINE Done(k) == /\ AlterTable(from, f[k]) = RenamedPart(l, from, k)
                      /\ Chain(l, from, k, RenamedPart(l, from, k))
           S == {k \in 0 .. n : Done(k)}
<1>2. 0 \in S
  <2>1. \A j \in RenamedAt(l) : ~ (j <= 0)
    BY <1>0
  <2>2. OldNames(l, 0) = {} /\ NewNames(l, 0) = {}
    BY <2>1 DEF OldNames, NewNames, RenamesUpTo
  <2>3. RenamedPart(l, from, 0) = from
    BY <1>0, <2>2 DEF RenamedPart
  <2>4. AlterTable(from, <<>>) = from
    BY AlterNil
  <2>5. Chain(l, from, 0, from)
    BY <2>2 DEF Chain
  <2> QED  BY <1>0, <1>1, <2>3, <2>4, <2>5
<1>3. ASSUME NEW k \in 1 .. n, k - 1 \in S PROVE k \in S
  <2>1. k \in 0 .. n /\ f[k - 1] \in Seq(Action) /\ Done(k - 1)
    BY <1>0, <1>1, <1>3
  <2> DEFINE m == RenamedPart(l, from, k - 1)
  <2>2. AlterTable(from, f[k - 1]) = m /\ Chain(l, from, k - 1, m)
    BY <2>1
  <2>3. m \in Lists
    BY <2>2 DEF Chain
  <2>4. CASE k \in RenamedAt(l)
    <3> HIDE DEF m
    <3>1. Sent(m, Rename(l, k)) = [m EXCEPT ![At(m, l[k].name)] = Want[k]]
          /\ Chain(l, from, k, Sent(m, Rename(l, k)))
      BY <2>2, <2>4, RenameStep
    <3>2. RenamedPart(l, from, k) = [m EXCEPT ![At(m, l[k].name)] = Want[k]]
      BY <2>3, <2>4, RenamedPartStep DEF m
    <3>3. Rename(l, k) \in Action
      BY <1>0, <2>4, RenameType
    <3>4. f[k] = Append(f[k - 1], Rename(l, k))
      BY <1>1, <2>4
    <3>5. AlterTable(from, Append(f[k - 1], Rename(l, k))) = Sent(AlterTable(from, f[k - 1]), Rename(l, k))
      BY <2>1, <3>3, AlterAppend, Zenon
    <3> QED  BY <2>1, <2>2, <3>1, <3>2, <3>4, <3>5
  <2>5. CASE k \notin RenamedAt(l)
    <3>1. \A j \in RenamedAt(l) : j <= k <=> j <= k - 1
      BY <1>0, <2>5
    <3>2. OldNames(l, k) = OldNames(l, k - 1) /\ NewNames(l, k) = NewNames(l, k - 1)
      BY <3>1 DEF OldNames, NewNames, RenamesUpTo
    <3>3. RenamedPart(l, from, k) = m
      BY <3>2 DEF RenamedPart
    <3>4. Chain(l, from, k, m)
      BY <2>2, <3>2 DEF Chain
    <3>5. f[k] = f[k - 1]
      BY <1>1, <2>5
    <3> QED  BY <2>1, <2>2, <3>3, <3>4, <3>5
  <2> QED  BY <2>4, <2>5
<1>4. S \in SUBSET (0 .. n)
  OBVIOUS
<1> HIDE DEF S
<1>5. \A k \in 0 .. n : k \in S
  BY <1>0, <1>2, <1>3, <1>4, InductTo
<1>6. n \in S
  BY <1>0, <1>5
<1>7. Done(n)
  BY <1>6 DEF S
<1> QED  BY <1>1, <1>7

LEMMA SuccessorIs ==
    ASSUME conf \in Configurations, NEW l \in Lists, NEW c
    PROVE  Successor(l, c) = IF c \in OldNames(l, Len(l)) THEN Want[At(l, c.name)] ELSE c
<1>1. \A j \in RenamedAt(l) : j <= Len(l)
  BY RenamedAtFacts DEF Lists
<1>2. c \in OldNames(l, Len(l)) <=> \E k \in RenamedAt(l) : l[k] = c
  BY <1>1 DEF OldNames, RenamesUpTo
<1>3. ASSUME NEW k \in RenamedAt(l), l[k] = c
      PROVE  (CHOOSE j \in RenamedAt(l) : l[j] = c) = At(l, c.name)
  <2>1. At(l, l[k].name) = k /\ \A j \in RenamedAt(l) : l[j] = l[k] => j = k
    BY OldNameAt
  <2>2. (CHOOSE j \in RenamedAt(l) : l[j] = c) = k
    BY <1>3, <2>1
  <2> QED  BY <1>3, <2>1, <2>2
<1> QED  BY <1>2, <1>3 DEF Successor

(* The table as the walks start from it: the columns that other clients are   *)
(* left with, and those the configuration is compared with.                   *)
LEMMA StartFacts ==
    ASSUME conf \in Configurations, NEW B \in Lists
    PROVE  /\ Aligned(B) \in Lists /\ RenamedPhysical(B) \in Lists
           /\ Renames(Current(B)) \in Seq(Action)
           /\ AlterTable(B, Renames(Current(B))) = RenamedPhysical(B)
           /\ ToSet(RenamedPhysical(B)) = ToSet(Aligned(B)) \cup {c \in ToSet(B) : c.name \notin ManagedNames}
           /\ NameSet(Aligned(B)) \subseteq ManagedNames
           /\ NameSet(RenamedPhysical(B)) \cap NameSet(Want) = NameSet(Aligned(B)) \cap NameSet(Want)
           /\ NameSet(B) \cap NameSet(Want) \subseteq NameSet(Aligned(B))
           /\ RenamedPhysical(B) = RenamedPart(Current(B), B, Len(Current(B)))
           /\ Aligned(B) = RenamedPart(Current(B), Current(B), Len(Current(B)))
<1> DEFINE l == Current(B)
           n == Len(l)
           old == OldNames(l, n)
           new == NewNames(l, n)
           al == Aligned(B)
           rp == RenamedPhysical(B)
<1>1. /\ l \in Lists /\ ToSet(l) = {c \in ToSet(B) : c.name \in ManagedNames}
      /\ NameSet(l) = NameSet(B) \cap ManagedNames
  BY CurrentFacts
<1> HIDE DEF l
<1>2. NameSet(Want) \subseteq ManagedNames
  BY DEF ManagedNames
<1>3. NameSet(B) \cap NameSet(Want) = NameSet(l) \cap NameSet(Want) /\ ToSet(l) \subseteq ToSet(B)
  BY <1>1, <1>2
<1>4. /\ Renames(l) \in Seq(Action)
      /\ AlterTable(B, Renames(l)) = RenamedPart(l, B, n)
      /\ Chain(l, B, n, RenamedPart(l, B, n))
  BY <1>1, <1>3, RenameAll
<1>5. Chain(l, l, n, RenamedPart(l, l, n))
  BY <1>1, RenameAll
<1>6. rp = RenamedPart(l, B, n)
  <2>1. \A i \in DOMAIN B : Successor(l, B[i]) =
            IF B[i] \in old THEN Want[At(l, B[i].name)] ELSE B[i]
    BY <1>1, SuccessorIs
  <2> HIDE DEF old
  <2> QED  BY <2>1 DEF RenamedPhysical, RenamedPart, l, old
<1>7. al = RenamedPart(l, l, n)
  <2>1. DOMAIN l = 1 .. n /\ l \in Seq(Column)
    BY <1>1 DEF Lists
  <2>2. ASSUME NEW i \in DOMAIN l
        PROVE  (IF i \in RenamedAt(l) THEN Want[i] ELSE l[i])
                  = (IF l[i] \in old THEN Want[At(l, l[i].name)] ELSE l[i])
    <3>1. i \in RenamedAt(l) => l[i] \in old
      <4>1. \A j \in RenamedAt(l) : j <= n
        BY <1>1, RenamedAtFacts DEF Lists
      <4> QED  BY <4>1 DEF OldNames, RenamesUpTo
    <3>2. l[i] \in old => i \in RenamedAt(l)
      <4>1. ASSUME NEW j \in RenamedAt(l), l[j] = l[i] PROVE i = j
        <5>1. j \in 1 .. n /\ i \in 1 .. n /\ Distinct(l)
          BY <1>1, <2>1, RenamedAtFacts DEF Lists
        <5> QED  BY <2>1, <4>1, <5>1, DistinctIs
      <4> QED  BY <4>1 DEF OldNames, RenamesUpTo
    <3>3. i \in RenamedAt(l) => At(l, l[i].name) = i
      BY <1>1, OldNameAt
    <3> QED  BY <3>1, <3>2, <3>3
  <2> HIDE DEF old
  <2> QED  BY <2>2 DEF Aligned, Renamed, RenamedPart, l, old
<1>8. /\ al \in Lists /\ rp \in Lists
      /\ ToSet(rp) = (ToSet(B) \ old) \cup new
      /\ ToSet(al) = (ToSet(l) \ old) \cup new
  BY <1>4, <1>5, <1>6, <1>7 DEF Chain
<1>9. /\ \A c \in old : c \in ToSet(l) /\ c.name \notin NameSet(Want)
      /\ \A c \in new : c.name \in NameSet(Want)
  BY <1>1, RenamedAtFacts DEF OldNames, NewNames, RenamesUpTo
<1> HIDE DEF al, rp, old, new
<1>10. ToSet(rp) = ToSet(al) \cup {c \in ToSet(B) : c.name \notin ManagedNames}
  BY <1>1, <1>8, <1>9
<1>11. /\ NameSet(al) = {c.name : c \in ToSet(al)} /\ NameSet(rp) = {c.name : c \in ToSet(rp)}
       /\ NameSet(B) = {c.name : c \in ToSet(B)} /\ NameSet(l) = {c.name : c \in ToSet(l)}
  BY <1>1, <1>8, Columns
<1>12. NameSet(al) \subseteq ManagedNames
  <2>1. \A c \in ToSet(al) : c.name \in ManagedNames
    BY <1>1, <1>2, <1>8, <1>9
  <2> QED  BY <1>11, <2>1
<1>13. NameSet(rp) \cap NameSet(Want) = NameSet(al) \cap NameSet(Want)
  <2>1. \A c \in ToSet(rp) : c.name \in NameSet(Want) => c \in ToSet(al)
    BY <1>2, <1>10
  <2>2. ToSet(al) \subseteq ToSet(rp)
    BY <1>10
  <2> QED  BY <1>11, <2>1, <2>2
<1>14. NameSet(B) \cap NameSet(Want) \subseteq NameSet(al)
  <2>1. \A c \in ToSet(B) : c.name \in NameSet(Want) => c \in ToSet(al)
    BY <1>1, <1>2, <1>8, <1>9
  <2> QED  BY <1>11, <2>1
<1> QED  BY <1>4, <1>6, <1>7, <1>8, <1>10, <1>12, <1>13, <1>14 DEF al, rp, l

-----------------------------------------------------------------------------
(* The two walks over the configured columns.                                 *)

(* The cases of PlanColumnIs and PreviewColumnIs.                             *)
LEMMA ColumnAdded ==
    ASSUME conf \in Configurations, NEW plan \in Plans, NEW walk \in Walks, NEW i \in 1 .. Len(Want),
           plan.order = walk.order, ~Has(plan.order, Want[i].name)
    PROVE  /\ PlanColumn(plan, i).order = InsertAfter(plan.order, Want[i], Previous(Want, i))
           /\ PlanColumn(plan, i).adds = Append(plan.adds, Add(i))
           /\ PlanColumn(plan, i).modifies = plan.modifies
           /\ PreviewColumn(walk, i).physical = InsertAfter(walk.physical, Want[i], Previous(Want, i))
           /\ PreviewColumn(walk, i).order = InsertAfter(plan.order, Want[i], Previous(Want, i))
           /\ PreviewColumn(walk, i).moves = walk.moves
<1>1. ~Has(walk.order, Want[i].name)
  OBVIOUS
<1>2. /\ PlanColumn(plan, i).order = InsertAfter(plan.order, Want[i], Previous(Want, i))
      /\ PlanColumn(plan, i).adds = Append(plan.adds, Add(i))
      /\ PlanColumn(plan, i).modifies = plan.modifies
  BY PlanColumnIs, Zenon
<1>3. /\ PreviewColumn(walk, i).physical = InsertAfter(walk.physical, Want[i], Previous(Want, i))
      /\ PreviewColumn(walk, i).order = InsertAfter(walk.order, Want[i], Previous(Want, i))
      /\ PreviewColumn(walk, i).moves = walk.moves
  BY <1>1, PreviewColumnIs, Zenon
<1> QED  BY <1>2, <1>3, Zenon

LEMMA ColumnFound ==
    ASSUME conf \in Configurations, NEW plan \in Plans, NEW walk \in Walks, NEW i \in 1 .. Len(Want),
           plan.order = walk.order, Has(plan.order, Want[i].name)
    PROVE  /\ PlanColumn(plan, i).order =
                 (IF Shift(plan.order, i) THEN MoveAfter(plan.order, Want[i], Previous(Want, i))
                  ELSE plan.order)
           /\ PlanColumn(plan, i).adds = plan.adds
           /\ PlanColumn(plan, i).modifies =
                 plan.modifies \o RemoveExpression(Old(plan.order, i), Want[i])
                   \o ModifyColumn(Old(plan.order, i), Want[i], Shift(plan.order, i), Previous(Want, i))
           /\ PreviewColumn(walk, i).physical = walk.physical
           /\ PreviewColumn(walk, i).order = PlanColumn(plan, i).order
           /\ PreviewColumn(walk, i).moves =
                 (IF Shift(plan.order, i)
                  THEN Append(walk.moves, [column |-> Want[i], after |-> Previous(Want, i)])
                  ELSE walk.moves)
<1>1. Has(walk.order, Want[i].name)
  OBVIOUS
<1>2. /\ PlanColumn(plan, i).order =
            (IF Shift(plan.order, i) THEN MoveAfter(plan.order, Want[i], Previous(Want, i))
             ELSE plan.order)
      /\ PlanColumn(plan, i).adds = plan.adds
      /\ PlanColumn(plan, i).modifies =
            plan.modifies \o RemoveExpression(Old(plan.order, i), Want[i])
              \o ModifyColumn(Old(plan.order, i), Want[i], Shift(plan.order, i), Previous(Want, i))
  BY PlanColumnIs, Zenon
<1>3. /\ PreviewColumn(walk, i).physical = walk.physical
      /\ PreviewColumn(walk, i).order =
            (IF Shift(walk.order, i) THEN MoveAfter(walk.order, Want[i], Previous(Want, i))
             ELSE walk.order)
      /\ PreviewColumn(walk, i).moves =
            (IF Shift(walk.order, i)
             THEN Append(walk.moves, [column |-> Want[i], after |-> Previous(Want, i)])
             ELSE walk.moves)
  BY <1>1, PreviewColumnIs, Zenon
<1> QED  BY <1>2, <1>3, Zenon

DoneNames(k) == {Want[j].name : j \in 1 .. k}

(* The columns among the first k that the table does not have.                *)
Missing(B, k) == {j \in 1 .. k : Want[j].name \notin NameSet(Aligned(B))}

Folding(B, f, g) ==
    /\ f[0] = PlanStart(B) /\ g[0] = WalkStart(B)
    /\ \A k \in 1 .. Len(Want) :
          /\ f[k - 1] \in Plans /\ f[k] = PlanColumn(f[k - 1], k)
          /\ g[k - 1] \in Walks /\ g[k] = PreviewColumn(g[k - 1], k)
    /\ Planned(B) = f[Len(Want)] /\ Planned(B) \in Plans
    /\ Walked(B) = g[Len(Want)] /\ Walked(B) \in Walks

LEMMA FoldingExists ==
    ASSUME conf \in Configurations, NEW B \in Lists
    PROVE  \E f, g : Folding(B, f, g)
<1>1. Aligned(B) \in Seq(Column) /\ RenamedPhysical(B) \in Seq(Column)
  BY StartFacts DEF Lists
<1>2. PICK f : /\ f[0] = PlanStart(B)
               /\ \A k \in 1 .. Len(Want) : f[k - 1] \in Plans /\ f[k] = PlanColumn(f[k - 1], k)
               /\ Planned(B) = f[Len(Want)]
               /\ Planned(B) \in Plans
  BY <1>1, PlannedFold, Zenon
<1>3. PICK g : /\ g[0] = WalkStart(B)
               /\ \A k \in 1 .. Len(Want) : g[k - 1] \in Walks /\ g[k] = PreviewColumn(g[k - 1], k)
               /\ Walked(B) = g[Len(Want)]
               /\ Walked(B) \in Walks
  BY <1>1, WalkedFold, Zenon
<1>4. Folding(B, f, g)
  BY <1>2, <1>3, Zenon DEF Folding
<1> QED  BY <1>4

WalkOK(B, plan, walk, k) ==
    /\ plan \in Plans /\ walk \in Walks /\ plan.order = walk.order
    /\ plan.order \in Lists /\ NameSet(plan.order) = NameSet(Aligned(B)) \cup DoneNames(k)
    /\ \A c \in Column : c.name \notin DoneNames(k) =>
          (c \in ToSet(plan.order) <=> c \in ToSet(Aligned(B)))
    /\ walk.physical \in Lists /\ walk.physical # <<>>
    /\ NameSet(walk.physical) = NameSet(RenamedPhysical(B)) \cup DoneNames(k)
    /\ ToSet(walk.physical) = ToSet(RenamedPhysical(B)) \cup {Want[j] : j \in Missing(B, k)}
    /\ AlterTable(RenamedPhysical(B), plan.adds) = walk.physical
    /\ \A i \in 1 .. Len(plan.adds) : \E j \in Missing(B, k) : plan.adds[i] = Add(j)
    /\ plan.adds = <<>> => Missing(B, k) = {}

LEMMA DoneFacts ==
    ASSUME conf \in Configurations, NEW k \in 1 .. Len(Want)
    PROVE  /\ DoneNames(k) = DoneNames(k - 1) \cup {Want[k].name}
           /\ Want[k].name \notin DoneNames(k - 1)
           /\ DoneNames(k) \subseteq NameSet(Want)
           /\ Previous(Want, k) = AtFront \/ Previous(Want, k) \in DoneNames(k - 1)
<1>1. Want \in Seq(Column) /\ Distinct(Want) /\ Len(Want) \in Nat
      /\ NameSet(Want) = {Want[i].name : i \in 1 .. Len(Want)}
  BY WantFacts
<1>2. 1 .. k = 1 .. (k - 1) \cup {k} /\ k \notin 1 .. (k - 1) /\ 1 .. k \subseteq 1 .. Len(Want)
  BY <1>1
<1>3. \A j \in 1 .. (k - 1) : Want[j].name # Want[k].name
  BY <1>1, <1>2, DistinctIs
<1>4. k # 1 => k - 1 \in 1 .. (k - 1) /\ Previous(Want, k) = Want[k - 1].name
  BY <1>1, PreviousFacts
<1>5. k = 1 => Previous(Want, k) = AtFront
  BY PreviousFacts
<1> QED  BY <1>1, <1>2, <1>3, <1>4, <1>5 DEF DoneNames

LEMMA WalkStarts ==
    ASSUME conf \in Configurations, NEW B \in Lists, B # <<>>
    PROVE  WalkOK(B, PlanStart(B), WalkStart(B), 0)
<1>1. Aligned(B) \in Lists /\ RenamedPhysical(B) \in Lists
  BY StartFacts
<1>2. Aligned(B) \in Seq(Column) /\ RenamedPhysical(B) \in Seq(Column) /\ B \in Seq(Column)
  BY <1>1 DEF Lists
<1>3. DoneNames(0) = {} /\ Missing(B, 0) = {}
  BY DEF DoneNames, Missing
<1>4. RenamedPhysical(B) # <<>>
  <2>1. DOMAIN RenamedPhysical(B) = DOMAIN B
    BY DEF RenamedPhysical
  <2>2. Len(B) \in 1 .. Len(B) /\ DOMAIN B = 1 .. Len(B)
    BY <1>2
  <2>3. DOMAIN RenamedPhysical(B) # {}
    BY <2>1, <2>2
  <2>4. DOMAIN <<>> = {}
    OBVIOUS
  <2> QED  BY <2>3, <2>4
<1>5. AlterTable(RenamedPhysical(B), <<>>) = RenamedPhysical(B)
  BY <1>1, AlterNil, Zenon
<1>6. /\ PlanStart(B) \in Plans /\ PlanStart(B).order = Aligned(B)
      /\ PlanStart(B).adds = <<>>
  BY <1>2 DEF PlanStart, Plans
<1>7. /\ WalkStart(B) \in Walks /\ WalkStart(B).order = Aligned(B)
      /\ WalkStart(B).physical = RenamedPhysical(B)
  BY <1>2 DEF WalkStart, Walks
<1>8. {Want[j] : j \in Missing(B, 0)} = {}
  BY <1>3
<1>9. \A i \in 1 .. Len(<<>>) : FALSE
  OBVIOUS
<1> QED  BY <1>1, <1>3, <1>4, <1>5, <1>6, <1>7, <1>8, <1>9 DEF WalkOK

LEMMA WalkStep ==
    ASSUME conf \in Configurations, NEW B \in Lists, NEW k \in 1 .. Len(Want),
           NEW plan, NEW walk, WalkOK(B, plan, walk, k - 1)
    PROVE  WalkOK(B, PlanColumn(plan, k), PreviewColumn(walk, k), k)
<1> DEFINE new == Want[k]
           previous == Previous(Want, k)
           order == plan.order
           physical == walk.physical
           al == Aligned(B)
           rp == RenamedPhysical(B)
           plan2 == PlanColumn(plan, k)
           walk2 == PreviewColumn(walk, k)
<1>1. /\ plan \in Plans /\ walk \in Walks /\ plan.order = walk.order
      /\ order \in Lists /\ NameSet(order) = NameSet(al) \cup DoneNames(k - 1)
      /\ \A c \in Column : c.name \notin DoneNames(k - 1) => (c \in ToSet(order) <=> c \in ToSet(al))
      /\ physical \in Lists /\ physical # <<>>
      /\ NameSet(physical) = NameSet(rp) \cup DoneNames(k - 1)
      /\ ToSet(physical) = ToSet(rp) \cup {Want[j] : j \in Missing(B, k - 1)}
      /\ AlterTable(rp, plan.adds) = physical
      /\ \A i \in 1 .. Len(plan.adds) : \E j \in Missing(B, k - 1) : plan.adds[i] = Add(j)
      /\ plan.adds = <<>> => Missing(B, k - 1) = {}
  BY DEF WalkOK
<1>2. /\ DoneNames(k) = DoneNames(k - 1) \cup {new.name} /\ new.name \notin DoneNames(k - 1)
      /\ previous = AtFront \/ previous \in DoneNames(k - 1)
  BY DoneFacts
<1>3. new \in Column /\ new.name \in NameSet(Want) /\ previous \in Position
  BY WantFacts, PreviousFacts
<1>4. /\ rp \in Lists /\ NameSet(rp) \cap NameSet(Want) = NameSet(al) \cap NameSet(Want)
  BY StartFacts
<1>5. plan.adds \in Seq(Action)
  BY <1>1 DEF Plans
<1>6. order \in Seq(Column) /\ Distinct(order) /\ physical \in Seq(Column) /\ Distinct(physical)
  BY <1>1 DEF Lists
<1>7. plan2 \in Plans /\ walk2 \in Walks
  BY <1>1, PlanColumnIs, PreviewColumnIs
<1>8. \A j : j \in Missing(B, k) <=> j \in Missing(B, k - 1) \/ (j = k /\ new.name \notin NameSet(al))
  BY DEF Missing
<1>9. CASE ~Has(order, new.name)
  <2>1. new.name \notin NameSet(al) /\ new.name \notin NameSet(order) /\ new.name \notin NameSet(physical)
    BY <1>1, <1>2, <1>3, <1>4, <1>9 DEF Has
  <2>2. /\ plan2.order = InsertAfter(order, new, previous)
        /\ plan2.adds = Append(plan.adds, Add(k))
        /\ walk2.order = InsertAfter(order, new, previous)
        /\ walk2.physical = InsertAfter(physical, new, previous)
    BY <1>1, <1>9, ColumnAdded, Zenon
  <2>3. /\ plan2.order \in Lists /\ NameSet(plan2.order) = NameSet(order) \cup {new.name}
        /\ ToSet(plan2.order) = ToSet(order) \cup {new}
    BY <1>3, <1>6, <2>1, <2>2, InsertFacts DEF Lists
  <2>4. /\ walk2.physical \in Lists /\ walk2.physical # <<>>
        /\ NameSet(walk2.physical) = NameSet(physical) \cup {new.name}
        /\ ToSet(walk2.physical) = ToSet(physical) \cup {new}
    BY <1>3, <1>6, <2>1, <2>2, InsertFacts DEF Lists
  <2>5. /\ Add(k) \in Action /\ Add(k).do = "add" /\ Add(k).column = new /\ Add(k).after = previous
    BY <1>3 DEF Add, Action
  <2>6. AlterTable(rp, plan2.adds) = walk2.physical
    <3>1. AlterTable(rp, Append(plan.adds, Add(k))) = Sent(physical, Add(k))
      BY <1>1, <1>4, <1>5, <2>5, AlterAppend
    <3>2. Accepts(physical, Add(k))
      <4>1. Add(k).after = AtFront \/ Has(physical, Add(k).after)
        BY <1>1, <1>2, <2>5 DEF Has
      <4> QED  BY <2>5, <4>1, Zenon DEF Accepts
    <3>3. Sent(physical, Add(k)) = Apply(physical, Add(k))
      BY <1>1, <2>5, <3>2, SentFacts DEF Rejected
    <3>4. ~Has(physical, Add(k).column.name)
      BY <2>1, <2>5 DEF Has
    <3>5. Apply(physical, Add(k)) = InsertAfter(physical, Add(k).column, Add(k).after)
      BY <1>1, <2>5, <3>4, ApplyAdd
    <3> QED  BY <2>2, <2>5, <3>1, <3>3, <3>5
  <2>7. \A c \in Column : c.name \notin DoneNames(k) => (c \in ToSet(plan2.order) <=> c \in ToSet(al))
    BY <1>1, <1>2, <2>3
  <2>8. \A j : j \in Missing(B, k) <=> j \in Missing(B, k - 1) \/ j = k
    BY <1>8, <2>1
  <2>9. ToSet(walk2.physical) = ToSet(rp) \cup {Want[j] : j \in Missing(B, k)}
    <3>1. {Want[j] : j \in Missing(B, k)} = {Want[j] : j \in Missing(B, k - 1)} \cup {new}
      BY <2>8
    <3> QED  BY <1>1, <2>4, <3>1
  <2>10. \A i \in 1 .. Len(plan2.adds) : \E j \in Missing(B, k) : plan2.adds[i] = Add(j)
    <3> SUFFICES ASSUME NEW i \in 1 .. Len(plan2.adds)
                 PROVE  \E j \in Missing(B, k) : plan2.adds[i] = Add(j)
      OBVIOUS
    <3> HIDE DEF plan2
    <3>1. Len(plan.adds) \in Nat /\ Len(plan2.adds) = Len(plan.adds) + 1
      BY <1>5, <2>2
    <3>2. CASE i \in 1 .. Len(plan.adds)
      <4>1. plan2.adds[i] = plan.adds[i]
        BY <1>5, <2>2, <2>5, <3>2
      <4> QED  BY <1>1, <2>8, <3>2, <4>1
    <3>3. CASE i = Len(plan.adds) + 1
      <4>1. plan2.adds[i] = Add(k)
        BY <1>5, <2>2, <2>5, <3>3
      <4> QED  BY <2>8, <4>1
    <3> QED  BY <3>1, <3>2, <3>3
  <2>11. plan2.adds # <<>>
    BY <1>5, <2>2, <2>5
  <2> HIDE DEF plan2, walk2, order, physical, al, rp
  <2>12. /\ plan2.order = walk2.order
         /\ NameSet(plan2.order) = NameSet(al) \cup DoneNames(k)
         /\ NameSet(walk2.physical) = NameSet(rp) \cup DoneNames(k)
    BY <1>1, <1>2, <2>2, <2>3, <2>4
  <2> QED  BY <1>7, <2>3, <2>4, <2>6, <2>7, <2>9, <2>10, <2>11, <2>12
           DEF WalkOK, plan2, walk2, order, physical, al, rp
<1>10. CASE Has(order, new.name)
  <2>1. new.name \in NameSet(al) /\ new.name \in NameSet(rp)
    BY <1>1, <1>2, <1>3, <1>4, <1>10 DEF Has
  <2>2. /\ plan2.order = (IF Shift(order, k) THEN MoveAfter(order, new, previous) ELSE order)
        /\ plan2.adds = plan.adds
        /\ walk2.order = plan2.order
        /\ walk2.physical = physical
    BY <1>1, <1>10, ColumnFound, Zenon
  <2>3. /\ plan2.order \in Lists /\ NameSet(plan2.order) = NameSet(order)
        /\ \A c \in Column : c.name # new.name => (c \in ToSet(plan2.order) <=> c \in ToSet(order))
    <3>1. CASE Shift(order, k)
      <4>1. plan2.order = MoveAfter(order, new, previous)
        BY <2>2, <3>1
      <4>2. new.name \in NameSet(order)
        BY <1>10 DEF Has
      <4>3. /\ MoveAfter(order, new, previous) \in Seq(Column)
            /\ Distinct(MoveAfter(order, new, previous))
            /\ NameSet(MoveAfter(order, new, previous)) = NameSet(order) \cup {new.name}
            /\ ToSet(MoveAfter(order, new, previous)) = {d \in ToSet(order) : d.name # new.name} \cup {new}
        BY <1>3, <1>6, MoveFacts
      <4> QED  BY <4>1, <4>2, <4>3 DEF Lists
    <3>2. CASE ~Shift(order, k)
      BY <1>1, <2>2, <3>2
    <3> QED  BY <3>1, <3>2
  <2>4. Missing(B, k) = Missing(B, k - 1)
    BY <1>8, <2>1
  <2> HIDE DEF plan2, walk2, order, physical, al, rp
  <2>5. \A c \in Column : c.name \notin DoneNames(k) => (c \in ToSet(plan2.order) <=> c \in ToSet(al))
    BY <1>1, <1>2, <2>3
  <2>6. /\ NameSet(plan2.order) = NameSet(al) \cup DoneNames(k)
        /\ NameSet(physical) = NameSet(rp) \cup DoneNames(k)
    BY <1>1, <1>2, <2>1, <2>3
  <2>7. WalkOK(B, plan2, walk2, k)
    BY <1>1, <1>7, <2>2, <2>3, <2>4, <2>5, <2>6 DEF WalkOK, order, physical, al, rp
  <2> QED  BY <2>7 DEF plan2, walk2
<1> QED  BY <1>9, <1>10

LEMMA WalkInvariant ==
    ASSUME conf \in Configurations, NEW B \in Lists, B # <<>>, NEW f, NEW g, Folding(B, f, g)
    PROVE  \A k \in 0 .. Len(Want) : WalkOK(B, f[k], g[k], k)
<1> DEFINE n == Len(Want)
           S == {k \in 0 .. n : WalkOK(B, f[k], g[k], k)}
<1>1. n \in Nat
  BY WantFacts
<1>2. /\ f[0] = PlanStart(B) /\ g[0] = WalkStart(B)
      /\ \A k \in 1 .. n : f[k] = PlanColumn(f[k - 1], k) /\ g[k] = PreviewColumn(g[k - 1], k)
  BY DEF Folding
<1>3. 0 \in S
  BY <1>1, <1>2, WalkStarts
<1>4. ASSUME NEW k \in 1 .. n, k - 1 \in S PROVE k \in S
  <2>1. WalkOK(B, f[k - 1], g[k - 1], k - 1)
    BY <1>4
  <2>2. WalkOK(B, PlanColumn(f[k - 1], k), PreviewColumn(g[k - 1], k), k)
    BY <2>1, WalkStep, Zenon
  <2>3. k \in 0 .. n
    BY <1>1
  <2> QED  BY <1>2, <2>2, <2>3
<1>5. S \in SUBSET (0 .. n)
  OBVIOUS
<1> HIDE DEF S
<1>6. \A k \in 0 .. n : k \in S
  BY <1>1, <1>3, <1>4, <1>5, InductTo
<1> QED  BY <1>6 DEF S

-----------------------------------------------------------------------------
(* The group of the modifications.                                            *)

LEMMA AlterOne ==
    ASSUME NEW l \in Lists, NEW a \in Action
    PROVE  AlterTable(l, <<a>>) = Sent(l, a)
<1>1. <<a>> = Append(<<>>, a) /\ <<>> \in Seq(Action)
  OBVIOUS
<1>2. AlterTable(l, Append(<<>>, a)) = Sent(AlterTable(l, <<>>), a)
  BY <1>1, AlterAppend, Zenon
<1>3. AlterTable(l, <<>>) = l
  BY AlterNil, Zenon
<1> QED  BY <1>1, <1>2, <1>3

LEMMA MovedNil ==
    ASSUME NEW l \in Seq(Column)
    PROVE  Moved(l, <<>>) = l
<1>1. <<>> \in Seq(Move) /\ Len(<<>>) = 0
  OBVIOUS
<1>2. PICK f : /\ f[0] = l
               /\ \A k \in 1 .. Len(<<>>) : f[k - 1] \in Seq(Column) /\ f[k] = MoveAfter(f[k - 1], <<>>[k].column, <<>>[k].after)
               /\ Moved(l, <<>>) = f[Len(<<>>)]
               /\ Moved(l, <<>>) \in Seq(Column)
  BY <1>1, MovedFold, Zenon
<1> QED  BY <1>1, <1>2, Zenon

LEMMA MovedAppend ==
    ASSUME NEW l \in Seq(Column), NEW s \in Seq(Move), NEW m \in Move
    PROVE  /\ Moved(l, s) \in Seq(Column)
           /\ Moved(l, Append(s, m)) = MoveAfter(Moved(l, s), m.column, m.after)
<1> DEFINE h == Append(s, m)
           n == Len(s)
<1>1. /\ n \in Nat /\ h \in Seq(Move) /\ Len(h) = n + 1 /\ h[n + 1] = m
      /\ \A k \in 1 .. n : h[k] = s[k]
  OBVIOUS
<1> HIDE DEF h
<1>2. PICK f : /\ f[0] = l
               /\ \A k \in 1 .. Len(s) : f[k - 1] \in Seq(Column) /\ f[k] = MoveAfter(f[k - 1], s[k].column, s[k].after)
               /\ Moved(l, s) = f[Len(s)]
               /\ Moved(l, s) \in Seq(Column)
  BY MovedFold, Zenon
<1>3. PICK e : /\ e[0] = l
               /\ \A k \in 1 .. Len(h) : e[k - 1] \in Seq(Column) /\ e[k] = MoveAfter(e[k - 1], h[k].column, h[k].after)
               /\ Moved(l, h) = e[Len(h)]
               /\ Moved(l, h) \in Seq(Column)
  BY <1>1, MovedFold, Zenon
<1>4. \A k \in 0 .. n : e[k] = f[k]
  <2> DEFINE S == {k \in 0 .. n : e[k] = f[k]}
  <2>1. 0 \in S
    BY <1>1, <1>2, <1>3
  <2>2. ASSUME NEW k \in 1 .. n, k - 1 \in S PROVE k \in S
    BY <1>1, <1>2, <1>3, <2>2
  <2>3. S \in SUBSET (0 .. n)
    OBVIOUS
  <2> HIDE DEF S
  <2>4. \A k \in 0 .. n : k \in S
    BY <1>1, <2>1, <2>2, <2>3, InductTo
  <2> QED  BY <2>4 DEF S
<1>5. e[n + 1] = MoveAfter(e[n], m.column, m.after) /\ e[n] = f[n]
  BY <1>1, <1>3, <1>4
<1> QED  BY <1>1, <1>2, <1>3, <1>5 DEF h

Others(l, name) == {d \in ToSet(l) : d.name # name}

LEMMA RemoveSent ==
    ASSUME NEW l \in Lists, NEW old \in ToSet(l), old.kind = "DEFAULT", NEW a,
           a = [do |-> "remove", name |-> old.name, kind |-> old.kind]
    PROVE  /\ a \in Action
           /\ Sent(l, a) \in Lists /\ Sent(l, a) # Rejected /\ NamesOf(Sent(l, a)) = NamesOf(l)
           /\ ToSet(Sent(l, a)) = Others(l, old.name) \cup {[name |-> old.name, kind |-> "ordinary"]}
<1> DEFINE new == [name |-> old.name, kind |-> "ordinary"]
<1>1. old \in Column /\ \A d \in ToSet(l) : d.name = old.name => d = old
  BY Columns
<1>2. a \in Action /\ a.do = "remove" /\ a.name = old.name /\ a.kind = old.kind
  <2>1. old.name \in Names
    BY <1>1, ColumnFields
  <2> QED  BY <2>1 DEF Action
<1>3. [name |-> a.name, kind |-> a.kind] = old
  BY <1>1, <1>2 DEF Column
<1>4. Accepts(l, a)
  BY <1>2, <1>3, Zenon DEF Accepts
<1>5. l # Rejected
  BY NilFacts DEF Rejected
<1>6. Sent(l, a) = Apply(l, a)
  BY <1>2, <1>4, <1>5, SentFacts
<1>7. Swapped(l, Apply(l, a), old, new) /\ new \in Column
  <2>1. /\ [name |-> a.name, kind |-> "ordinary"] \in Column
        /\ Swapped(l, Apply(l, a), [name |-> a.name, kind |-> a.kind], [name |-> a.name, kind |-> "ordinary"])
    BY <1>2, <1>4, ApplyRemove
  <2> QED  BY <1>2, <1>3, <2>1
<1>8. new.name = old.name
  OBVIOUS
<1> HIDE DEF new
<1>9. /\ Apply(l, a) \in Lists /\ Apply(l, a) # <<>> /\ NamesOf(Apply(l, a)) = NamesOf(l)
      /\ ToSet(Apply(l, a)) = (ToSet(l) \ {old}) \cup {new}
  BY <1>1, <1>7, <1>8, SwapFacts
<1>10. ToSet(l) \ {old} = Others(l, old.name)
  BY <1>1 DEF Others
<1> QED  BY <1>2, <1>6, <1>9, <1>10 DEF Rejected, new

LEMMA ModifySent ==
    ASSUME NEW l \in Lists, NEW c \in ToSet(l), NEW new \in Column, new.name = c.name,
           NEW p \in Position, p \in {AtFront, Keep} \/ Has(l, p), NEW a,
           a = [do |-> "modify", column |-> new, after |-> p]
    PROVE  /\ a \in Action
           /\ Sent(l, a) \in Lists /\ Sent(l, a) # Rejected
           /\ NamesOf(Sent(l, a)) = IF p = Keep THEN NamesOf(l) ELSE NamesOf(MoveAfter(l, new, p))
           /\ ToSet(Sent(l, a)) = Others(l, new.name) \cup {Modified(c, new)}
<1>1. /\ c \in Column /\ \A d \in ToSet(l) : d.name = c.name => d = c
      /\ Has(l, new.name) /\ Lookup(l, new.name) = c /\ l \in Seq(Column) /\ Distinct(l)
  BY Columns
<1>2. a \in Action /\ a.do = "modify" /\ a.column = new /\ a.after = p
  BY DEF Action
<1>3. Accepts(l, a)
  <2>1. Has(l, a.column.name) /\ (a.after \in {AtFront, Keep} \/ Has(l, a.after))
    BY <1>1, <1>2
  <2> QED  BY <1>2, <2>1, Zenon DEF Accepts
<1>4. l # Rejected
  BY NilFacts DEF Rejected
<1>5. Sent(l, a) = Apply(l, a)
  BY <1>2, <1>3, <1>4, SentFacts
<1> DEFINE mod == Modified(c, new)
<1>6. /\ mod \in Column /\ mod.name = new.name
      /\ p = Keep => Swapped(l, Apply(l, a), c, mod)
      /\ p # Keep => Apply(l, a) = MoveAfter(l, mod, p)
  <2>1. Has(l, a.column.name)
    BY <1>1, <1>2
  <2>2. LET old == Lookup(l, a.column.name)
            m == Modified(old, a.column)
        IN  /\ m \in Column /\ m.name = a.column.name
            /\ a.after = Keep => Swapped(l, Apply(l, a), old, m)
            /\ a.after # Keep => Apply(l, a) = MoveAfter(l, m, a.after)
    BY <1>2, <2>1, ApplyModify
  <2> QED  BY <1>1, <1>2, <2>2
<1> HIDE DEF mod
<1>7. CASE p = Keep
  <2>1. Swapped(l, Apply(l, a), c, mod) /\ mod.name = c.name
    BY <1>6, <1>7
  <2>2. /\ Apply(l, a) \in Lists /\ Apply(l, a) # <<>> /\ NamesOf(Apply(l, a)) = NamesOf(l)
        /\ ToSet(Apply(l, a)) = (ToSet(l) \ {c}) \cup {mod}
    BY <1>1, <1>6, <2>1, SwapFacts
  <2>3. ToSet(l) \ {c} = Others(l, new.name)
    BY <1>1 DEF Others
  <2> QED  BY <1>2, <1>5, <1>7, <2>2, <2>3 DEF Rejected, mod
<1>8. CASE p # Keep
  <2>1. Apply(l, a) = MoveAfter(l, mod, p)
    BY <1>6, <1>8
  <2>2. /\ MoveAfter(l, mod, p) \in Seq(Column) /\ MoveAfter(l, mod, p) # <<>>
        /\ ToSet(MoveAfter(l, mod, p)) = {d \in ToSet(l) : d.name # mod.name} \cup {mod}
        /\ Distinct(MoveAfter(l, mod, p))
    BY <1>1, <1>6, MoveFacts
  <2>3. NamesOf(MoveAfter(l, mod, p)) = NamesOf(MoveAfter(l, new, p))
    BY <1>1, <1>6, MoveNames
  <2> QED  BY <1>2, <1>5, <1>6, <1>8, <2>1, <2>2, <2>3 DEF Rejected, mod, Others, Lists
<1> QED  BY <1>7, <1>8

(* What a turn of the loop plans for a column makes it the configured one,    *)
(* and moves it where the turn wants it.                                      *)
LEMMA ColumnChanged ==
    ASSUME NEW l \in Lists, NEW old \in ToSet(l), NEW new \in Column, new.name = old.name,
           ~(old.kind = "EPHEMERAL" /\ new.kind = "ordinary"),
           NEW moved \in BOOLEAN, NEW p \in Position, p # Keep, p = AtFront \/ Has(l, p),
           NEW m, m = AlterTable(AlterTable(l, RemoveExpression(old, new)), ModifyColumn(old, new, moved, p))
    PROVE  /\ m \in Lists /\ m # Rejected
           /\ NamesOf(m) = IF moved THEN NamesOf(MoveAfter(l, new, p)) ELSE NamesOf(l)
           /\ ToSet(m) = Others(l, new.name) \cup {new}
<1>1. old \in Column /\ \A d \in ToSet(l) : d.name = old.name => d = old
  BY Columns
<1>2. old.kind \in Kind /\ new.kind \in Kind
  BY <1>1, ColumnFields
<1>3. l # Rejected
  BY NilFacts DEF Rejected
<1> DEFINE first == AlterTable(l, RemoveExpression(old, new))
<1>4. \E c \in Column :
         /\ first \in Lists /\ first # Rejected /\ NamesOf(first) = NamesOf(l)
         /\ ToSet(first) = Others(l, new.name) \cup {c} /\ c.name = new.name
         /\ c.kind = IF old.kind = "DEFAULT" /\ new.kind # "DEFAULT" THEN "ordinary" ELSE old.kind
  <2>1. CASE old.kind = "DEFAULT" /\ new.kind # "DEFAULT"
    <3> DEFINE a == [do |-> "remove", name |-> old.name, kind |-> old.kind]
               c == [name |-> old.name, kind |-> "ordinary"]
    <3>1. RemoveExpression(old, new) = <<a>>
      BY <2>1 DEF RemoveExpression
    <3>2. /\ a \in Action
          /\ Sent(l, a) \in Lists /\ Sent(l, a) # Rejected /\ NamesOf(Sent(l, a)) = NamesOf(l)
          /\ ToSet(Sent(l, a)) = Others(l, old.name) \cup {c}
      BY <2>1, RemoveSent
    <3>3. c \in Column /\ c.name = new.name /\ c.kind = "ordinary"
      <4>1. old.name \in Names
        BY <1>1, ColumnFields
      <4> QED  BY <4>1 DEF Column, Kind
    <3> HIDE DEF a, c
    <3>4. first = Sent(l, a)
      BY <3>1, <3>2, AlterOne
    <3> QED  BY <2>1, <3>2, <3>3, <3>4
  <2>2. CASE ~(old.kind = "DEFAULT" /\ new.kind # "DEFAULT")
    <3>1. RemoveExpression(old, new) = <<>>
      BY <2>2 DEF RemoveExpression
    <3>2. AlterTable(l, <<>>) = l
      BY AlterNil, Zenon
    <3>3. ToSet(l) = Others(l, new.name) \cup {old}
      BY <1>1 DEF Others
    <3> QED  BY <1>1, <1>3, <2>2, <3>1, <3>2, <3>3
  <2> QED  BY <2>1, <2>2
<1> HIDE DEF first
<1>5. PICK c \in Column :
         /\ first \in Lists /\ first # Rejected /\ NamesOf(first) = NamesOf(l)
         /\ ToSet(first) = Others(l, new.name) \cup {c} /\ c.name = new.name
         /\ c.kind = IF old.kind = "DEFAULT" /\ new.kind # "DEFAULT" THEN "ordinary" ELSE old.kind
  BY <1>4, Zenon
<1>6. first \in Seq(Column) /\ l \in Seq(Column)
  BY <1>5 DEF Lists
<1>7. Others(first, new.name) = Others(l, new.name)
  BY <1>5 DEF Others
<1>8. Modified(c, new) = IF new.kind = "ordinary" /\ c.kind # "ordinary" THEN Modified(c, new) ELSE new
  <2>1. Modified(c, new) \in Column /\ Modified(c, new).name = new.name
        /\ Modified(c, new).kind = IF new.kind = "ordinary" THEN c.kind ELSE new.kind
    BY ModifiedFacts
  <2> QED  BY <2>1, SameColumn
<1>9. Modified(c, new) = new
  BY <1>2, <1>5, <1>8 DEF Kind
<1>10. CASE moved \/ (new.kind # "ordinary" /\ old.kind # new.kind)
  <2> DEFINE after == IF moved THEN p ELSE Keep
             a == [do |-> "modify", column |-> new, after |-> after]
  <2>1. ModifyColumn(old, new, moved, p) = <<a>>
    BY <1>10 DEF ModifyColumn
  <2>2. after \in Position /\ (after \in {AtFront, Keep} \/ Has(first, after))
    <3>1. Has(first, p) <=> Has(l, p)
      BY <1>5, <1>6, SameNames
    <3> QED  BY <3>1 DEF Position
  <2> HIDE DEF after
  <2>3. /\ a \in Action
        /\ Sent(first, a) \in Lists /\ Sent(first, a) # Rejected
        /\ NamesOf(Sent(first, a)) = IF after = Keep THEN NamesOf(first) ELSE NamesOf(MoveAfter(first, new, after))
        /\ ToSet(Sent(first, a)) = Others(first, new.name) \cup {Modified(c, new)}
    <3>1. c \in ToSet(first) /\ new.name = c.name
      BY <1>5
    <3> QED  BY <1>5, <2>2, <3>1, ModifySent
  <2> HIDE DEF a
  <2>4. m = Sent(first, a)
    BY <1>5, <2>1, <2>3, AlterOne DEF first
  <2>5. NamesOf(MoveAfter(first, new, p)) = NamesOf(MoveAfter(l, new, p))
    BY <1>5, <1>6, MoveNames
  <2>6. after = Keep <=> ~moved
    BY DEF after
  <2>7. moved => after = p
    BY DEF after
  <2> QED  BY <1>5, <1>7, <1>9, <2>3, <2>4, <2>5, <2>6, <2>7
<1>11. CASE ~(moved \/ (new.kind # "ordinary" /\ old.kind # new.kind))
  <2>1. ModifyColumn(old, new, moved, p) = <<>>
    BY <1>11 DEF ModifyColumn
  <2>2. m = first
    BY <1>5, <2>1, AlterNil DEF first
  <2>3. c.kind = new.kind
    BY <1>2, <1>5, <1>11 DEF Kind
  <2>4. c = new
    BY <1>5, <2>3, SameColumn
  <2> QED  BY <1>5, <1>11, <2>2, <2>4
<1> QED  BY <1>10, <1>11

(* The modifications against the moves of the preview: the same names in the  *)
(* same order, and the configured columns are there.                          *)
ModOK(Q, plan, walk, k) ==
    LET l == AlterTable(Q, plan.modifies)
        m == Moved(Q, walk.moves)
    IN  /\ l \in Lists /\ l # Rejected /\ m \in Lists /\ NamesOf(l) = NamesOf(m)
        /\ NameSet(l) = NameSet(Q)
        /\ \A c \in Column : c.name \notin DoneNames(k) =>
              (c \in ToSet(l) <=> c \in ToSet(Q)) /\ (c \in ToSet(m) <=> c \in ToSet(Q))
        /\ \A j \in 1 .. k : Want[j] \in ToSet(l)

(* No column has to lose an EPHEMERAL.                                        *)
NoEphemeral(B) ==
    \A c \in ToSet(Aligned(B)), d \in ToSet(Want) :
        c.name = d.name => ~(c.kind = "EPHEMERAL" /\ d.kind = "ordinary")

LEMMA ModStarts ==
    ASSUME conf \in Configurations, NEW B \in Lists, NEW Q \in Lists, Q # <<>>
    PROVE  ModOK(Q, PlanStart(B), WalkStart(B), 0)
<1>1. PlanStart(B).modifies = <<>> /\ WalkStart(B).moves = <<>>
  BY DEF PlanStart, WalkStart
<1>2. AlterTable(Q, <<>>) = Q
  BY AlterNil, Zenon
<1>3. Moved(Q, <<>>) = Q
  BY MovedNil DEF Lists
<1>4. \A j \in 1 .. 0 : FALSE
  OBVIOUS
<1> QED  BY <1>1, <1>2, <1>3, <1>4 DEF ModOK, Rejected

LEMMA ModStep ==
    ASSUME conf \in Configurations, NEW B \in Lists, NEW k \in 1 .. Len(Want), NoEphemeral(B),
           NEW plan, NEW walk, WalkOK(B, plan, walk, k - 1),
           NEW Q \in Lists, NameSet(Want) \subseteq NameSet(Q),
           ToSet(Q) = ToSet(RenamedPhysical(B)) \cup {Want[j] : j \in Missing(B, Len(Want))},
           ModOK(Q, plan, walk, k - 1)
    PROVE  ModOK(Q, PlanColumn(plan, k), PreviewColumn(walk, k), k)
<1> DEFINE new == Want[k]
           p == Previous(Want, k)
           order == plan.order
           l == AlterTable(Q, plan.modifies)
           m == Moved(Q, walk.moves)
           plan2 == PlanColumn(plan, k)
           walk2 == PreviewColumn(walk, k)
           l2 == AlterTable(Q, plan2.modifies)
           m2 == Moved(Q, walk2.moves)
<1>1. /\ plan \in Plans /\ walk \in Walks /\ plan.order = walk.order
      /\ order \in Lists /\ NameSet(order) = NameSet(Aligned(B)) \cup DoneNames(k - 1)
      /\ \A c \in Column : c.name \notin DoneNames(k - 1) => (c \in ToSet(order) <=> c \in ToSet(Aligned(B)))
  BY DEF WalkOK
<1>2. /\ l \in Lists /\ l # Rejected /\ m \in Lists /\ NamesOf(l) = NamesOf(m)
      /\ NameSet(l) = NameSet(Q)
      /\ \A c \in Column : c.name \notin DoneNames(k - 1) =>
            (c \in ToSet(l) <=> c \in ToSet(Q)) /\ (c \in ToSet(m) <=> c \in ToSet(Q))
      /\ \A j \in 1 .. (k - 1) : Want[j] \in ToSet(l)
  BY DEF ModOK
<1>3. /\ DoneNames(k) = DoneNames(k - 1) \cup {new.name} /\ new.name \notin DoneNames(k - 1)
      /\ DoneNames(k) \subseteq NameSet(Want)
      /\ p = AtFront \/ p \in DoneNames(k - 1)
  BY DoneFacts
<1>4. new \in Column /\ new \in ToSet(Want) /\ p \in Position /\ p # Keep
  <2>1. ToSet(Want) = {Want[i] : i \in 1 .. Len(Want)}
    BY WantFacts, NamesSeq
  <2> QED  BY <2>1, WantFacts, PreviousFacts
<1>5. \A j \in 1 .. k : j \in 1 .. (k - 1) \/ j = k
  BY WantFacts
<1>6. \A j \in 1 .. (k - 1) : Want[j].name # new.name /\ Want[j].name \in DoneNames(k - 1)
  BY <1>3 DEF DoneNames
<1>7. p = AtFront \/ Has(l, p)
  <2>1. DoneNames(k - 1) \subseteq NameSet(Q)
    BY <1>3
  <2> QED  BY <1>2, <1>3, <2>1 DEF Has
<1>8. plan.modifies \in Seq(Action) /\ walk.moves \in Seq(Move)
  BY <1>1 DEF Plans, Walks
<1>9. l \in Seq(Column) /\ m \in Seq(Column) /\ Q \in Seq(Column)
  BY <1>2 DEF Lists
<1>10. CASE ~Has(order, new.name)
  <2>1. plan2.modifies = plan.modifies /\ walk2.moves = walk.moves
    BY <1>1, <1>10, ColumnAdded, Zenon
  <2>2. k \in Missing(B, Len(Want))
    <3>1. new.name \notin NameSet(Aligned(B))
      BY <1>1, <1>10 DEF Has
    <3> QED  BY <3>1, WantFacts DEF Missing
  <2>3. new \in ToSet(l)
    BY <1>2, <1>3, <1>4, <2>2
  <2> HIDE DEF l, m
  <2>4. l2 = l /\ m2 = m
    BY <2>1 DEF l, m
  <2> HIDE DEF l2, m2
  <2>5. \A j \in 1 .. k : Want[j] \in ToSet(l)
    BY <1>2, <1>5, <2>3
  <2>6. \A c \in Column : c.name \notin DoneNames(k) =>
            (c \in ToSet(l) <=> c \in ToSet(Q)) /\ (c \in ToSet(m) <=> c \in ToSet(Q))
    BY <1>2, <1>3
  <2> QED  BY <1>2, <2>4, <2>5, <2>6 DEF ModOK, l2, m2
<1>11. CASE Has(order, new.name)
  <2> DEFINE old == Old(order, k)
             moved == Shift(order, k)
  <2>1. old \in ToSet(order) /\ old \in Column /\ old.name = new.name
    BY <1>1, <1>11, LookupFacts DEF Old, Lists
  <2>2. old \in ToSet(Aligned(B)) /\ ~(old.kind = "EPHEMERAL" /\ new.kind = "ordinary")
    BY <1>1, <1>3, <1>4, <2>1 DEF NoEphemeral
  <2>3. old \in ToSet(l)
    <3>1. ToSet(Aligned(B)) \subseteq ToSet(RenamedPhysical(B))
      BY StartFacts
    <3>2. old \in ToSet(Q)
      BY <2>2, <3>1
    <3> QED  BY <1>2, <1>3, <2>1, <3>2
  <2>4. /\ plan2.modifies = plan.modifies \o RemoveExpression(old, new) \o ModifyColumn(old, new, moved, p)
        /\ walk2.moves = (IF moved THEN Append(walk.moves, [column |-> new, after |-> p]) ELSE walk.moves)
    BY <1>1, <1>11, ColumnFound, Zenon
  <2>5. RemoveExpression(old, new) \in Seq(Action) /\ ModifyColumn(old, new, moved, p) \in Seq(Action)
    BY <1>4, <2>1, ModificationTypes
  <2>6. l2 = AlterTable(AlterTable(l, RemoveExpression(old, new)), ModifyColumn(old, new, moved, p))
    <3> DEFINE r == RemoveExpression(old, new)
               y == ModifyColumn(old, new, moved, p)
    <3>1. r \in Seq(Action) /\ y \in Seq(Action)
      BY <2>5
    <3>2. plan2.modifies = (plan.modifies \o r) \o y
      BY <2>4
    <3> HIDE DEF r, y
    <3>3. plan.modifies \o r \in Seq(Action)
      BY <1>8, <3>1
    <3>4. AlterTable(Q, plan.modifies \o r) = AlterTable(AlterTable(Q, plan.modifies), r)
      BY <1>8, <3>1, AlterConcat, Zenon
    <3>5. AlterTable(Q, (plan.modifies \o r) \o y) = AlterTable(AlterTable(Q, plan.modifies \o r), y)
      BY <3>1, <3>3, AlterConcat, Zenon
    <3>6. l2 = AlterTable(AlterTable(l, r), y)
      BY <3>2, <3>4, <3>5
    <3> QED  BY <3>6 DEF r, y
  <2>7. moved \in BOOLEAN
    BY DEF Shift
  <2>8. m2 = IF moved THEN MoveAfter(m, new, p) ELSE m
    <3> DEFINE step == [column |-> new, after |-> p]
    <3>1. step \in Move /\ step.column = new /\ step.after = p
      BY <1>4 DEF Move
    <3> HIDE DEF step
    <3>2. Moved(Q, Append(walk.moves, step)) = MoveAfter(Moved(Q, walk.moves), step.column, step.after)
      BY <1>8, <1>9, <3>1, MovedAppend
    <3>3. walk2.moves = (IF moved THEN Append(walk.moves, step) ELSE walk.moves)
      BY <2>4 DEF step
    <3> QED  BY <3>1, <3>2, <3>3
  <2> HIDE DEF old, moved, l, l2, m, m2
  <2>9. /\ l2 \in Lists /\ l2 # Rejected
        /\ NamesOf(l2) = IF moved THEN NamesOf(MoveAfter(l, new, p)) ELSE NamesOf(l)
        /\ ToSet(l2) = Others(l, new.name) \cup {new}
    BY <1>2, <1>4, <1>7, <2>1, <2>2, <2>3, <2>6, <2>7, ColumnChanged
  <2>10. NamesOf(l2) = NamesOf(m2)
    <3>1. NamesOf(MoveAfter(l, new, p)) = NamesOf(MoveAfter(m, new, p))
      BY <1>2, <1>4, <1>9, MoveNames
    <3> QED  BY <1>2, <2>8, <2>9, <3>1
  <2>11. /\ m2 \in Lists /\ \A c \in Column : c.name # new.name => (c \in ToSet(m2) <=> c \in ToSet(m))
    <3>1. /\ MoveAfter(m, new, p) \in Seq(Column)
          /\ ToSet(MoveAfter(m, new, p)) = {d \in ToSet(m) : d.name # new.name} \cup {new}
          /\ Distinct(m) => Distinct(MoveAfter(m, new, p))
      BY <1>4, <1>9, MoveFacts
    <3>2. MoveAfter(m, new, p) \in Lists
      BY <1>2, <3>1 DEF Lists
    <3> QED  BY <1>2, <2>8, <3>1, <3>2
  <2>12. \A j \in 1 .. k : Want[j] \in ToSet(l2)
    BY <1>2, <1>5, <1>6, <2>9 DEF Others
  <2>13. \A c \in Column : c.name \notin DoneNames(k) =>
            (c \in ToSet(l2) <=> c \in ToSet(Q)) /\ (c \in ToSet(m2) <=> c \in ToSet(Q))
    BY <1>2, <1>3, <2>9, <2>11 DEF Others
  <2>14. NameSet(l2) = NameSet(Q)
    <3>1. /\ NameSet(l2) = {c.name : c \in ToSet(l2)} /\ NameSet(l) = {c.name : c \in ToSet(l)}
      BY <1>2, <2>9, Columns
    <3> QED  BY <1>2, <2>1, <2>3, <2>9, <3>1 DEF Others
  <2> QED  BY <2>9, <2>10, <2>11, <2>12, <2>13, <2>14 DEF ModOK, l2, m2
<1> QED  BY <1>10, <1>11

LEMMA ModInvariant ==
    ASSUME conf \in Configurations, NEW B \in Lists, B # <<>>, NoEphemeral(B),
           NEW f, NEW g, Folding(B, f, g)
    PROVE  \A k \in 0 .. Len(Want) : ModOK(Walked(B).physical, f[k], g[k], k)
<1> DEFINE n == Len(Want)
           Q == Walked(B).physical
           S == {k \in 0 .. n : ModOK(Q, f[k], g[k], k)}
<1>1. n \in Nat /\ n \in 0 .. n
  BY WantFacts
<1>2. /\ f[0] = PlanStart(B) /\ g[0] = WalkStart(B)
      /\ \A k \in 1 .. n : f[k] = PlanColumn(f[k - 1], k) /\ g[k] = PreviewColumn(g[k - 1], k)
      /\ Walked(B) = g[n]
  BY DEF Folding
<1>3. \A k \in 0 .. n : WalkOK(B, f[k], g[k], k)
  BY WalkInvariant, Zenon
<1>4. /\ Q \in Lists /\ Q # <<>> /\ NameSet(Q) = NameSet(RenamedPhysical(B)) \cup DoneNames(n)
      /\ ToSet(Q) = ToSet(RenamedPhysical(B)) \cup {Want[j] : j \in Missing(B, n)}
  BY <1>1, <1>2, <1>3 DEF WalkOK
<1>5. NameSet(Want) \subseteq NameSet(Q)
  BY <1>4, WantFacts DEF DoneNames
<1> HIDE DEF Q
<1>6. 0 \in S
  BY <1>1, <1>2, <1>4, ModStarts
<1>7. ASSUME NEW k \in 1 .. n, k - 1 \in S PROVE k \in S
  <2>1. ModOK(Q, f[k - 1], g[k - 1], k - 1) /\ k \in 0 .. n /\ k - 1 \in 0 .. n
    BY <1>1, <1>7
  <2>2. WalkOK(B, f[k - 1], g[k - 1], k - 1)
    BY <1>3, <2>1
  <2>3. ModOK(Q, PlanColumn(f[k - 1], k), PreviewColumn(g[k - 1], k), k)
    BY <1>4, <1>5, <2>1, <2>2, ModStep, Zenon
  <2> QED  BY <1>2, <2>1, <2>3
<1>8. S \in SUBSET (0 .. n)
  OBVIOUS
<1> HIDE DEF S
<1>9. \A k \in 0 .. n : k \in S
  BY <1>1, <1>6, <1>7, <1>8, InductTo
<1> QED  BY <1>9 DEF S, Q

-----------------------------------------------------------------------------
(* The group of the drops, and the preview.                                   *)

DropList(gone) == [i \in DOMAIN gone |-> [do |-> "drop", name |-> gone[i].name]]

LEMMA DropListFacts ==
    ASSUME NEW g \in Seq(Column)
    PROVE  /\ DropList(g) \in Seq(Action) /\ Len(DropList(g)) = Len(g)
           /\ \A i \in 1 .. Len(g) : DropList(g)[i] = [do |-> "drop", name |-> g[i].name]
<1>1. DOMAIN g = 1 .. Len(g) /\ Len(g) \in Nat /\ \A i \in 1 .. Len(g) : g[i].name \in Names
  BY NamesSeq
<1>2. \A i \in 1 .. Len(g) : [do |-> "drop", name |-> g[i].name] \in Action
  BY <1>1 DEF Action
<1>3. DropList(g) \in [1 .. Len(g) -> Action]
  BY <1>1, <1>2 DEF DropList
<1> QED  BY <1>1, <1>3 DEF DropList

LEMMA DropListAppend ==
    ASSUME NEW g \in Seq(Column), NEW c \in Column
    PROVE  DropList(Append(g, c)) = Append(DropList(g), [do |-> "drop", name |-> c.name])
<1> DEFINE h == Append(g, c)
           n == Len(g)
           a == [do |-> "drop", name |-> c.name]
<1>1. n \in Nat /\ h \in Seq(Column) /\ Len(h) = n + 1 /\ h[n + 1] = c /\ \A i \in 1 .. n : h[i] = g[i]
  OBVIOUS
<1> HIDE DEF h
<1>2. /\ DropList(h) \in Seq(Action) /\ Len(DropList(h)) = n + 1
      /\ \A i \in 1 .. (n + 1) : DropList(h)[i] = [do |-> "drop", name |-> h[i].name]
  BY <1>1, DropListFacts
<1>3. /\ DropList(g) \in Seq(Action) /\ Len(DropList(g)) = n
      /\ \A i \in 1 .. n : DropList(g)[i] = [do |-> "drop", name |-> g[i].name]
  BY DropListFacts
<1>4. a \in Action
  BY ColumnFields DEF Action
<1> DEFINE s == Append(DropList(g), a)
<1>5. /\ s \in Seq(Action) /\ Len(s) = n + 1 /\ s[n + 1] = a
      /\ \A i \in 1 .. n : s[i] = DropList(g)[i]
  BY <1>3, <1>4
<1> HIDE DEF s
<1>6. \A i \in 1 .. (n + 1) : DropList(h)[i] = s[i]
  <2>1. \A i \in 1 .. n : i \in 1 .. (n + 1)
    BY <1>1
  <2>2. \A i \in 1 .. n : DropList(h)[i] = s[i]
    BY <1>1, <1>2, <1>3, <1>5, <2>1
  <2>3. n + 1 \in 1 .. (n + 1)
    BY <1>1
  <2>4. DropList(h)[n + 1] = s[n + 1]
    BY <1>1, <1>2, <1>5, <2>3
  <2> QED  BY <1>1, <2>2, <2>4
<1> DEFINE t == DropList(h)
<1>7. t \in Seq(Action) /\ Len(t) = Len(s) /\ \A i \in 1 .. Len(t) : t[i] = s[i]
  BY <1>2, <1>5, <1>6
<1> HIDE DEF t
<1>8. t = s
  BY <1>5, <1>7
<1> QED  BY <1>8 DEF t, s, h

LEMMA DropAll ==
    ASSUME NEW l \in Lists, NEW gone \in Seq(Column), NEW name \in NameSet(l), name \notin NameSet(gone)
    PROVE  AlterTable(l, DropList(gone)) = Only(l, Names \ NameSet(gone))
<1> DEFINE Left(g) == Names \ NameSet(g)
           S == {g \in Seq(Column) : name \notin NameSet(g) =>
                    AlterTable(l, DropList(g)) = Only(l, Left(g))}
<1>0. l \in Seq(Column) /\ NameSet(l) \subseteq Names
  BY NamesSeq DEF Lists
<1>1. <<>> \in S
  <2>1. DropList(<<>>) = <<>>
    <3>1. <<>> \in Seq(Column) /\ Len(<<>>) = 0
      OBVIOUS
    <3>2. DropList(<<>>) \in Seq(Action) /\ Len(DropList(<<>>)) = 0
      BY <3>1, DropListFacts
    <3> QED  BY <3>2
  <2>2. Only(l, Left(<<>>)) = l
    BY <1>0, NilFacts, OnlyAll
  <2>3. AlterTable(l, <<>>) = l
    BY AlterNil, Zenon
  <2>4. <<>> \in Seq(Column)
    OBVIOUS
  <2> QED  BY <2>1, <2>2, <2>3, <2>4
<1>2. ASSUME NEW g \in S, NEW c \in Column PROVE Append(g, c) \in S
  <2> DEFINE a == [do |-> "drop", name |-> c.name]
             h == Append(g, c)
  <2>1. g \in Seq(Column) /\ h \in Seq(Column) /\ NameSet(h) = NameSet(g) \cup {c.name}
    BY AppendFacts
  <2>2. ASSUME name \notin NameSet(h)
        PROVE  AlterTable(l, DropList(h)) = Only(l, Left(h))
    <3> DEFINE r == Only(l, Left(g))
    <3>1. AlterTable(l, DropList(g)) = r
      BY <2>1, <2>2
    <3>2. a \in Action /\ a.do = "drop" /\ a.name = c.name
      BY ColumnFields DEF Action
    <3>3. DropList(h) = Append(DropList(g), a) /\ DropList(g) \in Seq(Action)
      BY <2>1, DropListAppend, DropListFacts
    <3> HIDE DEF a, h
    <3>4. AlterTable(l, Append(DropList(g), a)) = Sent(AlterTable(l, DropList(g)), a)
      BY <3>2, <3>3, AlterAppend, Zenon
    <3>5. r \in Lists /\ name \in NameSet(r)
      <4>1. NameSet(r) = NameSet(l) \cap Left(g)
        BY <1>0, OnlyMembers
      <4>2. r \in Lists
        BY OnlyInLists
      <4> QED  BY <1>0, <2>1, <2>2, <4>1, <4>2
    <3>6. r # Rejected
      BY <3>5, NilFacts DEF Rejected
    <3>7. Sent(r, a) = Apply(r, a)
      <4>1. Accepts(r, a)
        BY <3>2, Zenon DEF Accepts
      <4> QED  BY <3>2, <3>5, <3>6, <4>1, SentFacts
    <3>8. Apply(r, a) = Without(r, c.name)
      BY <3>2, <3>5, ApplyDrop
    <3>9. Without(r, c.name) = Only(l, Left(g) \cap (Names \ {c.name}))
      BY <1>0, OnlyTwice DEF Without
    <3>10. Left(g) \cap (Names \ {c.name}) = Left(h)
      BY <2>1
    <3> QED  BY <3>1, <3>3, <3>4, <3>7, <3>8, <3>9, <3>10
  <2> QED  BY <2>1, <2>2
<1>3. S \in SUBSET Seq(Column)
  OBVIOUS
<1> HIDE DEF S
<1>4. Seq(Column) \subseteq S
  BY <1>1, <1>2, <1>3, SeqInduct
<1> QED  BY <1>4 DEF S

(* The groups of a plan, one after another, from the table it was made for.   *)
PlanRun(B, l1, l2, l3) ==
    /\ Renames(Current(B)) \in Seq(Action) /\ Planned(B) \in Plans /\ Drops(Aligned(B)) \in Seq(Action)
    /\ l1 = AlterTable(B, Renames(Current(B))) /\ l1 \in Lists /\ l1 # Rejected
    /\ l2 = AlterTable(l1, Planned(B).adds) /\ l2 \in Lists /\ l2 # Rejected
    /\ l3 = AlterTable(l2, Planned(B).modifies) /\ l3 \in Lists /\ l3 # Rejected
    /\ PreviewTable(B) = AlterTable(l3, Drops(Aligned(B)))
    /\ PreviewTable(B) \in Lists /\ PreviewTable(B) # Rejected

Gone(B) == NameSet(Aligned(B)) \ NameSet(Want)

LEMMA PreviewRuns ==
    ASSUME conf \in Configurations, NEW B \in Lists, B # <<>>, ~ReplaceRequired(B)
    PROVE  LET Q == Walked(B).physical
               m == Moved(Q, Walked(B).moves)
               l == AlterTable(Q, Planned(B).modifies)
           IN  /\ PlanRun(B, RenamedPhysical(B), Q, l)
               /\ WalkOK(B, Planned(B), Walked(B), Len(Want))
               /\ ModOK(Q, Planned(B), Walked(B), Len(Want))
               /\ PreviewTable(B) = Only(l, Names \ Gone(B))
<1> DEFINE n == Len(Want)
           plan == Planned(B)
           walk == Walked(B)
           Q == walk.physical
           l == AlterTable(Q, plan.modifies)
           m == Moved(Q, walk.moves)
           al == Aligned(B)
<1>1. NoEphemeral(B)
  BY DEF NoEphemeral, ReplaceRequired
<1>2. PICK f, g : Folding(B, f, g)
  BY FoldingExists, Zenon
<1>3. n \in Nat /\ n \in 0 .. n /\ Want \in Lists /\ Want # <<>> /\ NameSet(Want) \subseteq Names
  BY WantFacts
<1>4. plan = f[n] /\ walk = g[n] /\ plan \in Plans /\ walk \in Walks
  BY <1>2 DEF Folding
<1>5. WalkOK(B, plan, walk, n)
  <2>1. \A k \in 0 .. n : WalkOK(B, f[k], g[k], k)
    BY <1>2, WalkInvariant, Zenon
  <2> QED  BY <1>3, <1>4, <2>1
<1>6. ModOK(Q, plan, walk, n)
  <2>1. \A k \in 0 .. n : ModOK(Q, f[k], g[k], k)
    BY <1>1, <1>2, ModInvariant, Zenon
  <2> QED  BY <1>3, <1>4, <2>1
<1>7. DoneNames(n) = NameSet(Want)
  BY WantFacts DEF DoneNames
<1>8. /\ Q \in Lists /\ Q # Rejected /\ Q = AlterTable(RenamedPhysical(B), plan.adds)
      /\ NameSet(Q) = NameSet(RenamedPhysical(B)) \cup NameSet(Want)
      /\ walk.order \in Lists /\ NameSet(walk.order) = NameSet(al) \cup NameSet(Want)
  BY <1>5, <1>7 DEF WalkOK, Rejected
<1>9. /\ l \in Lists /\ l # Rejected /\ m \in Lists /\ NamesOf(l) = NamesOf(m)
      /\ NameSet(l) = NameSet(Q)
      /\ \A c \in Column : c.name \notin NameSet(Want) =>
            (c \in ToSet(l) <=> c \in ToSet(Q)) /\ (c \in ToSet(m) <=> c \in ToSet(Q))
      /\ \A j \in 1 .. n : Want[j] \in ToSet(l)
  BY <1>6, <1>7 DEF ModOK
<1>10. /\ al \in Lists /\ RenamedPhysical(B) \in Lists /\ Renames(Current(B)) \in Seq(Action)
       /\ AlterTable(B, Renames(Current(B))) = RenamedPhysical(B)
  BY StartFacts
<1>11. RenamedPhysical(B) # Rejected
  <2>1. PICK i \in 1 .. Len(B) : TRUE
    BY DEF Lists
  <2>2. DOMAIN RenamedPhysical(B) = 1 .. Len(B)
    BY DEF RenamedPhysical, Lists
  <2>3. DOMAIN <<>> = {}
    OBVIOUS
  <2> QED  BY <2>1, <2>2, <2>3 DEF Rejected
<1> DEFINE S == Names \ Gone(B)
           gone == Dropped(al)
           kept == Only(m, S)
           left == Only(l, S)
<1>12. gone \in Seq(Column) /\ NameSet(gone) = Gone(B) /\ Drops(al) = DropList(gone)
  <2>1. al \in Seq(Column) /\ NameSet(al) \subseteq Names
    BY <1>10, NamesSeq DEF Lists
  <2>2. gone \in Seq(Column) /\ NameSet(gone) = NameSet(al) \cap Undeclared
    BY <2>1, OnlyMembers DEF Dropped
  <2>3. NameSet(al) \cap Undeclared = Gone(B)
    BY <2>1 DEF Undeclared, Gone
  <2>4. Drops(al) = DropList(gone)
    BY DEF Drops, DropList
  <2> QED  BY <2>2, <2>3, <2>4
<1>13. AlterTable(l, Drops(al)) = left
  <2>1. PICK name \in NameSet(Want) : TRUE
    <3>1. Want[1] \in Column /\ 1 \in 1 .. n /\ NameSet(Want) = {Want[i].name : i \in 1 .. n}
      BY WantFacts
    <3> QED  BY <3>1
  <2>2. name \in NameSet(l) /\ name \notin NameSet(gone)
    BY <1>8, <1>9, <1>12 DEF Gone
  <2> HIDE DEF gone, l
  <2>3. AlterTable(l, DropList(gone)) = Only(l, Names \ NameSet(gone))
    BY <1>9, <1>12, <2>2, DropAll, Zenon
  <2> QED  BY <1>12, <2>3 DEF l
<1>14. (Names \ NameSet(walk.order)) \cup NameSet(Want) = S
  BY <1>3, <1>8 DEF Gone
<1> HIDE DEF S
<1>15. PreviewTable(B) = [i \in DOMAIN kept |->
           IF Declared(kept[i].name) THEN Lookup(Want, kept[i].name) ELSE kept[i]]
  BY <1>14 DEF PreviewTable
<1>16. /\ kept \in Lists /\ left \in Lists /\ kept \in Seq(Column) /\ left \in Seq(Column)
       /\ ToSet(kept) \subseteq ToSet(m) /\ ToSet(left) \subseteq ToSet(l)
       /\ NamesOf(left) = NamesOf(kept)
       /\ NameSet(left) = NameSet(l) \cap S
  <2>1. l \in Seq(Column) /\ m \in Seq(Column)
    BY <1>9 DEF Lists
  <2> HIDE DEF l, m
  <2>2. kept \in Lists /\ left \in Lists
    BY <1>9, OnlyInLists DEF l, m
  <2>3. ToSet(kept) \subseteq ToSet(m) /\ ToSet(left) \subseteq ToSet(l) /\ NameSet(left) = NameSet(l) \cap S
    BY <2>1, OnlyMembers
  <2>4. NamesOf(left) = NamesOf(kept)
    BY <1>9, <2>1, OnlyNames DEF l, m
  <2> QED  BY <2>2, <2>3, <2>4 DEF Lists
<1> HIDE DEF kept, left, l, m
<1>17. Len(left) = Len(kept) /\ \A i \in 1 .. Len(left) : left[i].name = kept[i].name
  BY <1>16, SameNames
<1>18. \A c, d \in ToSet(l) : c.name = d.name => c = d
  BY <1>9, Columns DEF l
<1>19. ASSUME NEW i \in 1 .. Len(left)
       PROVE  left[i] = IF Declared(kept[i].name) THEN Lookup(Want, kept[i].name) ELSE kept[i]
  <2>1. left[i] \in ToSet(l) /\ left[i] \in Column /\ kept[i] \in ToSet(m) /\ kept[i] \in Column
        /\ left[i].name = kept[i].name
    <3>1. ToSet(left) = {left[j] : j \in 1 .. Len(left)} /\ ToSet(kept) = {kept[j] : j \in 1 .. Len(kept)}
      BY <1>16, NamesSeq
    <3> QED  BY <1>16, <1>17, <3>1
  <2>2. CASE Declared(kept[i].name)
    <3>1. Has(Want, kept[i].name)
      BY <2>2 DEF Declared
    <3>2. Lookup(Want, kept[i].name) \in ToSet(Want) /\ Lookup(Want, kept[i].name).name = kept[i].name
      BY <1>3, <3>1, LookupFacts DEF Lists
    <3>3. ToSet(Want) = {Want[j] : j \in 1 .. n}
      BY <1>3, NamesSeq DEF Lists
    <3>4. Lookup(Want, kept[i].name) \in ToSet(l)
      BY <1>9, <3>2, <3>3 DEF l
    <3> QED  BY <1>18, <2>1, <2>2, <3>2, <3>4
  <2>3. CASE ~Declared(kept[i].name)
    <3>1. kept[i].name \notin NameSet(Want)
      BY <2>3 DEF Declared, Has
    <3>2. kept[i] \in ToSet(l)
      BY <1>9, <2>1, <3>1 DEF l, m
    <3> QED  BY <1>18, <2>1, <2>3, <3>2
  <2> QED  BY <2>2, <2>3
<1>20. PreviewTable(B) = left
  <2>1. DOMAIN kept = 1 .. Len(left) /\ left = [i \in 1 .. Len(left) |-> left[i]]
    BY <1>16, <1>17
  <2> QED  BY <1>15, <1>19, <2>1
<1>21. left # Rejected
  <2>1. PICK name \in NameSet(Want) : TRUE
    <3>1. Want[1] \in Column /\ 1 \in 1 .. n /\ NameSet(Want) = {Want[i].name : i \in 1 .. n}
      BY WantFacts
    <3> QED  BY <3>1
  <2>2. name \in NameSet(left)
    BY <1>3, <1>8, <1>9, <1>16 DEF Gone, S, l
  <2> QED  BY <2>2, NilFacts DEF Rejected
<1>22. PlanRun(B, RenamedPhysical(B), Q, l)
  <2>1. Drops(al) \in Seq(Action)
    BY <1>12, DropListFacts
  <2>2. l = AlterTable(Q, plan.modifies) /\ l \in Lists /\ l # Rejected
    BY <1>9 DEF l
  <2>3. PreviewTable(B) = AlterTable(l, Drops(al))
    BY <1>13, <1>20 DEF l
  <2> QED  BY <1>4, <1>8, <1>10, <1>11, <1>16, <1>20, <1>21, <2>1, <2>2, <2>3 DEF PlanRun
<1>23. PreviewTable(B) = Only(l, Names \ Gone(B))
  BY <1>20 DEF left, S
<1> QED  BY <1>5, <1>6, <1>22, <1>23 DEF l

-----------------------------------------------------------------------------
(* A table, the groups still to send, and the table they lead to.             *)

Path(h, list, gs, final) ==
    /\ h[0] = list /\ h[Len(gs)] = final
    /\ \A k \in 0 .. Len(gs) : h[k] \in Lists /\ h[k] # Rejected
    /\ \A k \in 1 .. Len(gs) : h[k] = AlterTable(h[k - 1], gs[k])

Leads(list, gs, final) == \E h : Path(h, list, gs, final)

LEMMA LeadsNil ==
    ASSUME NEW l \in Lists, l # Rejected
    PROVE  Leads(l, <<>>, l)
<1> DEFINE h == [k \in {0} |-> l]
<1>1. Len(<<>>) = 0 /\ h[0] = l
  OBVIOUS
<1> HIDE DEF h
<1>2. Path(h, l, <<>>, l)
  BY <1>1 DEF Path
<1> QED  BY <1>2 DEF Leads

LEMMA LeadsEnd ==
    ASSUME NEW l, NEW final, Leads(l, <<>>, final)
    PROVE  l = final
<1>1. PICK h : Path(h, l, <<>>, final)
  BY DEF Leads
<1>2. Len(<<>>) = 0
  OBVIOUS
<1> QED  BY <1>1, <1>2 DEF Path

LEMMA LeadsHead ==
    ASSUME NEW l, NEW final, NEW gs \in Seq(Seq(Action)), gs # <<>>, Leads(l, gs, final)
    PROVE  /\ AlterTable(l, Head(gs)) # Rejected
           /\ Leads(AlterTable(l, Head(gs)), Tail(gs), final)
<1> DEFINE n == Len(gs)
           rest == Tail(gs)
<1>1. /\ n \in Nat /\ n >= 1 /\ Head(gs) = gs[1] /\ Len(rest) = n - 1
      /\ \A k \in 1 .. (n - 1) : rest[k] = gs[k + 1]
  OBVIOUS
<1>2. PICK h : Path(h, l, gs, final)
  BY DEF Leads
<1> HIDE DEF rest
<1>3. /\ h[0] = l /\ h[n] = final
      /\ \A k \in 0 .. n : h[k] \in Lists /\ h[k] # Rejected
      /\ \A k \in 1 .. n : h[k] = AlterTable(h[k - 1], gs[k])
  BY <1>2 DEF Path
<1>4. h[1] = AlterTable(l, Head(gs)) /\ h[1] # Rejected
  <2>1. 1 \in 1 .. n /\ 1 \in 0 .. n /\ 1 - 1 = 0
    BY <1>1
  <2> QED  BY <1>1, <1>3, <2>1
<1> DEFINE e == [k \in 0 .. (n - 1) |-> h[k + 1]]
<1>5. \A k \in 0 .. (n - 1) : e[k] = h[k + 1] /\ k + 1 \in 0 .. n
  BY <1>1
<1> HIDE DEF e
<1>6. e[0] = h[1] /\ e[n - 1] = final
  <2>1. 0 \in 0 .. (n - 1) /\ n - 1 \in 0 .. (n - 1) /\ 0 + 1 = 1 /\ (n - 1) + 1 = n
    BY <1>1
  <2> QED  BY <1>3, <1>5, <2>1
<1>7. \A k \in 0 .. (n - 1) : e[k] \in Lists /\ e[k] # Rejected
  BY <1>3, <1>5
<1>8. ASSUME NEW k \in 1 .. (n - 1) PROVE e[k] = AlterTable(e[k - 1], rest[k])
  <2>1. k \in 0 .. (n - 1) /\ k - 1 \in 0 .. (n - 1) /\ k + 1 \in 1 .. n /\ (k - 1) + 1 = k /\ (k + 1) - 1 = k
    BY <1>1
  <2>2. h[k + 1] = AlterTable(h[k], gs[k + 1])
    BY <1>3, <2>1
  <2> QED  BY <1>1, <1>5, <2>1, <2>2
<1>9. Path(e, h[1], rest, final)
  BY <1>1, <1>6, <1>7, <1>8 DEF Path
<1>10. Leads(h[1], rest, final)
  BY <1>9 DEF Leads
<1> QED  BY <1>4, <1>10 DEF rest

LEMMA LeadsGroup ==
    ASSUME NEW l, NEW gs \in Seq(Seq(Action)), NEW a \in Lists, Leads(l, gs, a),
           NEW g \in Seq(Action), NEW b \in Lists, b # Rejected, b = AlterTable(a, g)
    PROVE  gs \o Group(g) \in Seq(Seq(Action)) /\ Leads(l, gs \o Group(g), b)
<1>1. CASE g = <<>>
  <2>1. Group(g) = <<>> /\ gs \o <<>> = gs
    BY <1>1 DEF Group
  <2>2. b = a
    BY <1>1, AlterNil
  <2> QED  BY <2>1, <2>2
<1>2. CASE g # <<>>
  <2> DEFINE n == Len(gs)
             more == Append(gs, g)
  <2>1. Group(g) = <<g>> /\ gs \o <<g>> = Append(gs, g)
    BY <1>2 DEF Group
  <2>2. /\ n \in Nat /\ more \in Seq(Seq(Action)) /\ Len(more) = n + 1 /\ more[n + 1] = g
        /\ \A k \in 1 .. n : more[k] = gs[k]
    OBVIOUS
  <2>3. PICK h : Path(h, l, gs, a)
    BY DEF Leads
  <2> HIDE DEF more
  <2>4. /\ h[0] = l /\ h[n] = a
        /\ \A k \in 0 .. n : h[k] \in Lists /\ h[k] # Rejected
        /\ \A k \in 1 .. n : h[k] = AlterTable(h[k - 1], gs[k])
    BY <2>3 DEF Path
  <2> DEFINE e == [k \in 0 .. (n + 1) |-> IF k = n + 1 THEN b ELSE h[k]]
  <2>5. e[n + 1] = b /\ \A k \in 0 .. n : e[k] = h[k]
    BY <2>2
  <2> HIDE DEF e
  <2>6. e[0] = l
    BY <2>2, <2>4, <2>5
  <2>7. ASSUME NEW k \in 0 .. (n + 1) PROVE e[k] \in Lists /\ e[k] # Rejected
    <3>1. k \in 0 .. n \/ k = n + 1
      BY <2>2
    <3>2. CASE k \in 0 .. n
      <4>1. e[k] = h[k] /\ h[k] \in Lists /\ h[k] # Rejected
        BY <2>4, <2>5, <3>2
      <4> QED  BY <4>1
    <3>3. CASE k = n + 1
      <4>1. e[k] = b
        BY <2>5, <3>3
      <4> QED  BY <4>1
    <3> QED  BY <3>1, <3>2, <3>3
  <2>8. ASSUME NEW k \in 1 .. (n + 1) PROVE e[k] = AlterTable(e[k - 1], more[k])
    <3>1. k - 1 \in 0 .. n /\ (k \in 1 .. n \/ k = n + 1)
      BY <2>2
    <3>2. CASE k \in 1 .. n
      <4>1. k \in 0 .. n
        BY <2>2, <3>2
      <4> QED  BY <2>2, <2>4, <2>5, <3>1, <3>2, <4>1
    <3>3. CASE k = n + 1
      <4>1. k - 1 = n
        BY <2>2, <3>3
      <4> QED  BY <2>2, <2>4, <2>5, <3>1, <3>3, <4>1
    <3> QED  BY <3>1, <3>2, <3>3
  <2>9. Path(e, l, more, b)
    BY <2>2, <2>5, <2>6, <2>7, <2>8 DEF Path
  <2>10. Leads(l, more, b)
    BY <2>9 DEF Leads
  <2> QED  BY <2>1, <2>2, <2>10 DEF more
<1> QED  BY <1>1, <1>2

(* The action groups of a plan lead to its preview.                           *)
LEMMA PlanLeads ==
    ASSUME conf \in Configurations, NEW B \in Lists, B # <<>>, ~ReplaceRequired(B)
    PROVE  /\ ActionGroups(B) \in Seq(Seq(Action))
           /\ Leads(B, ActionGroups(B), PreviewTable(B))
           /\ PreviewTable(B) \in Lists /\ PreviewTable(B) # Rejected
<1> DEFINE r == Renames(Current(B))
           a == Planned(B).adds
           m == Planned(B).modifies
           d == Drops(Aligned(B))
           l1 == RenamedPhysical(B)
           l2 == Walked(B).physical
           l3 == AlterTable(l2, m)
           l4 == PreviewTable(B)
<1>1. PlanRun(B, l1, l2, l3)
  BY PreviewRuns
<1> HIDE DEF l1, l2, l3
<1>2. /\ r \in Seq(Action) /\ Planned(B) \in Plans /\ d \in Seq(Action)
      /\ l1 = AlterTable(B, r) /\ l1 \in Lists /\ l1 # Rejected
      /\ l2 = AlterTable(l1, a) /\ l2 \in Lists /\ l2 # Rejected
      /\ l3 = AlterTable(l2, m) /\ l3 \in Lists /\ l3 # Rejected
      /\ l4 = AlterTable(l3, d) /\ l4 \in Lists /\ l4 # Rejected
  BY <1>1 DEF PlanRun
<1>3. a \in Seq(Action) /\ m \in Seq(Action)
  BY <1>2 DEF Plans
<1>4. ActionGroups(B) = Group(r) \o Group(a) \o Group(m) \o Group(d)
  BY DEF ActionGroups, InGroups
<1> HIDE DEF r, a, m, d, l4
<1>5. <<>> \in Seq(Seq(Action)) /\ Leads(B, <<>>, B)
  BY LeadsNil DEF Rejected
<1>6. <<>> \o Group(r) \in Seq(Seq(Action)) /\ Leads(B, <<>> \o Group(r), l1)
  BY <1>2, <1>5, LeadsGroup
<1>7. <<>> \o Group(r) = Group(r)
  BY <1>2 DEF Group
<1>8. Group(r) \o Group(a) \in Seq(Seq(Action)) /\ Leads(B, Group(r) \o Group(a), l2)
  BY <1>2, <1>3, <1>6, <1>7, LeadsGroup
<1>9. Group(r) \o Group(a) \o Group(m) \in Seq(Seq(Action))
      /\ Leads(B, Group(r) \o Group(a) \o Group(m), l3)
  BY <1>2, <1>3, <1>8, LeadsGroup
<1>10. Group(r) \o Group(a) \o Group(m) \o Group(d) \in Seq(Seq(Action))
       /\ Leads(B, Group(r) \o Group(a) \o Group(m) \o Group(d), l4)
  BY <1>2, <1>3, <1>9, LeadsGroup
<1> QED  BY <1>2, <1>4, <1>10 DEF l4

-----------------------------------------------------------------------------
(* The order that the plan starts from is the order of the physical columns,  *)
(* when the order of the configuration counts.                                *)

Mapped(list, s) == [i \in DOMAIN list |-> s[list[i]]]

LEMMA MappedAppend ==
    ASSUME NEW s \in [Column -> Column], NEW l \in Seq(Column), NEW c \in Column
    PROVE  /\ Mapped(l, s) \in Seq(Column)
           /\ Mapped(Append(l, c), s) = Append(Mapped(l, s), s[c])
<1> DEFINE h == Append(l, c)
           n == Len(l)
           u == Mapped(l, s)
           v == Mapped(h, s)
           w == Append(u, s[c])
<1>1. n \in Nat /\ h \in Seq(Column) /\ Len(h) = n + 1 /\ h[n + 1] = c /\ \A i \in 1 .. n : h[i] = l[i]
  OBVIOUS
<1>2. DOMAIN l = 1 .. n /\ \A i \in 1 .. n : l[i] \in Column
  OBVIOUS
<1> HIDE DEF h
<1>3. u \in [1 .. n -> Column] /\ \A i \in 1 .. n : u[i] = s[l[i]]
  BY <1>2 DEF Mapped
<1>4. u \in Seq(Column) /\ Len(u) = n
  BY <1>1, <1>3
<1>5. DOMAIN h = 1 .. (n + 1) /\ \A i \in 1 .. (n + 1) : h[i] \in Column
  BY <1>1
<1>6. v \in [1 .. (n + 1) -> Column] /\ \A i \in 1 .. (n + 1) : v[i] = s[h[i]]
  BY <1>5 DEF Mapped
<1>7. v \in Seq(Column) /\ Len(v) = n + 1
  BY <1>1, <1>6
<1> HIDE DEF u, v
<1>8. w \in Seq(Column) /\ Len(w) = n + 1 /\ w[n + 1] = s[c] /\ \A i \in 1 .. n : w[i] = u[i]
  BY <1>4
<1> HIDE DEF w
<1>9. ASSUME NEW i \in 1 .. (n + 1) PROVE v[i] = w[i]
  <2>1. CASE i \in 1 .. n
    BY <1>1, <1>3, <1>6, <1>8, <2>1
  <2>2. CASE i = n + 1
    BY <1>1, <1>6, <1>8, <2>2
  <2> QED  BY <1>1, <2>1, <2>2
<1>10. v = w
  BY <1>7, <1>8, <1>9
<1> QED  BY <1>4, <1>10 DEF u, v, w, h

LEMMA OnlyMapped ==
    ASSUME NEW s \in [Column -> Column], NEW S, NEW R, NEW l \in Seq(Column),
           \A c \in ToSet(l) : s[c].name \in S <=> c.name \in R
    PROVE  Only(Mapped(l, s), S) = Mapped(Only(l, R), s)
<1> DEFINE Fits(k) == \A c \in ToSet(k) : s[c].name \in S <=> c.name \in R
           T == {k \in Seq(Column) : Fits(k) => Only(Mapped(k, s), S) = Mapped(Only(k, R), s)}
<1>1. <<>> \in T
  <2>1. Mapped(<<>>, s) = <<>>
    BY DEF Mapped
  <2>2. Only(<<>>, S) = <<>> /\ Only(<<>>, R) = <<>>
    BY OnlyNil
  <2>3. <<>> \in Seq(Column)
    OBVIOUS
  <2> QED  BY <2>1, <2>2, <2>3
<1>2. ASSUME NEW k \in T, NEW e \in Column PROVE Append(k, e) \in T
  <2>1. k \in Seq(Column) /\ Append(k, e) \in Seq(Column) /\ ToSet(Append(k, e)) = ToSet(k) \cup {e}
    BY AppendFacts
  <2>2. ASSUME Fits(Append(k, e))
        PROVE  Only(Mapped(Append(k, e), s), S) = Mapped(Only(Append(k, e), R), s)
    <3>1. Fits(k) /\ (s[e].name \in S <=> e.name \in R)
      BY <2>1, <2>2
    <3>2. Only(Mapped(k, s), S) = Mapped(Only(k, R), s)
      BY <3>1
    <3>3. Mapped(Append(k, e), s) = Append(Mapped(k, s), s[e]) /\ Mapped(k, s) \in Seq(Column)
      BY <2>1, MappedAppend
    <3>4. s[e] \in Column
      OBVIOUS
    <3>5. Only(Append(Mapped(k, s), s[e]), S) =
             IF s[e].name \in S THEN Append(Only(Mapped(k, s), S), s[e]) ELSE Only(Mapped(k, s), S)
      <4>1. ASSUME NEW w \in Seq(Column), NEW d \in Column
            PROVE  Only(Append(w, d), S) = IF d.name \in S THEN Append(Only(w, S), d) ELSE Only(w, S)
        BY OnlyAppend, ZenonT(30)
      <4> QED  BY <3>3, <3>4, <4>1
    <3>6. Only(Append(k, e), R) = IF e.name \in R THEN Append(Only(k, R), e) ELSE Only(k, R)
      BY <2>1, OnlyAppend, ZenonT(30)
    <3>7. Only(k, R) \in Seq(Column)
      BY <2>1, OnlyMembers
    <3>8. Mapped(Append(Only(k, R), e), s) = Append(Mapped(Only(k, R), s), s[e])
      BY <3>7, MappedAppend
    <3>9. CASE e.name \in R
      <4>1. Only(Mapped(Append(k, e), s), S) = Append(Only(Mapped(k, s), S), s[e])
        BY <3>1, <3>3, <3>5, <3>9
      <4>2. Mapped(Only(Append(k, e), R), s) = Append(Mapped(Only(k, R), s), s[e])
        BY <3>6, <3>8, <3>9
      <4> QED  BY <3>2, <4>1, <4>2
    <3>10. CASE e.name \notin R
      <4>1. Only(Mapped(Append(k, e), s), S) = Only(Mapped(k, s), S)
        BY <3>1, <3>3, <3>5, <3>10
      <4>2. Mapped(Only(Append(k, e), R), s) = Mapped(Only(k, R), s)
        BY <3>6, <3>10
      <4> QED  BY <3>2, <4>1, <4>2
    <3> QED  BY <3>9, <3>10
  <2> QED  BY <2>1, <2>2
<1>3. T \in SUBSET Seq(Column)
  OBVIOUS
<1> HIDE DEF T
<1>4. Seq(Column) \subseteq T
  BY <1>1, <1>2, <1>3, SeqInduct
<1>5. l \in T
  BY <1>4
<1> QED  BY <1>5 DEF T

LEMMA StartOrder ==
    ASSUME conf \in Configurations, ~conf.ignore, NEW B \in Lists
    PROVE  Only(RenamedPhysical(B), NameSet(Aligned(B))) = Aligned(B)
<1> DEFINE l == Current(B)
           n == Len(l)
           old == OldNames(l, n)
           al == Aligned(B)
           rp == RenamedPhysical(B)
           s == [c \in Column |-> IF c \in old THEN Want[At(l, c.name)] ELSE c]
<1>1. l = Only(B, ManagedNames)
  BY DEF Current, Managed, ManagedNames
<1>2. /\ l \in Lists /\ ToSet(l) = {c \in ToSet(B) : c.name \in ManagedNames}
  BY CurrentFacts
<1>3. /\ al \in Lists /\ NameSet(al) \subseteq ManagedNames
      /\ rp = RenamedPart(l, B, n) /\ al = RenamedPart(l, l, n)
  BY StartFacts
<1> HIDE DEF l, al, rp
<1>4. B \in Seq(Column) /\ l \in Seq(Column)
  BY <1>2 DEF Lists
<1>5. \A c \in old : c \in ToSet(l) /\ Want[At(l, c.name)] \in Column
  <2>1. ASSUME NEW j \in RenamedAt(l) PROVE l[j] \in ToSet(l) /\ Want[At(l, l[j].name)] \in Column
    BY <1>2, RenamedAtFacts, OldNameAt
  <2> QED  BY <2>1 DEF OldNames, RenamesUpTo
<1> HIDE DEF old
<1>6. s \in [Column -> Column]
  BY <1>5
<1>7. \A c \in Column : s[c] = IF c \in old THEN Want[At(l, c.name)] ELSE c
  OBVIOUS
<1> HIDE DEF s
<1>8. rp = Mapped(B, s) /\ al = Mapped(l, s)
  <2>1. \A i \in DOMAIN B : B[i] \in Column
    BY <1>4
  <2>2. \A i \in DOMAIN l : l[i] \in Column
    BY <1>4
  <2>3. rp = Mapped(B, s)
    BY <1>3, <1>7, <2>1 DEF RenamedPart, Mapped, old
  <2>4. al = Mapped(l, s)
    BY <1>3, <1>7, <2>2 DEF RenamedPart, Mapped, old
  <2> QED  BY <2>3, <2>4
<1>9. ASSUME NEW c \in ToSet(B) PROVE s[c].name \in NameSet(al) <=> c.name \in ManagedNames
  <2>1. c \in Column
    BY Columns
  <2>2. CASE c.name \in ManagedNames
    <3>1. c \in ToSet(l)
      BY <1>2, <2>2
    <3>2. PICK i \in 1 .. Len(l) : l[i] = c
      BY <1>4, <3>1, NamesSeq
    <3>3. al[i] = s[c] /\ i \in 1 .. Len(al)
      <4>1. DOMAIN al = 1 .. Len(al) /\ DOMAIN l = 1 .. Len(l)
        BY <1>3, <1>4 DEF Lists
      <4>2. DOMAIN al = DOMAIN l
        BY <1>8 DEF Mapped
      <4> QED  BY <1>8, <3>2, <4>1, <4>2 DEF Mapped
    <3>4. NameSet(al) = {al[j].name : j \in 1 .. Len(al)}
      BY <1>3, NamesSeq DEF Lists
    <3> QED  BY <2>2, <3>3, <3>4
  <2>3. CASE c.name \notin ManagedNames
    <3>1. c \notin old
      BY <1>2, <1>5, <2>3
    <3>2. s[c] = c
      BY <1>7, <2>1, <3>1
    <3> QED  BY <1>3, <2>3, <3>2
  <2> QED  BY <2>2, <2>3
<1>10. Only(Mapped(B, s), NameSet(al)) = Mapped(Only(B, ManagedNames), s)
  BY <1>4, <1>6, <1>9, OnlyMapped
<1> QED  BY <1>1, <1>8, <1>10 DEF al, rp

-----------------------------------------------------------------------------
(* The server takes what the provider and the other clients send.             *)

LEMMA OneColumn ==
    ASSUME NEW l \in Lists, NEW c \in ToSet(l), l # <<c>>
    PROVE  Without(l, c.name) \in Lists /\ Without(l, c.name) # <<>>
<1>1. l \in Seq(Column) /\ Distinct(l) /\ c \in Column
  BY Columns
<1>2. /\ Without(l, c.name) \in Seq(Column) /\ Distinct(Without(l, c.name))
      /\ NameSet(Without(l, c.name)) = NameSet(l) \ {c.name}
  BY <1>1, WithoutFacts
<1>3. ASSUME NameSet(l) \ {c.name} = {} PROVE FALSE
  <2>1. PICK i \in 1 .. Len(l) : l[i] = c
    BY <1>1, NamesSeq
  <2>2. \A j \in 1 .. Len(l) : l[j].name = l[i].name
    <3>1. \A j \in 1 .. Len(l) : l[j].name \in NameSet(l)
      BY <1>1, NamesSeq
    <3> QED  BY <1>3, <2>1, <3>1
  <2>3. \A j, k \in 1 .. Len(l) : j = k
    BY <1>1, <2>2, DistinctIs
  <2>4. Len(l) \in Nat /\ i = 1 /\ Len(l) = 1
    <3> DEFINE n == Len(l)
    <3>1. n \in Nat /\ 1 \in 1 .. n /\ n \in 1 .. n /\ i \in 1 .. n
      BY <1>1, <2>1
    <3>2. \A j, k \in 1 .. n : j = k
      BY <2>3
    <3> HIDE DEF n
    <3>3. i = 1 /\ n = 1
      BY <3>1, <3>2
    <3> QED  BY <3>1, <3>3 DEF n
  <2>5. l = <<l[1]>>
    BY <1>1, <2>4
  <2> QED  BY <2>1, <2>4, <2>5
<1>4. Without(l, c.name) # <<>>
  BY <1>2, <1>3, NilFacts
<1> QED  BY <1>2, <1>4 DEF Lists

LEMMA ColumnInserted ==
    ASSUME NEW l \in Lists, NEW c \in Column, NEW p, ~Has(l, c.name)
    PROVE  InsertAfter(l, c, p) \in Lists /\ InsertAfter(l, c, p) # <<>>
BY InsertFacts DEF Lists, Has

(* The types, with the names of every list distinct.                          *)
Typed ==
    /\ columns \in Lists /\ columns # <<>>
    /\ conf \in Configurations
    /\ running \in BOOLEAN /\ groups \in Seq(Seq(Action))
    /\ preview \in Lists /\ before \in Lists /\ before # <<>>
    /\ added \in BOOLEAN /\ disturbed \in BOOLEAN
    /\ last \in {"none", "applied", "failed", "rejected", "refused"}
    /\ drift \in 0 .. MaxDrift /\ faults \in 0 .. MaxFaults

LEMMA TypedTypeOK == Typed => TypeOK
BY DEF Typed, TypeOK, Lists

LEMMA TypedInit == Init => Typed
<1> SUFFICES ASSUME Init PROVE Typed
  OBVIOUS
<1>1. columns \in Lists /\ columns # <<>>
  BY ColumnAssumption DEF Init, Lists
<1>2. 0 \in 0 .. MaxDrift /\ 0 \in 0 .. MaxFaults
  BY ColumnAssumption
<1>3. groups \in Seq(Seq(Action))
  BY DEF Init
<1> HIDE DEF Lists
<1> QED  BY <1>1, <1>2, <1>3 DEF Init, Typed

LEMMA TypedNext == Typed /\ [Next]_vars => Typed'
<1> SUFFICES ASSUME Typed, [Next]_vars PROVE Typed'
  OBVIOUS
<1> USE DEF Typed
<1>1. \A g \in Seq(Action) : AlterTable(columns, g) \in Lists
  BY AlterTableFold
<1>2. groups # <<>> => Head(groups) \in Seq(Action) /\ Tail(groups) \in Seq(Seq(Action))
  BY HeadTailProperties
<1>3. groups # <<>> => Result \in Lists
  BY <1>1, <1>2 DEF Result
<1>4. <<>> \in Seq(Seq(Action))
  OBVIOUS
<1>5. CASE Reconcile
  <2>1. columns # <<>> /\ ~ReplaceRequired(columns)
    BY <1>5 DEF Reconcile
  <2>2. ActionGroups(columns) \in Seq(Seq(Action)) /\ PreviewTable(columns) \in Lists
    BY <2>1, PlanLeads
  <2> QED  BY <1>5, <2>2 DEF Reconcile
<1>6. CASE ReconcileRefused
  BY <1>6 DEF ReconcileRefused
<1>7. CASE SendGroup
  BY <1>2, <1>3, <1>7 DEF SendGroup, historyVars, Rejected
<1>8. CASE GroupRejected
  BY <1>4, <1>8 DEF GroupRejected, End
<1>9. CASE GroupFails
  <2>1. faults + 1 \in 0 .. MaxFaults
    BY <1>9, ColumnAssumption DEF GroupFails
  <2>2. columns' \in Lists /\ columns' # <<>>
    BY <1>3, <1>9 DEF GroupFails, Rejected
  <2> QED  BY <1>4, <1>9, <2>1, <2>2 DEF GroupFails, End
<1>10. CASE Reconciled
  BY <1>4, <1>10 DEF Reconciled, End
<1>11. CASE OtherClient
  <2>1. drift' \in 0 .. MaxDrift
    BY <1>11, ColumnAssumption DEF OtherClient
  <2>2. columns' \in Lists /\ columns' # <<>>
    <3>1. ASSUME NEW c \in Foreign, NEW p, ~Has(columns, c.name), columns' = InsertAfter(columns, c, p)
          PROVE  columns' \in Lists /\ columns' # <<>>
      BY <3>1, ColumnInserted, ColumnAssumption
    <3>2. ASSUME NEW c \in ToSet(columns), columns # <<c>>, columns' = Without(columns, c.name)
          PROVE  columns' \in Lists /\ columns' # <<>>
      BY <3>2, OneColumn
    <3> QED  BY <1>11, <3>1, <3>2 DEF OtherClient
  <2> QED  BY <1>11, <2>1, <2>2 DEF OtherClient, historyVars
<1>12. CASE UNCHANGED vars
  BY <1>12 DEF vars, historyVars
<1> QED  BY <1>5, <1>6, <1>7, <1>8, <1>9, <1>10, <1>11, <1>12 DEF Next, Provider

LEMMA SpecTyped == Spec => []Typed
BY TypedInit, TypedNext, PTL DEF Spec

(* The table always has columns, and no two of the same name; plan, preview   *)
(* and bookkeeping are of their types.                                        *)
THEOREM TypeCorrect == Spec => []TypeOK
BY SpecTyped, TypedTypeOK, PTL

-----------------------------------------------------------------------------
(* While nobody else changes the table, the groups still to send lead from    *)
(* what it is to what the preview shows.                                      *)

OnTheWay ==
    /\ running => last = "none"
    /\ running /\ ~disturbed => Leads(columns, groups, preview)
    /\ last = "applied" /\ ~disturbed => columns = preview
    /\ last = "rejected" => disturbed

LEMMA OnTheWayInit == Init => OnTheWay
BY DEF Init, OnTheWay

LEMMA OnTheWayNext == Typed /\ OnTheWay /\ [Next]_vars => OnTheWay'
<1> SUFFICES ASSUME Typed, OnTheWay, [Next]_vars PROVE OnTheWay'
  OBVIOUS
<1> USE DEF OnTheWay
<1>1. CASE Reconcile
  <2>1. Leads(columns, ActionGroups(columns), PreviewTable(columns))
    BY <1>1, PlanLeads DEF Reconcile, Typed
  <2> QED  BY <1>1, <2>1 DEF Reconcile
<1>2. CASE ReconcileRefused
  BY <1>2 DEF ReconcileRefused
<1>3. ASSUME running, ~disturbed, groups # <<>>
      PROVE  Result # Rejected /\ Leads(Result, Tail(groups), preview)
  BY <1>3, LeadsHead DEF Typed, Result
<1>4. CASE SendGroup
  BY <1>3, <1>4 DEF SendGroup, historyVars
<1>5. CASE GroupRejected
  BY <1>3, <1>5 DEF GroupRejected, End
<1>6. CASE GroupFails
  BY <1>6 DEF GroupFails, End
<1>7. CASE Reconciled
  <2>1. ~disturbed => columns = preview
    BY <1>7, LeadsEnd DEF Reconciled
  <2> QED  BY <1>7, <2>1 DEF Reconciled, End
<1>8. CASE OtherClient
  BY <1>8 DEF OtherClient, historyVars
<1>9. CASE UNCHANGED vars
  BY <1>9 DEF vars, historyVars
<1> QED  BY <1>1, <1>2, <1>4, <1>5, <1>6, <1>7, <1>8, <1>9 DEF Next, Provider

LEMMA SpecOnTheWay == Spec => []OnTheWay
BY SpecTyped, OnTheWayInit, OnTheWayNext, PTL DEF Spec

(* What the dry run shows is what an undisturbed apply leaves: every column,  *)
(* in its place, unmanaged ones too (previewUpdatedTable against the four     *)
(* groups of planTableUpdate).                                                *)
THEOREM PreviewKept == Spec => []PreviewAgrees
<1>1. OnTheWay => PreviewAgrees
  BY DEF OnTheWay, PreviewAgrees
<1> QED  BY <1>1, SpecOnTheWay, PTL

(* The server rejects no group unless another client changed the table after  *)
(* the plan was made: no group names a column that another has renamed,       *)
(* dropped or not yet added.                                                  *)
THEOREM NothingRejected == Spec => []StatementsAccepted
<1>1. OnTheWay => StatementsAccepted
  BY DEF OnTheWay, StatementsAccepted
<1> QED  BY <1>1, SpecOnTheWay, PTL

-----------------------------------------------------------------------------
(* The order that the plan arrives at.                                        *)

(* The order after the columns v are done and while the columns w are not:    *)
(* those done, then those of w that may not move, in the order of the         *)
(* configuration, then the rest.                                              *)
Parts(K, order, v, w, a, m, t) ==
    /\ order = Cat(a, Cat(m, t))
    /\ NamesOf(a) = NamesOf(v)
    /\ NamesOf(m) = NamesOf(Only(w, K))
    /\ NameSet(t) \cap NameSet(Want) \cap K = {}

Shape(K, order, v, w) == \E a, m, t \in Seq(Column) : Parts(K, order, v, w, a, m, t)

LEMMA Sides ==
    ASSUME NEW v \in Seq(Column), NEW c \in Column, NEW w \in Seq(Column), Distinct(Around(v, c, w))
    PROVE  c.name \notin NameSet(v) /\ c.name \notin NameSet(w)
BY AroundNames

(* A column that keeps its name keeps its place.                              *)
LEMMA ShapeKept ==
    ASSUME NEW K, NEW order \in Lists,
           NEW v \in Seq(Column), NEW c \in Column, NEW w \in Seq(Column), c.name \in K,
           NEW p, Ends(v, p), Shape(K, order, v, Headed(c, w))
    PROVE  /\ Has(order, c.name) /\ InPosition(order, c.name, p)
           /\ Shape(K, order, Append(v, c), w)
<1>1. PICK a, m, t \in Seq(Column) : Parts(K, order, v, Headed(c, w), a, m, t)
  BY DEF Shape
<1>3. Only(Headed(c, w), K) = Headed(c, Only(w, K)) /\ Only(w, K) \in Seq(Column)
  BY OnlyHeaded, OnlyMembers
<1>4. NamesOf(m) = NamesOf(Headed(c, Only(w, K)))
  BY <1>1, <1>3 DEF Parts
<1>5. PICK x \in Column, b \in Seq(Column) :
         m = Headed(x, b) /\ x.name = c.name /\ NamesOf(b) = NamesOf(Only(w, K))
  BY <1>3, <1>4, FirstOfNames
<1>6. Cat(b, t) \in Seq(Column) /\ Cat(a, Cat(m, t)) = Around(a, x, Cat(b, t))
  BY <1>5, HeadedThen, HeadedCat, CatFacts
<1>7. Cat(a, Cat(m, t)) = order /\ Cat(m, t) \in Seq(Column)
  BY <1>1, CatFacts DEF Parts
<1>8. order = Around(a, x, Cat(b, t))
  BY <1>6, <1>7
<1>9. Distinct(order)
  BY DEF Lists
<1> DEFINE rest == Cat(b, t)
<1> HIDE DEF rest
<1>10. Has(order, c.name) /\ At(order, c.name) = Len(a) + 1
  <2>1. rest \in Seq(Column) /\ order = Around(a, x, rest)
    BY <1>6, <1>8 DEF rest
  <2>2. At(order, x.name) = Len(a) + 1
    BY <1>9, <2>1, AtAround
  <2>3. Has(order, x.name)
    BY <2>1, AroundNames DEF Has
  <2> QED  BY <1>5, <2>2, <2>3
<1>11. Ends(a, p)
  BY <1>1, EndsNames DEF Parts
<1>12. InPosition(order, c.name, p)
  BY <1>7, <1>10, <1>11, EndsFacts
<1>13. Append(a, x) \in Seq(Column) /\ Append(v, c) \in Seq(Column)
       /\ NamesOf(Append(a, x)) = NamesOf(Append(v, c))
  BY <1>1, <1>5, AppendNames DEF Parts
<1>14. Parts(K, order, Append(v, c), w, Append(a, x), b, t)
  <2>1. order = Cat(Append(a, x), Cat(b, t))
    BY <1>6, <1>8, AroundCat
  <2> QED  BY <1>1, <1>5, <1>13, <2>1 DEF Parts
<1> QED  BY <1>10, <1>12, <1>13, <1>14 DEF Shape

LEMMA OnlyBehind ==
    ASSUME NEW K, NEW c \in Column, NEW w \in Seq(Column), c.name \notin K
    PROVE  Only(Headed(c, w), K) = Only(w, K)
BY OnlyHeaded

(* A column that comes new.                                                   *)
LEMMA ShapeAdded ==
    ASSUME NEW K, NEW order \in Lists,
           NEW v \in Seq(Column), NEW c \in Column, NEW w \in Seq(Column), c.name \notin K,
           NEW p, Ends(v, p), Shape(K, order, v, Headed(c, w))
    PROVE  Shape(K, InsertAfter(order, c, p), Append(v, c), w)
<1>1. PICK a, m, t \in Seq(Column) : Parts(K, order, v, Headed(c, w), a, m, t)
  BY DEF Shape
<1>2. NamesOf(m) = NamesOf(Only(w, K))
  BY <1>1, OnlyBehind DEF Parts
<1>3. Cat(a, Cat(m, t)) = order /\ Cat(m, t) \in Seq(Column)
  BY <1>1, CatFacts DEF Parts
<1>4. Ends(a, p)
  BY <1>1, EndsNames DEF Parts
<1>5. InsertAfter(order, c, p) = Cat(Append(a, c), Cat(m, t))
  <2> DEFINE r == Cat(m, t)
  <2>1. r \in Seq(Column) /\ Cat(a, r) = order
    BY <1>3
  <2> HIDE DEF r
  <2>2. InsertAfter(order, c, p) = Around(a, c, r)
    BY <1>4, <2>1, EndsFacts
  <2> QED  BY <2>1, <2>2, AroundCat DEF r
<1>6. Append(a, c) \in Seq(Column) /\ NamesOf(Append(a, c)) = NamesOf(Append(v, c))
  BY <1>1, AppendNames DEF Parts
<1>7. Parts(K, InsertAfter(order, c, p), Append(v, c), w, Append(a, c), m, t)
  BY <1>1, <1>2, <1>5, <1>6 DEF Parts
<1> QED  BY <1>6, <1>7 DEF Shape

(* A column that moves.                                                       *)
LEMMA ShapeMoved ==
    ASSUME NEW K, NEW order \in Lists,
           NEW v \in Seq(Column), NEW c \in Column, NEW w \in Seq(Column), c.name \notin K,
           Distinct(Around(v, c, w)),
           NEW p, Ends(v, p), Shape(K, order, v, Headed(c, w))
    PROVE  Shape(K, MoveAfter(order, c, p), Append(v, c), w)
<1>1. PICK a, m, t \in Seq(Column) : Parts(K, order, v, Headed(c, w), a, m, t)
  BY DEF Shape
<1> DEFINE S == Names \ {c.name}
           u == Only(t, S)
<1>2. Only(a, S) = a
  <2>1. NameSet(a) = NameSet(v) /\ NameSet(a) \subseteq Names
    BY <1>1, SameNames, NamesSeq DEF Parts
  <2> QED  BY <2>1, Sides, OnlyAll
<1>3. NamesOf(m) = NamesOf(Only(w, K))
  BY <1>1, OnlyBehind DEF Parts
<1>4. Only(m, S) = m
  <2>1. NameSet(m) = NameSet(w) \cap K /\ NameSet(m) \subseteq Names
    BY <1>3, SameNames, NamesSeq, OnlyMembers
  <2> QED  BY <2>1, OnlyAll
<1>5. u \in Seq(Column) /\ NameSet(u) \subseteq NameSet(t)
  BY OnlyMembers
<1>6. Cat(a, Cat(m, t)) = order /\ Cat(m, t) \in Seq(Column) /\ Cat(m, u) \in Seq(Column)
  BY <1>1, <1>5, CatFacts DEF Parts
<1>7. Without(order, c.name) = Cat(a, Cat(m, u))
  <2>1. Only(Cat(a, Cat(m, t)), S) = Cat(Only(a, S), Only(Cat(m, t), S))
    BY <1>6, OnlyCat
  <2>2. Only(Cat(m, t), S) = Cat(Only(m, S), Only(t, S))
    BY OnlyCat
  <2> QED  BY <1>2, <1>4, <1>6, <2>1, <2>2 DEF Without
<1>8. Without(order, c.name) \in Lists
  BY WithoutFacts DEF Lists
<1> HIDE DEF u, S
<1>9. Parts(K, Cat(a, Cat(m, u)), v, Headed(c, w), a, m, u)
  BY <1>1, <1>5 DEF Parts
<1>10. Shape(K, Without(order, c.name), v, Headed(c, w))
  BY <1>5, <1>7, <1>9 DEF Shape
<1> QED  BY <1>8, <1>10, ShapeAdded DEF MoveAfter

(* A column that stands where it has to.                                      *)
LEMMA ShapeInPlace ==
    ASSUME NEW K, NEW order \in Lists,
           NEW v \in Seq(Column), NEW c \in Column, NEW w \in Seq(Column), c.name \notin K,
           Distinct(Around(v, c, w)), Has(order, c.name),
           NEW p, Ends(v, p), InPosition(order, c.name, p), Shape(K, order, v, Headed(c, w))
    PROVE  Shape(K, order, Append(v, c), w)
<1>1. PICK a, m, t \in Seq(Column) : Parts(K, order, v, Headed(c, w), a, m, t)
  BY DEF Shape
<1>2. NamesOf(m) = NamesOf(Only(w, K))
  BY <1>1, OnlyBehind DEF Parts
<1>3. Cat(a, Cat(m, t)) = order /\ Cat(m, t) \in Seq(Column)
  BY <1>1, CatFacts DEF Parts
<1>4. Ends(a, p)
  BY <1>1, EndsNames DEF Parts
<1>5. At(order, c.name) = Len(a) + 1
  BY <1>3, <1>4, EndsFacts
<1>6. Distinct(order) /\ order \in Seq(Column)
  BY DEF Lists
<1>7. ASSUME NEW y \in Column, NEW b \in Seq(Column), order = Around(a, y, b) PROVE y.name = c.name
  <2>1. order[Len(a) + 1] = y
    BY <1>7, AroundSeq, ZenonT(30)
  <2>2. order[At(order, c.name)].name = c.name
    BY <1>6, AtIs
  <2> QED  BY <1>5, <2>1, <2>2
<1>8. ASSUME m # <<>> PROVE FALSE
  <2>1. PICK y \in Column, b \in Seq(Column) : m = Headed(y, b)
    BY <1>8, FirstColumn
  <2>2. Cat(b, t) \in Seq(Column) /\ Cat(a, Cat(m, t)) = Around(a, y, Cat(b, t))
    BY <2>1, HeadedThen, HeadedCat, CatFacts
  <2>3. order = Around(a, y, Cat(b, t))
    BY <1>3, <2>2
  <2>4. y.name = c.name
    BY <1>7, <2>2, <2>3
  <2>5. NameSet(m) = NameSet(w) \cap K
    BY <1>2, SameNames, OnlyMembers
  <2>6. y.name \in NameSet(m)
    BY <2>1, HeadedFacts
  <2> QED  BY <2>4, <2>5, <2>6
<1>9. Cat(m, t) = t
  BY <1>8, CatFacts
<1>10. t # <<>>
  <2>1. ASSUME t = <<>> PROVE FALSE
    <3>1. order = a
      BY <1>3, <1>9, <2>1, CatFacts
    <3>2. At(order, c.name) \in 1 .. Len(a) /\ Len(a) \in Nat
      BY <1>6, <3>1, AtIs
    <3> QED  BY <1>5, <3>2
  <2> QED  BY <2>1
<1>11. PICK y \in Column, b \in Seq(Column) : t = Headed(y, b)
  BY <1>10, FirstColumn
<1>12. order = Around(a, y, b)
  <2>1. Cat(a, Headed(y, b)) = Around(a, y, b)
    BY HeadedCat
  <2> QED  BY <1>3, <1>9, <1>11, <2>1
<1>13. y.name = c.name
  BY <1>7, <1>12
<1>14. Append(a, y) \in Seq(Column) /\ NamesOf(Append(a, y)) = NamesOf(Append(v, c))
  BY <1>1, <1>13, AppendNames DEF Parts
<1>15. m = <<>> /\ Cat(m, b) = b
  BY <1>8, CatFacts
<1>16. NameSet(b) \subseteq NameSet(t)
  BY <1>11, HeadedFacts
<1>17. order = Cat(Append(a, y), Cat(m, b))
  BY <1>12, <1>15, AroundCat
<1>18. Parts(K, order, Append(v, c), w, Append(a, y), m, b)
  BY <1>1, <1>2, <1>14, <1>16, <1>17 DEF Parts
<1> QED  BY <1>14, <1>18 DEF Shape

(* The columns whose place counts: with ignore_column_order, those that the   *)
(* table has already.                                                         *)
Fixed(B) == IF conf.ignore THEN NameSet(B) ELSE {}

ShapeAt(K, order, k) ==
    \A v, w \in Seq(Column) : Want = Cat(v, w) /\ Len(v) = k => Shape(K, order, v, w)

LEMMA EndsBefore ==
    ASSUME conf \in Configurations, NEW k \in 1 .. Len(Want),
           NEW v \in Seq(Column), NEW c \in Column, NEW w \in Seq(Column),
           Want = Around(v, c, w), Len(v) = k - 1
    PROVE  c = Want[k] /\ Ends(v, Previous(Want, k)) /\ Distinct(Around(v, c, w))
           /\ Want = Cat(v, Headed(c, w))
<1>1. c = Want[k] /\ \A i \in 1 .. Len(v) : Want[i] = v[i]
  <2>1. Around(v, c, w)[Len(v) + 1] = c /\ \A i \in 1 .. Len(v) : Around(v, c, w)[i] = v[i]
    BY AroundSeq, ZenonT(30)
  <2> QED  BY <2>1
<1>2. Ends(v, Previous(Want, k))
  <2>1. CASE k = 1
    <3>1. v = <<>>
      BY <2>1
    <3> QED  BY <2>1, <3>1, PreviousFacts DEF Ends
  <2>2. CASE k # 1
    <3>1. v # <<>> /\ k - 1 \in 1 .. Len(v)
      BY <2>2
    <3>2. PICK b \in Seq(Column), e \in Column : v = Append(b, e)
      BY <3>1, LastOf
    <3>3. v[k - 1] = e
      BY <3>2
    <3>4. Previous(Want, k) = Want[k - 1].name
      BY <2>2, PreviousFacts
    <3>5. e.name = Previous(Want, k)
      BY <1>1, <3>1, <3>3, <3>4
    <3> QED  BY <3>2, <3>5 DEF Ends
  <2> QED  BY <2>1, <2>2
<1>3. Want = Cat(v, Headed(c, w))
  BY HeadedCat
<1> QED  BY <1>1, <1>2, <1>3, WantFacts

LEMMA ShapeTurn ==
    ASSUME conf \in Configurations, NEW k \in 1 .. Len(Want),
           NEW plan \in Plans, plan.order \in Lists, NEW K, ShapeAt(K, plan.order, k - 1),
           NEW v \in Seq(Column), NEW c \in Column, NEW w \in Seq(Column),
           Want = Around(v, c, w), Len(v) = k - 1
    PROVE  /\ Shape(K, PlanColumn(plan, k).order, Append(v, c), w)
           /\ ~Has(plan.order, Want[k].name) \/ Shift(plan.order, k) => Want[k].name \notin K
<1> DEFINE p == Previous(Want, k)
           order == plan.order
<1>0. c = Want[k]
  BY EndsBefore
<1>1. c = Want[k] /\ Ends(v, p) /\ Distinct(Around(v, c, w)) /\ Want = Cat(v, Headed(c, w))
  BY EndsBefore
<1>2. Shape(K, order, v, Headed(c, w))
  BY <1>1, HeadedFacts DEF ShapeAt
<1>3. ~Has(order, c.name) => PlanColumn(plan, k).order = InsertAfter(order, c, p)
  <2>1. ~Has(plan.order, Want[k].name) =>
           PlanColumn(plan, k).order = InsertAfter(plan.order, Want[k], Previous(Want, k))
    BY PlanColumnIs, ZenonT(30)
  <2> QED  BY <1>0, <2>1
<1>4. Has(order, c.name) =>
         PlanColumn(plan, k).order = IF Shift(order, k) THEN MoveAfter(order, c, p) ELSE order
  <2>1. Has(plan.order, Want[k].name) =>
           PlanColumn(plan, k).order =
              IF Shift(plan.order, k) THEN MoveAfter(plan.order, Want[k], Previous(Want, k))
              ELSE plan.order
    BY PlanColumnIs, ZenonT(30)
  <2> QED  BY <1>0, <2>1
<1>5. Shift(order, k) <=> ~InPosition(order, c.name, p)
  BY <1>1 DEF Shift
<1>6. order \in Lists
  OBVIOUS
<1> HIDE DEF p, order
<1>7. CASE c.name \in K
  <2>1. /\ Has(order, c.name) /\ InPosition(order, c.name, p)
        /\ Shape(K, order, Append(v, c), w)
    BY <1>1, <1>2, <1>6, <1>7, ShapeKept
  <2> QED  BY <1>1, <1>4, <1>5, <2>1 DEF order
<1>8. CASE c.name \notin K /\ ~Has(order, c.name)
  <2>1. Shape(K, InsertAfter(order, c, p), Append(v, c), w)
    BY <1>1, <1>2, <1>6, <1>8, ShapeAdded
  <2> QED  BY <1>1, <1>3, <1>8, <2>1
<1>9. CASE c.name \notin K /\ Has(order, c.name) /\ ~InPosition(order, c.name, p)
  <2>1. Shape(K, MoveAfter(order, c, p), Append(v, c), w)
    BY <1>1, <1>2, <1>6, <1>9, ShapeMoved
  <2> QED  BY <1>1, <1>4, <1>5, <1>9, <2>1
<1>10. CASE c.name \notin K /\ Has(order, c.name) /\ InPosition(order, c.name, p)
  <2>1. Shape(K, order, Append(v, c), w)
    BY <1>1, <1>2, <1>6, <1>10, ShapeInPlace
  <2> QED  BY <1>1, <1>4, <1>5, <1>10, <2>1
<1> QED  BY <1>7, <1>8, <1>9, <1>10

LEMMA ShapeStep ==
    ASSUME conf \in Configurations, NEW k \in 1 .. Len(Want),
           NEW plan \in Plans, plan.order \in Lists, NEW K, ShapeAt(K, plan.order, k - 1)
    PROVE  /\ ShapeAt(K, PlanColumn(plan, k).order, k)
           /\ ~Has(plan.order, Want[k].name) \/ Shift(plan.order, k) => Want[k].name \notin K
<1>1. ASSUME NEW u \in Seq(Column), NEW w \in Seq(Column), Want = Cat(u, w), Len(u) = k
      PROVE  Shape(K, PlanColumn(plan, k).order, u, w)
  <2>1. u # <<>>
    BY <1>1
  <2>2. PICK v \in Seq(Column), c \in Column : u = Append(v, c)
    BY <2>1, LastOf
  <2>3. Len(v) = k - 1
    BY <1>1, <2>2
  <2>4. Want = Around(v, c, w)
    BY <1>1, <2>2, AroundCat
  <2> QED  BY <2>2, <2>3, <2>4, ShapeTurn
<1>2. ~Has(plan.order, Want[k].name) \/ Shift(plan.order, k) => Want[k].name \notin K
  <2>1. Want \in Seq(Column) /\ Want[k] \in Column
    BY WantFacts
  <2>2. PICK v, w \in Seq(Column) : Want = Around(v, Want[k], w) /\ Len(v) = k - 1
    BY <2>1, SplitAt
  <2> QED  BY <2>1, <2>2, ShapeTurn
<1> QED  BY <1>1, <1>2 DEF ShapeAt

(* The order that the plan starts from.                                       *)
LEMMA Behind ==
    ASSUME NEW l \in Seq(Column), NEW f \in Seq(Column), Len(f) <= Len(l),
           \A i \in 1 .. Len(f) : l[i] = f[i]
    PROVE  \E t \in Seq(Column) :
              /\ l = Cat(f, t) /\ Len(t) = Len(l) - Len(f)
              /\ \A i \in 1 .. Len(t) : t[i] = l[Len(f) + i]
<1> DEFINE q == Len(f)
           n == Len(l)
           t == [i \in 1 .. n - q |-> l[q + i]]
<1>1. q \in Nat /\ n \in Nat /\ q <= n /\ \A i \in 1 .. n : l[i] \in Column
  OBVIOUS
<1>2. t \in Seq(Column) /\ Len(t) = n - q /\ \A i \in 1 .. n - q : t[i] = l[q + i]
  <2> HIDE DEF q, n
  <2>1. \A i \in 1 .. n - q : q + i \in 1 .. n
    BY <1>1
  <2>2. n - q \in Nat
    BY <1>1
  <2>3. \A i \in 1 .. n - q : l[q + i] \in Column
    BY <1>1, <2>1
  <2> DEFINE r == n - q
  <2>4. t = [i \in 1 .. r |-> l[q + i]] /\ \A i \in 1 .. r : l[q + i] \in Column
    BY <2>3
  <2>5. r \in Nat
    BY <2>2
  <2> HIDE DEF t, r
  <2>6. t \in Seq(Column) /\ Len(t) = r /\ \A i \in 1 .. r : t[i] = l[q + i]
    <3>1. t \in [1 .. r -> Column]
      BY <2>4
    <3> QED  BY <2>4, <2>5, <3>1
  <2> QED  BY <2>6 DEF r
<1> DEFINE z == f \o t
<1> HIDE DEF t
<1>3. z \in Seq(Column) /\ Len(z) = n /\ \A i \in 1 .. q : z[i] = f[i]
  BY <1>1, <1>2
<1>4. \A j \in 1 .. n - q : z[q + j] = t[j]
  BY <1>1, <1>2
<1> HIDE DEF z
<1>5. \A i \in 1 .. q : z[i] = l[i]
  BY <1>3
<1> HIDE DEF q
<1>6. ASSUME NEW i \in 1 .. n, i > q PROVE z[i] = l[i]
  <2> DEFINE j == i - q
  <2>1. j \in 1 .. n - q /\ q + j = i
    BY <1>1, <1>6
  <2> HIDE DEF j
  <2> QED  BY <1>2, <1>4, <2>1
<1>7. \A i \in 1 .. n : z[i] = l[i]
  <2>1. ASSUME NEW i \in 1 .. n PROVE i \in 1 .. q \/ i > q
    BY <1>1
  <2> QED  BY <1>5, <1>6, <2>1
<1>8. l = z
  BY <1>3, <1>7
<1> QED  BY <1>2, <1>8 DEF Cat, z, q

LEMMA PlainStart ==
    ASSUME conf \in Configurations, ~conf.ignore, NEW B \in Lists
    PROVE  Shape(Fixed(B), Aligned(B), <<>>, Want)
<1> DEFINE nil == <<>>
           al == Aligned(B)
<1>1. nil \in Seq(Column)
  OBVIOUS
<1>2. al \in Seq(Column)
  BY StartFacts DEF Lists
<1>3. Fixed(B) = {}
  BY DEF Fixed
<1>4. Only(Want, Fixed(B)) = nil
  BY <1>3, WantFacts, OnlyNone
<1>5. al = Cat(nil, Cat(nil, al))
  BY <1>1, <1>2, CatFacts
<1> HIDE DEF nil, al
<1>6. Parts(Fixed(B), al, nil, Want, nil, nil, al)
  BY <1>3, <1>4, <1>5 DEF Parts
<1>7. Shape(Fixed(B), al, nil, Want)
  BY <1>1, <1>2, <1>6 DEF Shape
<1> QED  BY <1>7 DEF nil, al

LEMMA IgnoringStart ==
    ASSUME conf \in Configurations, conf.ignore, NEW B \in Lists
    PROVE  Shape(Fixed(B), Aligned(B), <<>>, Want)
<1> DEFINE nil == <<>>
           al == Aligned(B)
           l == Current(B)
           m == Managed(B)
           D == NameSet(Want)
           K == NameSet(B)
<1>1. nil \in Seq(Column)
  OBVIOUS
<1>2. al \in Lists /\ al \in Seq(Column) /\ l \in Lists /\ l \in Seq(Column) /\ m \in Lists /\ Want \in Seq(Column)
  BY StartFacts, CurrentFacts, WantFacts DEF Lists
<1>3. Fixed(B) = K
  BY DEF Fixed
<1>4. NameSet(l) = K \cap ManagedNames /\ D \subseteq ManagedNames
  BY CurrentFacts DEF ManagedNames
<1>5. NameSet(m) = K \cap ManagedNames
  <2>1. ToSet(m) = {c \in ToSet(B) : c.name \in ManagedNames}
    BY CurrentFacts
  <2>2. NameSet(m) = {c.name : c \in ToSet(m)} /\ K = {c.name : c \in ToSet(B)}
    BY <1>2, Columns
  <2> QED  BY <2>1, <2>2
<1>6. l = Align(m)
  BY DEF Current
<1>7. PICK first \in Lists : Aligns(m, first)
  BY <1>2, AlignFacts
<1>8. first \in Seq(Column) /\ Only(m, Undeclared) \in Seq(Column)
  BY <1>2, OnlyMembers DEF Lists
<1>9. l = Cat(first, Only(m, Undeclared))
  BY <1>6, <1>7 DEF Aligns, Cat
<1>10. NamesOf(first) = NamesOf(Only(Want, K))
  <2>1. D \cap NameSet(m) = D \cap K
    BY <1>4, <1>5
  <2>2. Only(Want, NameSet(m)) = Only(Want, K)
    BY <1>2, <2>1, OnlySame
  <2> QED  BY <1>7, <2>2 DEF Aligns
<1>11. NameSet(first) \subseteq D
  <2>1. Only(Want, K) \in Seq(Column) /\ NameSet(Only(Want, K)) \subseteq D
    BY <1>2, OnlyMembers
  <2> QED  BY <1>8, <1>10, <2>1, SameNames
<1> DEFINE rest == Only(m, Undeclared)
<1>12. rest \in Seq(Column) /\ NameSet(rest) \cap D = {} /\ l = Cat(first, rest)
  <2>1. NameSet(rest) \subseteq Undeclared
    BY <1>2, OnlyMembers DEF Lists
  <2> QED  BY <1>8, <1>9, <2>1 DEF Undeclared
<1> HIDE DEF rest
<1>13. /\ Len(l) = Len(first) + Len(rest) /\ \A i \in 1 .. Len(first) : l[i] = first[i]
       /\ \A i \in 1 .. Len(rest) : l[Len(first) + i] = rest[i]
  BY <1>8, <1>12 DEF Cat
<1>14. Len(al) = Len(l) /\ \A i \in 1 .. Len(l) : al[i] = IF i \in RenamedAt(l) THEN Want[i] ELSE l[i]
  <2>1. al = [i \in 1 .. Len(l) |-> IF i \in RenamedAt(l) THEN Want[i] ELSE l[i]]
    <3>1. DOMAIN l = 1 .. Len(l)
      BY <1>2
    <3> QED  BY <3>1 DEF Aligned, Renamed
  <2>2. DOMAIN al = 1 .. Len(al) /\ Len(al) \in Nat /\ Len(l) \in Nat
    BY <1>2
  <2> HIDE DEF al, l
  <2>3. 1 .. Len(al) = 1 .. Len(l)
    BY <2>1, <2>2
  <2>4. Len(al) = Len(l)
    BY <2>2, <2>3
  <2> QED  BY <2>1, <2>4
<1>15. \A i \in RenamedAt(l) : /\ i \in 1 .. Len(l) /\ l[i].name \notin D
                              /\ Want[i].name \in D /\ Want[i].name \notin NameSet(l)
  BY <1>2, RenamedAtFacts
<1> HIDE DEF al, l, m, D, K
<1>16. ASSUME NEW i \in 1 .. Len(first) PROVE al[i] = first[i]
  <2>1. i \in 1 .. Len(l) /\ l[i] = first[i]
    BY <1>8, <1>12, <1>13
  <2>2. l[i].name \in D
    BY <1>8, <1>11, <2>1, NamesSeq
  <2> QED  BY <1>14, <1>15, <2>1, <2>2
<1>17. Len(first) <= Len(al)
  BY <1>8, <1>12, <1>13, <1>14
<1>18. PICK t \in Seq(Column) :
          /\ al = Cat(first, t) /\ Len(t) = Len(al) - Len(first)
          /\ \A i \in 1 .. Len(t) : t[i] = al[Len(first) + i]
  BY <1>2, <1>8, <1>16, <1>17, Behind
<1>19. ASSUME NEW n \in NameSet(t), n \in D, n \in K PROVE FALSE
  <2>1. PICK i \in 1 .. Len(t) : t[i].name = n
    BY <1>19, NamesSeq
  <2>2. Len(t) = Len(rest) /\ Len(first) + i \in 1 .. Len(l) /\ Len(first) \in Nat
    BY <1>8, <1>12, <1>13, <1>14, <1>18
  <2> DEFINE j == Len(first) + i
  <2>3. al[j].name = n /\ j \in 1 .. Len(l)
    BY <1>18, <2>1, <2>2
  <2>4. l[j] = rest[i] /\ i \in 1 .. Len(rest)
    BY <1>13, <2>2
  <2> HIDE DEF j
  <2>5. CASE j \in RenamedAt(l)
    <3>1. n \notin NameSet(l)
      BY <1>14, <1>15, <2>3, <2>5
    <3> QED  BY <1>4, <1>19, <3>1
  <2>6. CASE j \notin RenamedAt(l)
    <3>1. rest[i].name = n
      BY <1>14, <2>3, <2>4, <2>6
    <3>2. n \in NameSet(rest)
      BY <1>12, <2>4, <3>1, NamesSeq
    <3> QED  BY <1>12, <1>19, <3>2
  <2> QED  BY <2>5, <2>6
<1>20. al = Cat(nil, Cat(first, t))
  <2>1. al \in Seq(Column)
    BY <1>2
  <2> QED  BY <1>8, <1>18, <2>1, CatFacts
<1> HIDE DEF nil
<1>21. Parts(K, al, nil, Want, nil, first, t)
  BY <1>10, <1>19, <1>20 DEF Parts, D
<1>22. Shape(Fixed(B), al, nil, Want)
  BY <1>1, <1>3, <1>8, <1>21 DEF Shape
<1> QED  BY <1>22 DEF nil, al

LEMMA ShapeStarts ==
    ASSUME conf \in Configurations, NEW B \in Lists
    PROVE  ShapeAt(Fixed(B), Aligned(B), 0)
<1>1. Shape(Fixed(B), Aligned(B), <<>>, Want)
  BY PlainStart, IgnoringStart
<1>2. ASSUME NEW v \in Seq(Column), NEW w \in Seq(Column), Want = Cat(v, w), Len(v) = 0
      PROVE  v = <<>> /\ w = Want
  <2>1. v = <<>>
    BY <1>2
  <2> QED  BY <1>2, <2>1, CatFacts
<1> QED  BY <1>1, <1>2 DEF ShapeAt

LEMMA ShapeInvariant ==
    ASSUME conf \in Configurations, NEW B \in Lists, B # <<>>, NEW f, NEW g, Folding(B, f, g)
    PROVE  \A k \in 0 .. Len(Want) : ShapeAt(Fixed(B), f[k].order, k)
<1> DEFINE n == Len(Want)
           S == {k \in 0 .. n : ShapeAt(Fixed(B), f[k].order, k)}
<1>1. n \in Nat
  BY WantFacts
<1>2. /\ f[0] = PlanStart(B) /\ \A k \in 1 .. n : f[k - 1] \in Plans /\ f[k] = PlanColumn(f[k - 1], k)
  BY DEF Folding
<1>3. 0 \in S
  BY <1>1, <1>2, ShapeStarts DEF PlanStart
<1>4. ASSUME NEW k \in 1 .. n, k - 1 \in S PROVE k \in S
  <2>1. ShapeAt(Fixed(B), f[k - 1].order, k - 1) /\ f[k - 1] \in Plans /\ k - 1 \in 0 .. n
    BY <1>2, <1>4
  <2>2. f[k - 1].order \in Lists
    BY <2>1, WalkInvariant DEF WalkOK
  <2>3. ShapeAt(Fixed(B), PlanColumn(f[k - 1], k).order, k)
    BY <2>1, <2>2, ShapeStep
  <2>4. k \in 0 .. n
    BY <1>1
  <2> QED  BY <1>2, <2>3, <2>4
<1>5. S \in SUBSET (0 .. n)
  OBVIOUS
<1> HIDE DEF S
<1>6. \A k \in 0 .. n : k \in S
  BY <1>1, <1>3, <1>4, <1>5, InductTo
<1> QED  BY <1>6 DEF S

-----------------------------------------------------------------------------
(* The table of the preview is the configured one.                            *)

LEMMA SameList ==
    ASSUME NEW l \in Lists, NEW m \in Lists, NamesOf(l) = NamesOf(m), ToSet(l) = ToSet(m)
    PROVE  l = m
<1>1. l \in Seq(Column) /\ m \in Seq(Column)
  BY DEF Lists
<1>2. Len(l) = Len(m) /\ \A i \in 1 .. Len(l) : l[i].name = m[i].name
  BY <1>1, SameNames
<1>3. ASSUME NEW i \in 1 .. Len(l) PROVE l[i] = m[i]
  <2>1. l[i] \in ToSet(m) /\ m[i] \in ToSet(m) /\ l[i].name = m[i].name
    BY <1>1, <1>2, NamesSeq
  <2> QED  BY <2>1, Columns
<1> QED  BY <1>1, <1>2, <1>3

LEMMA OrderInTheEnd ==
    ASSUME conf \in Configurations, NEW B \in Lists, B # <<>>, NEW f, NEW g, Folding(B, f, g)
    PROVE  LET order == f[Len(Want)].order
           IN  order \in Lists /\ NamesOf(Only(order, NameSet(Want))) = NamesOf(Want)
<1> DEFINE order == f[Len(Want)].order
           nil == <<>>
           K == Fixed(B)
           D == NameSet(Want)
<1>1. Len(Want) \in 0 .. Len(Want) /\ Want \in Seq(Column) /\ nil \in Seq(Column)
  BY WantFacts
<1>2. order \in Lists /\ ShapeAt(K, order, Len(Want))
  BY <1>1, WalkInvariant, ShapeInvariant DEF WalkOK
<1>3. order \in Seq(Column) /\ Distinct(order)
  BY <1>2 DEF Lists
<1>4. Want = Cat(Want, nil) /\ Only(nil, K) = nil
  BY <1>1, CatFacts, OnlyNil
<1> HIDE DEF order, K, nil
<1>5. Shape(K, order, Want, nil)
  BY <1>1, <1>2, <1>4 DEF ShapeAt
<1>6. PICK a, m, t \in Seq(Column) : Parts(K, order, Want, nil, a, m, t)
  BY <1>5 DEF Shape
<1>7. order = Cat(a, Cat(m, t)) /\ NamesOf(a) = NamesOf(Want) /\ NamesOf(m) = NamesOf(nil)
  BY <1>4, <1>6 DEF Parts
<1>8. m = <<>>
  <2>1. Len(m) = Len(nil)
    BY <1>1, <1>7, SameNames
  <2> QED  BY <2>1 DEF nil
<1>9. order = Cat(a, t)
  BY <1>7, <1>8, CatFacts
<1>10. NameSet(a) = D /\ NameSet(a) \cap NameSet(t) = {}
  <2>1. NameSet(a) = D
    BY <1>1, <1>7, SameNames
  <2>2. Distinct(a \o t)
    BY <1>3, <1>9 DEF Cat
  <2> QED  BY <2>1, <2>2, DistinctConcat
<1>11. Only(order, D) = Cat(Only(a, D), Only(t, D))
  BY <1>9, OnlyCat
<1>12. Only(a, D) = a /\ Only(t, D) = <<>>
  BY <1>10, OnlyAll, OnlyNone
<1>13. Only(order, D) = a
  BY <1>11, <1>12, CatFacts
<1> QED  BY <1>2, <1>7, <1>13 DEF order

(* What another table of the same columns is, as the provider reads it.       *)
LEMMA PreviewColumns ==
    ASSUME conf \in Configurations, NEW B \in Lists, B # <<>>, ~ReplaceRequired(B)
    PROVE  /\ PreviewTable(B) \in Lists
           /\ {c \in ToSet(PreviewTable(B)) : c.name \in ManagedNames} = ToSet(Want)
<1> DEFINE Q == Walked(B).physical
           l == AlterTable(Q, Planned(B).modifies)
           P == PreviewTable(B)
           D == NameSet(Want)
<1>1. /\ PlanRun(B, RenamedPhysical(B), Q, l)
      /\ WalkOK(B, Planned(B), Walked(B), Len(Want))
      /\ ModOK(Q, Planned(B), Walked(B), Len(Want))
      /\ P = Only(l, Names \ Gone(B))
  BY PreviewRuns
<1>2. P \in Lists /\ l \in Lists /\ NameSet(l) = NameSet(Q) /\ \A j \in 1 .. Len(Want) : Want[j] \in ToSet(l)
  BY <1>1 DEF PlanRun, ModOK
<1>3. NameSet(Q) = NameSet(RenamedPhysical(B)) \cup DoneNames(Len(Want))
  BY <1>1 DEF WalkOK
<1>4. /\ Aligned(B) \in Lists /\ RenamedPhysical(B) \in Lists /\ Want \in Lists
      /\ ToSet(RenamedPhysical(B)) = ToSet(Aligned(B)) \cup {c \in ToSet(B) : c.name \notin ManagedNames}
  BY StartFacts, WantFacts
<1>5. D = DoneNames(Len(Want)) /\ D \subseteq ManagedNames /\ D \cap Gone(B) = {}
  <2>1. D = DoneNames(Len(Want))
    BY WantFacts DEF DoneNames
  <2> QED  BY <2>1 DEF ManagedNames, Gone
<1>6. ToSet(P) = {c \in ToSet(l) : c.name \in Names \ Gone(B)}
  BY <1>1, <1>2, OnlyMembers DEF Lists
<1> HIDE DEF P, l, Q
<1>7. ASSUME NEW c \in ToSet(Want) PROVE c \in ToSet(P) /\ c.name \in ManagedNames
  <2>1. PICK j \in 1 .. Len(Want) : c = Want[j]
    BY <1>4, NamesSeq DEF Lists
  <2>2. c \in ToSet(l) /\ c.name \in D /\ c.name \in Names
    BY <1>2, <1>4, <2>1, NamesSeq DEF Lists
  <2> QED  BY <1>5, <1>6, <2>2
<1>8. ASSUME NEW c \in ToSet(P), c.name \in ManagedNames PROVE c \in ToSet(Want)
  <2>1. c \in ToSet(l) /\ c.name \notin Gone(B)
    BY <1>6
  <2>2. c.name \in NameSet(Q)
    BY <1>2, <2>1, Columns
  <2>3. c.name \in D
    <3>1. ASSUME c.name \notin D PROVE FALSE
      <4>1. c.name \in NameSet(RenamedPhysical(B))
        BY <1>3, <1>5, <2>2, <3>1
      <4>2. PICK d \in ToSet(RenamedPhysical(B)) : d.name = c.name
        BY <1>4, <4>1, Columns
      <4>3. d \in ToSet(Aligned(B))
        BY <1>4, <1>8, <4>2
      <4>4. c.name \in NameSet(Aligned(B))
        BY <1>4, <4>2, <4>3, Columns
      <4> QED  BY <2>1, <3>1, <4>4 DEF Gone
    <3> QED  BY <3>1
  <2>4. PICK d \in ToSet(Want) : d.name = c.name
    BY <1>4, <2>3, Columns
  <2>5. d \in ToSet(l)
    BY <1>6, <1>7
  <2>6. d = c
    BY <1>2, <2>1, <2>4, <2>5, Columns
  <2> QED  BY <2>4, <2>6
<1> QED  BY <1>2, <1>7, <1>8 DEF P

LEMMA PreviewFits ==
    ASSUME conf \in Configurations, NEW B \in Lists, B # <<>>, ~ReplaceRequired(B)
    PROVE  ToSet(Current(PreviewTable(B))) = ToSet(Want)
BY PreviewColumns, CurrentFacts

(* With no column to add, the moves take the physical columns where the plan  *)
(* has them.                                                                  *)
Placed(B, m, order) ==
    /\ m \in Lists /\ NameSet(m) = NameSet(RenamedPhysical(B))
    /\ NamesOf(Only(m, NameSet(Aligned(B)))) = NamesOf(order)

LEMMA MoveFollows ==
    ASSUME conf \in Configurations, NEW B \in Lists, NEW k \in 1 .. Len(Want),
           NameSet(Want) \subseteq NameSet(Aligned(B)),
           NEW plan, NEW walk, WalkOK(B, plan, walk, k - 1),
           Placed(B, Moved(RenamedPhysical(B), walk.moves), plan.order)
    PROVE  Placed(B, Moved(RenamedPhysical(B), PreviewColumn(walk, k).moves), PlanColumn(plan, k).order)
<1> DEFINE c == Want[k]
           p == Previous(Want, k)
           A == NameSet(Aligned(B))
           R == RenamedPhysical(B)
           m == Moved(R, walk.moves)
           move == [column |-> c, after |-> p]
<1>1. /\ plan \in Plans /\ walk \in Walks /\ plan.order = walk.order
      /\ plan.order \in Lists /\ NameSet(plan.order) = A \cup DoneNames(k - 1)
  BY DEF WalkOK
<1>2. c \in Column /\ c.name \in NameSet(Want)
  BY WantFacts
<1>3. c.name \in A /\ Has(plan.order, c.name)
  BY <1>1, <1>2 DEF Has
<1>4. /\ PlanColumn(plan, k).order = (IF Shift(plan.order, k) THEN MoveAfter(plan.order, c, p) ELSE plan.order)
      /\ PreviewColumn(walk, k).moves =
            (IF Shift(plan.order, k) THEN Append(walk.moves, move) ELSE walk.moves)
  BY <1>1, <1>3, ColumnFound
<1>5. /\ R \in Lists /\ A \subseteq NameSet(R)
  <2>1. R \in Lists /\ Aligned(B) \in Lists /\ ToSet(Aligned(B)) \subseteq ToSet(R)
    BY StartFacts
  <2> QED  BY <2>1, Columns
<1>6. p = AtFront \/ (p \in A /\ p # AtFront /\ p # c.name)
  <2>1. p = AtFront \/ (p \in DoneNames(k - 1) /\ c.name \notin DoneNames(k - 1))
    BY DoneFacts
  <2>2. DoneNames(k - 1) \subseteq NameSet(Want)
    <3>1. k - 1 \in 0 .. Len(Want)
      BY WantFacts
    <3> QED  BY <3>1, WantFacts DEF DoneNames
  <2>3. p # AtFront \/ p = AtFront
    OBVIOUS
  <2> QED  BY <2>1, <2>2
<1>7. move \in Move /\ walk.moves \in Seq(Move) /\ move.column = c /\ move.after = p
  BY <1>1, <1>2, PreviousFacts DEF Move, Walks
<1>8. Moved(R, Append(walk.moves, move)) = MoveAfter(m, c, p)
  <2>1. R \in Seq(Column)
    BY <1>5 DEF Lists
  <2> HIDE DEF move, R
  <2>2. Moved(R, Append(walk.moves, move)) = MoveAfter(m, move.column, move.after)
    BY <1>7, <2>1, MovedAppend
  <2> QED  BY <1>7, <2>2
<1>9. m \in Lists /\ NameSet(m) = NameSet(R) /\ NamesOf(Only(m, A)) = NamesOf(plan.order)
  BY DEF Placed
<1> HIDE DEF m, c, p, A, R, move
<1>10. CASE ~Shift(plan.order, k)
  BY <1>4, <1>9, <1>10 DEF Placed, m, A, R
<1>11. CASE Shift(plan.order, k)
  <2>1. m \in Seq(Column) /\ Distinct(m) /\ plan.order \in Seq(Column)
    BY <1>1, <1>9 DEF Lists
  <2>2. p # AtFront => Has(m, p)
    BY <1>5, <1>6, <1>9 DEF Has
  <2>3. Only(MoveAfter(m, c, p), A) = MoveAfter(Only(m, A), c, p)
    BY <1>2, <1>3, <1>6, <2>1, <2>2, OnlyMove
  <2>4. Only(m, A) \in Seq(Column)
    BY <2>1, OnlyMembers
  <2>5. NamesOf(MoveAfter(Only(m, A), c, p)) = NamesOf(MoveAfter(plan.order, c, p))
    BY <1>2, <1>9, <2>1, <2>4, MoveNames
  <2>6. MoveAfter(m, c, p) \in Lists /\ NameSet(MoveAfter(m, c, p)) = NameSet(R)
    <3>1. c.name \in NameSet(m)
      BY <1>3, <1>5, <1>9
    <3>2. /\ MoveAfter(m, c, p) \in Seq(Column) /\ Distinct(MoveAfter(m, c, p))
          /\ NameSet(MoveAfter(m, c, p)) = NameSet(m) \cup {c.name}
      BY <1>2, <2>1, MoveFacts
    <3> QED  BY <1>9, <3>1, <3>2 DEF Lists
  <2>7. Placed(B, MoveAfter(m, c, p), MoveAfter(plan.order, c, p))
    BY <2>3, <2>5, <2>6 DEF Placed, A, R
  <2> QED  BY <1>4, <1>8, <1>11, <2>7 DEF R
<1> QED  BY <1>10, <1>11

LEMMA MovesFollow ==
    ASSUME conf \in Configurations, ~conf.ignore, NEW B \in Lists, B # <<>>, NEW f, NEW g, Folding(B, f, g),
           NameSet(Want) \subseteq NameSet(Aligned(B))
    PROVE  Placed(B, Moved(RenamedPhysical(B), Walked(B).moves), f[Len(Want)].order)
<1> DEFINE n == Len(Want)
           OK(k) == Placed(B, Moved(RenamedPhysical(B), g[k].moves), f[k].order)
           S == {k \in 0 .. n : OK(k)}
<1>1. n \in Nat
  BY WantFacts
<1>2. /\ f[0] = PlanStart(B) /\ g[0] = WalkStart(B) /\ Walked(B) = g[n]
      /\ \A k \in 1 .. n : f[k] = PlanColumn(f[k - 1], k) /\ g[k] = PreviewColumn(g[k - 1], k)
  BY DEF Folding
<1>3. 0 \in S
  <2>1. g[0].moves = <<>> /\ f[0].order = Aligned(B)
    BY <1>2 DEF PlanStart, WalkStart
  <2>2. RenamedPhysical(B) \in Lists /\ RenamedPhysical(B) \in Seq(Column)
    BY StartFacts DEF Lists
  <2>3. Moved(RenamedPhysical(B), <<>>) = RenamedPhysical(B)
    BY <2>2, MovedNil
  <2>4. OK(0)
    BY <2>1, <2>2, <2>3, StartOrder DEF Placed
  <2> QED  BY <1>1, <2>4
<1>4. ASSUME NEW k \in 1 .. n, k - 1 \in S PROVE k \in S
  <2>1. k - 1 \in 0 .. n /\ OK(k - 1)
    BY <1>4
  <2>2. WalkOK(B, f[k - 1], g[k - 1], k - 1)
    BY <2>1, WalkInvariant
  <2>3. Placed(B, Moved(RenamedPhysical(B), PreviewColumn(g[k - 1], k).moves), PlanColumn(f[k - 1], k).order)
    BY <2>1, <2>2, MoveFollows
  <2>4. k \in 0 .. n
    BY <1>1
  <2> QED  BY <1>2, <2>3, <2>4
<1>5. S \in SUBSET (0 .. n)
  OBVIOUS
<1> HIDE DEF S
<1>6. \A k \in 0 .. n : k \in S
  BY <1>1, <1>3, <1>4, <1>5, InductTo
<1>7. n \in 0 .. n
  BY <1>1
<1>8. n \in S
  BY <1>6, <1>7
<1> QED  BY <1>2, <1>8 DEF S

LEMMA PreviewOrdered ==
    ASSUME conf \in Configurations, NEW B \in Lists, B # <<>>, ~ReplaceRequired(B), ~conf.ignore,
           Planned(B).adds = <<>>
    PROVE  Current(PreviewTable(B)) = Want
<1> DEFINE Q == Walked(B).physical
           R == RenamedPhysical(B)
           l == AlterTable(Q, Planned(B).modifies)
           m == Moved(Q, Walked(B).moves)
           P == PreviewTable(B)
           D == NameSet(Want)
           A == NameSet(Aligned(B))
<1>1. /\ PlanRun(B, R, Q, l)
      /\ WalkOK(B, Planned(B), Walked(B), Len(Want))
      /\ ModOK(Q, Planned(B), Walked(B), Len(Want))
      /\ P = Only(l, Names \ Gone(B))
  BY PreviewRuns
<1>2. R \in Lists /\ Aligned(B) \in Lists /\ Want \in Lists /\ P \in Lists /\ l \in Lists /\ m \in Lists
  BY <1>1, StartFacts, WantFacts DEF PlanRun, ModOK
<1>3. Q = R
  <2>1. AlterTable(R, Planned(B).adds) = Q
    BY <1>1 DEF WalkOK
  <2> QED  BY <1>2, <2>1, AlterNil
<1>4. D \subseteq A
  <2>1. Missing(B, Len(Want)) = {}
    BY <1>1 DEF WalkOK
  <2> QED  BY <2>1, WantFacts DEF Missing
<1>5. NamesOf(l) = NamesOf(m)
  BY <1>1 DEF ModOK
<1>6. PICK f, g : Folding(B, f, g)
  BY FoldingExists
<1> DEFINE order == f[Len(Want)].order
<1>7. order \in Lists /\ NamesOf(Only(order, D)) = NamesOf(Want)
  BY <1>6, OrderInTheEnd
<1>8. Placed(B, m, order)
  BY <1>3, <1>4, <1>6, MovesFollow
<1>9. NameSet(m) = NameSet(R) /\ NamesOf(Only(m, A)) = NamesOf(order)
  BY <1>8 DEF Placed
<1>10. Current(P) = Only(P, ManagedNames)
  BY DEF Current, Managed, ManagedNames
<1>11. ToSet(Current(P)) = ToSet(Want) /\ Current(P) \in Lists
  BY <1>2, PreviewFits, CurrentFacts
<1>12. /\ l \in Seq(Column) /\ m \in Seq(Column) /\ order \in Seq(Column) /\ R \in Seq(Column)
       /\ Aligned(B) \in Seq(Column) /\ B \in Seq(Column)
  BY <1>2, <1>7 DEF Lists
<1> HIDE DEF Q, R, l, m, P, order
<1>13. Current(P) = Only(l, (Names \ Gone(B)) \cap ManagedNames)
  BY <1>1, <1>10, <1>12, OnlyTwice
<1>14. NameSet(l) \cap ((Names \ Gone(B)) \cap ManagedNames) = NameSet(l) \cap D
  <2>1. NameSet(l) = NameSet(R)
    BY <1>5, <1>9, <1>12, SameNames
  <2>2. NameSet(R) = A \cup {n \in NameSet(B) : n \notin ManagedNames}
    <3>1. ToSet(R) = ToSet(Aligned(B)) \cup {c \in ToSet(B) : c.name \notin ManagedNames}
      BY StartFacts DEF R
    <3>2. /\ NameSet(R) = {c.name : c \in ToSet(R)} /\ A = {c.name : c \in ToSet(Aligned(B))}
          /\ NameSet(B) = {c.name : c \in ToSet(B)}
      BY <1>2, Columns
    <3> QED  BY <3>1, <3>2
  <2>3. A \subseteq ManagedNames /\ A \subseteq Names /\ D \subseteq Names /\ D \subseteq ManagedNames
    BY <1>2, <1>12, StartFacts, NamesSeq, WantFacts DEF ManagedNames
  <2> QED  BY <1>4, <2>1, <2>2, <2>3 DEF Gone
<1>15. Current(P) = Only(l, D)
  BY <1>12, <1>13, <1>14, OnlySame
<1>16. NamesOf(Only(l, D)) = NamesOf(Only(m, D))
  BY <1>5, <1>12, OnlyNames
<1>17. Only(m, D) = Only(Only(m, A), D)
  <2>1. A \cap D = D
    BY <1>4
  <2> QED  BY <1>12, <2>1, OnlyTwice
<1>18. NamesOf(Only(Only(m, A), D)) = NamesOf(Only(order, D))
  <2>1. Only(m, A) \in Seq(Column)
    BY <1>12, OnlyMembers
  <2> QED  BY <1>9, <1>12, <2>1, OnlyNames
<1>19. NamesOf(Current(P)) = NamesOf(Want)
  BY <1>7, <1>15, <1>16, <1>17, <1>18
<1>20. Current(P) = Want
  BY <1>2, <1>11, <1>19, SameList
<1> QED  BY <1>20 DEF P

LEMMA PreviewAligned ==
    ASSUME conf \in Configurations, NEW B \in Lists, B # <<>>, ~ReplaceRequired(B), conf.ignore
    PROVE  Current(PreviewTable(B)) = Want
<1> DEFINE P == PreviewTable(B)
           m == Managed(P)
<1>1. P \in Lists /\ m \in Lists /\ Want \in Lists
  BY PreviewColumns, CurrentFacts, WantFacts
<1>2. ToSet(m) = ToSet(Want)
  BY <1>1, PreviewColumns, CurrentFacts
<1>3. NameSet(m) = NameSet(Want)
  BY <1>1, <1>2, Columns
<1>4. Current(P) = Align(m)
  BY DEF Current
<1> HIDE DEF m
<1>5. Align(m) \in Lists /\ ToSet(Align(m)) = ToSet(Want)
  BY <1>1, <1>2, AlignFacts
<1>6. PICK first \in Lists : Aligns(m, first)
  BY <1>1, AlignFacts
<1>7. first \in Seq(Column) /\ m \in Seq(Column) /\ Want \in Seq(Column)
  BY <1>1 DEF Lists
<1>8. Only(m, Undeclared) = <<>>
  BY <1>3, <1>7, OnlyNone DEF Undeclared
<1>9. Align(m) = first
  BY <1>6, <1>7, <1>8, CatFacts DEF Aligns, Cat
<1>10. Only(Want, NameSet(m)) = Want
  BY <1>3, <1>7, OnlyAll
<1>11. NamesOf(Align(m)) = NamesOf(Want)
  BY <1>6, <1>9, <1>10 DEF Aligns
<1>12. Align(m) = Want
  BY <1>1, <1>5, <1>11, SameList
<1> QED  BY <1>4, <1>12

(* A preview that the configuration is satisfied with.                        *)
Arrives ==
    running \/ last = "applied" =>
        /\ ToSet(Current(preview)) = ToSet(Want)
        /\ ~added => Current(preview) = Want

LEMMA SameConf ==
    ASSUME conf' = conf
    PROVE  /\ Want' = Want
           /\ \A p : preview' = p => Current(preview)' = Current(p)
BY DEF Want, Current, Align, Managed, Undeclared

LEMMA ArrivesInit == Init => Arrives
BY DEF Init, Arrives

LEMMA ArrivesNext == Typed /\ OnTheWay /\ Arrives /\ [Next]_vars => Arrives'
<1> SUFFICES ASSUME Typed, OnTheWay, Arrives, [Next]_vars PROVE Arrives'
  OBVIOUS
<1>1. conf' = conf
  BY DEF Next, Provider, Reconcile, ReconcileRefused, SendGroup, GroupRejected, GroupFails, Reconciled,
         OtherClient, End, vars
<1>2. Want' = Want /\ \A p : preview' = p => Current(preview)' = Current(p)
  BY <1>1, SameConf
<1>3. CASE Reconcile
  <2> DEFINE P == PreviewTable(columns)
  <2>1. conf \in Configurations /\ columns \in Lists /\ columns # <<>> /\ ~ReplaceRequired(columns)
    BY <1>3 DEF Reconcile, Typed
  <2>2. ToSet(Current(P)) = ToSet(Want)
    BY <2>1, PreviewFits
  <2>3. ASSUME Planned(columns).adds = <<>> PROVE Current(P) = Want
    BY <2>1, <2>3, PreviewOrdered, PreviewAligned
  <2>4. preview' = P /\ added' = (Planned(columns).adds # <<>>)
    BY <1>3 DEF Reconcile
  <2> HIDE DEF P
  <2>5. Current(preview)' = Current(P)
    BY <1>2, <2>4
  <2> QED  BY <1>2, <2>2, <2>3, <2>4, <2>5 DEF Arrives
<1>4. CASE preview' = preview /\ added' = added /\ (running' \/ last' = "applied" => running \/ last = "applied")
  <2>1. Current(preview)' = Current(preview)
    BY <1>2, <1>4
  <2> QED  BY <1>2, <1>4, <2>1 DEF Arrives
<1>5. CASE ReconcileRefused
  BY <1>4, <1>5 DEF ReconcileRefused
<1>6. CASE SendGroup
  BY <1>4, <1>6 DEF SendGroup, historyVars
<1>7. CASE GroupRejected
  BY <1>4, <1>7 DEF GroupRejected, End
<1>8. CASE GroupFails
  BY <1>4, <1>8 DEF GroupFails, End
<1>9. CASE Reconciled
  BY <1>4, <1>9 DEF Reconciled, End
<1>10. CASE OtherClient
  BY <1>4, <1>10 DEF OtherClient, historyVars
<1>11. CASE UNCHANGED vars
  BY <1>4, <1>11 DEF vars, historyVars
<1> QED  BY <1>3, <1>5, <1>6, <1>7, <1>8, <1>9, <1>10, <1>11 DEF Next, Provider

LEMMA SpecArrives == Spec => []Arrives
BY SpecTyped, SpecOnTheWay, ArrivesInit, ArrivesNext, PTL DEF Spec

(* An undisturbed apply leaves the configured columns, and in the configured  *)
(* order when its plan added none: one more apply settles the order at most   *)
(* (convergeTable).                                                           *)
THEOREM ConfigurationApplied == Spec => []AppliedUpToOrder
<1>1. OnTheWay /\ Arrives => AppliedUpToOrder
  BY DEF OnTheWay, Arrives, AppliedUpToOrder, Satisfied
<1> QED  BY <1>1, SpecOnTheWay, SpecArrives, PTL

-----------------------------------------------------------------------------
(* What an action leaves alone.                                               *)

Touched(a) ==
    CASE a.do \in {"add", "modify"}  -> {a.column.name}
      [] a.do \in {"remove", "drop"} -> {a.name}
      [] a.do = "rename"             -> {a.name, a.to}

(* An action that moves no column with one of the names K, and that gives no  *)
(* column such a name.                                                        *)
OrderFree(a, K) ==
    /\ a.do = "add"    => a.column.name \notin K
    /\ a.do = "modify" => a.after = Keep \/ a.column.name \notin K
    /\ a.do = "rename" => a.to \notin K

LEMMA TouchedIs ==
    ASSUME NEW a \in Action
    PROVE  /\ a.do \in {"add", "modify"} => Touched(a) = {a.column.name}
           /\ a.do \in {"remove", "drop"} => Touched(a) = {a.name}
           /\ a.do = "rename" => Touched(a) = {a.name, a.to}
BY DEF Touched

LEMMA OnlyUntouched ==
    ASSUME NEW l \in Lists, NEW a \in Action, NEW U, Touched(a) \cap U = {}, Sent(l, a) # Rejected
    PROVE  Only(Sent(l, a), U) = Only(l, U)
<1> DEFINE m == Apply(l, a)
<1>1. Accepts(l, a) /\ Sent(l, a) = m
  BY SentFacts
<1>2. l \in Seq(Column) /\ Distinct(l)
  BY DEF Lists
<1>3. CASE a.do = "add"
  <2>1. a.column \in Column /\ a.column.name \notin U
    BY <1>3, ActionCases, TouchedIs
  <2>2. m = IF Has(l, a.column.name) THEN l ELSE InsertAfter(l, a.column, a.after)
    BY <1>3, ApplyAdd
  <2>3. Only(InsertAfter(l, a.column, a.after), U) = Only(l, U)
    BY <1>2, <2>1, OnlyInsert
  <2> QED  BY <1>1, <2>2, <2>3
<1> HIDE DEF m
<1>4. ASSUME NEW c \in Column, NEW d \in Column, Swapped(l, m, c, d), d.name = c.name \/ d.name \notin NameSet(l),
             c.name \notin U, d.name \notin U
      PROVE  Only(m, U) = Only(l, U)
  <2>1. Only(m, U) = Only(l, U \ {c.name})
    BY <1>4, SwapFacts
  <2>2. U \ {c.name} = U
    BY <1>4
  <2> QED  BY <2>1, <2>2
<1>5. CASE a.do = "modify"
  <2> DEFINE old == Lookup(l, a.column.name)
             new == Modified(old, a.column)
  <2>1. Has(l, a.column.name)
    BY <1>1, <1>5 DEF Accepts
  <2>2. /\ old \in Column /\ old.name = a.column.name
        /\ new \in Column /\ new.name = a.column.name
        /\ a.after = Keep => Swapped(l, m, old, new)
        /\ a.after # Keep => m = MoveAfter(l, new, a.after)
    BY <1>5, <2>1, ApplyModify DEF m
  <2>3. a.column.name \notin U
    BY <1>5, TouchedIs
  <2> HIDE DEF old, new
  <2>4. CASE a.after = Keep
    BY <1>1, <1>4, <2>2, <2>3, <2>4
  <2>5. CASE a.after # Keep
    <3>1. Only(MoveAfter(l, new, a.after), U) = Only(l, U)
      BY <1>2, <2>2, <2>3, OnlyMove
    <3> QED  BY <1>1, <2>2, <2>5, <3>1
  <2> QED  BY <2>4, <2>5
<1>6. CASE a.do = "remove"
  <2> DEFINE old == [name |-> a.name, kind |-> a.kind]
             new == [name |-> a.name, kind |-> "ordinary"]
  <2>1. old \in Column /\ new \in Column /\ Swapped(l, m, old, new)
    BY <1>1, <1>6, ApplyRemove DEF m
  <2>2. old.name = a.name /\ new.name = a.name /\ a.name \notin U
    BY <1>6, TouchedIs
  <2> HIDE DEF old, new
  <2> QED  BY <1>1, <1>4, <2>1, <2>2
<1>7. CASE a.do = "rename"
  <2> DEFINE old == Lookup(l, a.name)
             new == [old EXCEPT !.name = a.to]
  <2>1. /\ old \in Column /\ old.name = a.name /\ new \in Column /\ new.name = a.to
        /\ a.to \notin NameSet(l) /\ Swapped(l, m, old, new)
    BY <1>1, <1>7, ApplyRename DEF m
  <2>2. a.name \notin U /\ a.to \notin U
    BY <1>7, TouchedIs
  <2> HIDE DEF old, new
  <2> QED  BY <1>1, <1>4, <2>1, <2>2
<1>8. CASE a.do = "drop"
  <2>1. m = Only(l, Names \ {a.name}) /\ a.name \notin U
    BY <1>8, ApplyDrop, TouchedIs DEF m, Without
  <2>2. Only(m, U) = Only(l, (Names \ {a.name}) \cap U)
    BY <1>2, <2>1, OnlyTwice
  <2>3. NameSet(l) \cap ((Names \ {a.name}) \cap U) = NameSet(l) \cap U
    BY <1>2, <2>1, NamesSeq
  <2> QED  BY <1>1, <1>2, <2>2, <2>3, OnlySame
<1> QED  BY <1>3, <1>5, <1>6, <1>7, <1>8, ActionCases

LEMMA CommonWithout ==
    ASSUME NEW l \in Lists, NEW b \in Lists, Common(l, b) = Common(b, l), NEW x
    PROVE  NamesOf(Only(l, NameSet(b) \ {x})) = NamesOf(Only(b, NameSet(l) \ {x}))
<1> DEFINE lb == Only(l, NameSet(b))
           bl == Only(b, NameSet(l))
           S == Names \ {x}
<1>1. l \in Seq(Column) /\ b \in Seq(Column) /\ NameSet(l) \subseteq Names /\ NameSet(b) \subseteq Names
  BY NamesSeq DEF Lists
<1>2. lb \in Seq(Column) /\ bl \in Seq(Column) /\ NamesOf(lb) = NamesOf(bl)
  BY <1>1, OnlyMembers DEF Common
<1>3. NamesOf(Only(lb, S)) = NamesOf(Only(bl, S))
  <2> HIDE DEF lb, bl, S
  <2> QED  BY <1>2, OnlyNames
<1>4. Only(lb, S) = Only(l, NameSet(b) \cap S) /\ Only(bl, S) = Only(b, NameSet(l) \cap S)
  BY <1>1, OnlyTwice
<1>5. NameSet(b) \cap S = NameSet(b) \ {x} /\ NameSet(l) \cap S = NameSet(l) \ {x}
  BY <1>1
<1> QED  BY <1>3, <1>4, <1>5

LEMMA CommonKept ==
    ASSUME NEW l \in Lists, NEW b \in Lists, Common(l, b) = Common(b, l),
           NEW a \in Action, OrderFree(a, NameSet(b)), Sent(l, a) # Rejected
    PROVE  Common(Sent(l, a), b) = Common(b, Sent(l, a))
<1> DEFINE m == Apply(l, a)
           K == NameSet(b)
<1>1. Accepts(l, a) /\ Sent(l, a) = m /\ Sent(l, a) \in Lists
  BY SentFacts, SentInLists
<1>2. /\ l \in Seq(Column) /\ Distinct(l) /\ b \in Seq(Column) /\ m \in Seq(Column)
      /\ K \subseteq Names /\ NameSet(l) \subseteq Names
  BY <1>1, NamesSeq DEF Lists
<1> HIDE DEF m
<1>3. NamesOf(Only(l, K)) = NamesOf(Only(b, NameSet(l)))
  BY DEF Common
<1>4. SUFFICES NamesOf(Only(m, K)) = NamesOf(Only(b, NameSet(m)))
  BY <1>1 DEF Common
<1>5. ASSUME NamesOf(m) = NamesOf(l) PROVE NamesOf(Only(m, K)) = NamesOf(Only(b, NameSet(m)))
  <2>1. NameSet(m) = NameSet(l)
    BY <1>2, <1>5, SameNames
  <2>2. NamesOf(Only(m, K)) = NamesOf(Only(l, K))
    BY <1>2, <1>5, OnlyNames
  <2> QED  BY <1>3, <2>1, <2>2
<1>6. ASSUME NEW x, x \notin K, Only(m, K) = Only(l, K), NameSet(m) = NameSet(l) \cup {x}
      PROVE  NamesOf(Only(m, K)) = NamesOf(Only(b, NameSet(m)))
  <2>1. K \cap NameSet(m) = K \cap NameSet(l)
    BY <1>6
  <2>2. Only(b, NameSet(m)) = Only(b, NameSet(l))
    BY <1>2, <2>1, OnlySame
  <2> QED  BY <1>3, <1>6, <2>2
<1>7. ASSUME NEW x, Only(m, K) = Only(l, K \ {x}), K \cap NameSet(m) = K \cap (NameSet(l) \ {x})
      PROVE  NamesOf(Only(m, K)) = NamesOf(Only(b, NameSet(m)))
  <2>1. Only(b, NameSet(m)) = Only(b, NameSet(l) \ {x})
    BY <1>2, <1>7, OnlySame
  <2>2. NamesOf(Only(l, K \ {x})) = NamesOf(Only(b, NameSet(l) \ {x}))
    BY CommonWithout
  <2> QED  BY <1>7, <2>1, <2>2
<1>8. CASE a.do = "add"
  <2>1. a.column \in Column /\ a.column.name \notin K
    BY <1>8, ActionCases DEF OrderFree
  <2>2. m = IF Has(l, a.column.name) THEN l ELSE InsertAfter(l, a.column, a.after)
    BY <1>8, ApplyAdd DEF m
  <2>3. CASE Has(l, a.column.name)
    BY <1>3, <2>2, <2>3
  <2>4. CASE ~Has(l, a.column.name)
    <3>1. Only(m, K) = Only(l, K)
      BY <1>2, <2>1, <2>2, <2>4, OnlyInsert
    <3>2. NameSet(m) = NameSet(l) \cup {a.column.name}
      BY <1>2, <2>1, <2>2, <2>4, InsertFacts
    <3> QED  BY <1>6, <2>1, <3>1, <3>2
  <2> QED  BY <2>3, <2>4
<1>9. CASE a.do = "modify"
  <2> DEFINE old == Lookup(l, a.column.name)
             new == Modified(old, a.column)
  <2>1. Has(l, a.column.name)
    BY <1>1, <1>9 DEF Accepts
  <2>2. /\ old \in Column /\ old.name = a.column.name
        /\ new \in Column /\ new.name = a.column.name
        /\ a.after = Keep => Swapped(l, m, old, new)
        /\ a.after # Keep => m = MoveAfter(l, new, a.after)
    BY <1>9, <2>1, ApplyModify DEF m
  <2> HIDE DEF old, new
  <2>3. CASE a.after = Keep
    <3>1. NamesOf(m) = NamesOf(l)
      BY <2>2, <2>3, SwapFacts
    <3> QED  BY <1>5, <3>1
  <2>4. CASE a.after # Keep
    <3>1. new.name \notin K
      BY <1>9, <2>2, <2>4 DEF OrderFree
    <3>2. Only(m, K) = Only(l, K)
      BY <1>2, <2>2, <2>4, <3>1, OnlyMove
    <3>3. NameSet(m) = NameSet(l) \cup {new.name}
      BY <1>2, <2>2, <2>4, MoveFacts
    <3> QED  BY <1>6, <3>1, <3>2, <3>3
  <2> QED  BY <2>3, <2>4
<1>10. CASE a.do = "remove"
  <2> DEFINE old == [name |-> a.name, kind |-> a.kind]
             new == [name |-> a.name, kind |-> "ordinary"]
  <2>1. old \in Column /\ new \in Column /\ Swapped(l, m, old, new)
    BY <1>1, <1>10, ApplyRemove DEF m
  <2>2. old.name = new.name
    OBVIOUS
  <2> HIDE DEF old, new
  <2>3. NamesOf(m) = NamesOf(l)
    BY <2>1, <2>2, SwapFacts
  <2> QED  BY <1>5, <2>3
<1>11. CASE a.do = "rename"
  <2> DEFINE old == Lookup(l, a.name)
             new == [old EXCEPT !.name = a.to]
  <2>1. /\ old \in Column /\ old.name = a.name /\ new \in Column /\ new.name = a.to
        /\ a.to \notin NameSet(l) /\ Swapped(l, m, old, new)
    BY <1>1, <1>11, ApplyRename DEF m
  <2>2. a.to \notin K
    BY <1>11 DEF OrderFree
  <2> HIDE DEF old, new
  <2>3. NameSet(m) = (NameSet(l) \ {a.name}) \cup {a.to} /\ Only(m, K) = Only(l, K \ {a.name})
    BY <2>1, <2>2, SwapFacts
  <2>4. K \cap NameSet(m) = K \cap (NameSet(l) \ {a.name})
    BY <2>2, <2>3
  <2> QED  BY <1>7, <2>3, <2>4
<1>12. CASE a.do = "drop"
  <2>1. m = Only(l, Names \ {a.name})
    BY <1>12, ApplyDrop DEF m, Without
  <2>2. Only(m, K) = Only(l, (Names \ {a.name}) \cap K)
    BY <1>2, <2>1, OnlyTwice
  <2>3. (Names \ {a.name}) \cap K = K \ {a.name}
    BY <1>2
  <2>4. NameSet(m) = NameSet(l) \cap (Names \ {a.name})
    BY <1>2, <2>1, OnlyMembers
  <2>5. K \cap NameSet(m) = K \cap (NameSet(l) \ {a.name})
    BY <1>2, <2>4
  <2>6. Only(m, K) = Only(l, K \ {a.name})
    BY <2>2, <2>3
  <2> QED  BY <1>7, <2>5, <2>6
<1> QED  BY <1>8, <1>9, <1>10, <1>11, <1>12, ActionCases

Hidden(want) == Unmanaged \ NameSet(want)

(* What a plan for the table b may send: nothing that touches a column that   *)
(* is unmanaged and not configured, and, where the order is ignored, nothing  *)
(* that moves a column of b.                                                  *)
Fine(want, ignore, b) ==
    {a \in Action : Touched(a) \cap Hidden(want) = {} /\ (ignore => OrderFree(a, NameSet(b)))}

LEMMA FineSeq ==
    ASSUME NEW want, NEW ignore, NEW b
    PROVE  /\ Seq(Fine(want, ignore, b)) \subseteq Seq(Action)
           /\ \A g \in Seq(Fine(want, ignore, b)) : g \in Seq(Action)
           /\ \A g \in Seq(Action) :
                 g \in Seq(Fine(want, ignore, b)) <=> \A i \in 1 .. Len(g) : g[i] \in Fine(want, ignore, b)
<1> DEFINE T == Fine(want, ignore, b)
<1>1. T \subseteq Action
  BY DEF Fine
<1> HIDE DEF T
<1>2. \A g \in Seq(T) : g \in Seq(Action)
  BY <1>1
<1>3. ASSUME NEW g \in Seq(Action) PROVE g \in Seq(T) <=> \A i \in 1 .. Len(g) : g[i] \in T
  OBVIOUS
<1> QED  BY <1>2, <1>3 DEF T

(* Whole groups.                                                              *)
LEMMA GroupUntouched ==
    ASSUME NEW want, NEW ignore, NEW b, NEW l \in Lists, NEW g \in Seq(Fine(want, ignore, b)),
           AlterTable(l, g) # Rejected
    PROVE  Only(AlterTable(l, g), Hidden(want)) = Only(l, Hidden(want))
<1> DEFINE U == Hidden(want)
           good == {m \in Lists : Only(m, U) = Only(l, U)}
           T == Fine(want, ignore, b)
<1>1. good \in SUBSET Lists /\ l \in good
  OBVIOUS
<1>2. g \in Seq(Action) /\ \A i \in 1 .. Len(g) : g[i] \in Action /\ g[i] \in T
  BY FineSeq
<1>3. ASSUME NEW m \in good, NEW k \in 1 .. Len(g), Sent(m, g[k]) # Rejected PROVE Sent(m, g[k]) \in good
  <2>1. g[k] \in Action /\ Touched(g[k]) \cap U = {}
    BY <1>2 DEF Fine
  <2> DEFINE a == g[k]
  <2> HIDE DEF a, U
  <2>2. a \in Action /\ Touched(a) \cap U = {} /\ Sent(m, a) # Rejected
    BY <1>3, <2>1 DEF a
  <2>3. Sent(m, a) \in Lists /\ Only(Sent(m, a), U) = Only(m, U)
    BY <2>2, SentInLists, OnlyUntouched
  <2> QED  BY <2>3 DEF a
<1> HIDE DEF good
<1>4. AlterTable(l, g) \in good
  BY <1>1, <1>2, <1>3, AlterKeeps
<1> QED  BY <1>4 DEF good

LEMMA GroupOrder ==
    ASSUME NEW want, NEW b \in Lists, NEW l \in Lists, NEW g \in Seq(Fine(want, TRUE, b)),
           Common(l, b) = Common(b, l), AlterTable(l, g) # Rejected
    PROVE  Common(AlterTable(l, g), b) = Common(b, AlterTable(l, g))
<1> DEFINE good == {m \in Lists : Common(m, b) = Common(b, m)}
           yes == TRUE
           T == Fine(want, yes, b)
<1>1. good \in SUBSET Lists /\ l \in good
  OBVIOUS
<1>2. g \in Seq(Action) /\ \A i \in 1 .. Len(g) : g[i] \in Action /\ g[i] \in T
  <2>1. g \in Seq(T)
    OBVIOUS
  <2> HIDE DEF yes
  <2> QED  BY <2>1, FineSeq
<1>3. ASSUME NEW m \in good, NEW k \in 1 .. Len(g), Sent(m, g[k]) # Rejected PROVE Sent(m, g[k]) \in good
  <2>1. g[k] \in Action /\ OrderFree(g[k], NameSet(b))
    BY <1>2 DEF Fine
  <2> DEFINE a == g[k]
  <2> HIDE DEF a
  <2>2. a \in Action /\ OrderFree(a, NameSet(b)) /\ Sent(m, a) # Rejected
    BY <1>3, <2>1 DEF a
  <2>3. Sent(m, a) \in Lists /\ Common(Sent(m, a), b) = Common(b, Sent(m, a))
    BY <2>2, SentInLists, CommonKept
  <2> QED  BY <2>3 DEF a
<1> HIDE DEF good
<1>4. AlterTable(l, g) \in good
  BY <1>1, <1>2, <1>3, AlterKeeps
<1> QED  BY <1>4 DEF good

(* What the plan sends.                                                       *)
LEMMA FineAction ==
    ASSUME conf \in Configurations, NEW B, NEW a \in Action,
           Touched(a) \subseteq ManagedNames, conf.ignore => OrderFree(a, NameSet(B))
    PROVE  a \in Fine(Want, conf.ignore, B)
<1>1. ManagedNames \cap Hidden(Want) = {}
  BY DEF ManagedNames, Hidden
<1> QED  BY <1>1 DEF Fine

LEMMA FineRenames ==
    ASSUME conf \in Configurations, NEW B \in Lists
    PROVE  Renames(Current(B)) \in Seq(Fine(Want, conf.ignore, B))
<1> DEFINE l == Current(B)
           T == Fine(Want, conf.ignore, B)
           n == Len(l)
<1>1. l \in Lists /\ l \in Seq(Column) /\ NameSet(l) = NameSet(B) \cap ManagedNames
  BY CurrentFacts DEF Lists
<1> HIDE DEF l
<1>2. ASSUME NEW i \in RenamedAt(l) PROVE Rename(l, i) \in T
  <2>1. /\ l[i].name \in NameSet(l) /\ Want[i].name \in NameSet(Want) /\ Want[i].name \notin NameSet(l)
    BY <1>1, RenamedAtFacts
  <2>2. Rename(l, i) \in Action
    BY <1>1, RenameType
  <2>3. Rename(l, i).do = "rename" /\ Rename(l, i).name = l[i].name /\ Rename(l, i).to = Want[i].name
    BY DEF Rename
  <2> DEFINE a == Rename(l, i)
  <2>4. a \in Action /\ a.do = "rename" /\ a.name = l[i].name /\ a.to = Want[i].name
    BY <2>2, <2>3
  <2> HIDE DEF a
  <2>5. Touched(a) \subseteq ManagedNames
    BY <1>1, <2>1, <2>4, TouchedIs DEF ManagedNames
  <2>6. OrderFree(a, NameSet(B))
    BY <1>1, <2>1, <2>4 DEF OrderFree, ManagedNames
  <2>7. a \in T
    BY <2>4, <2>5, <2>6, FineAction
  <2> QED  BY <2>7 DEF a
<1>3. PICK f : /\ f[0] = <<>>
               /\ \A k \in 1 .. Len(l) : /\ f[k - 1] \in Seq(Action)
                                         /\ f[k] = (IF k \in RenamedAt(l) THEN Append(f[k - 1], Rename(l, k))
                                                    ELSE f[k - 1])
               /\ Renames(l) = f[Len(l)]
  BY <1>1, RenamesFold
<1> DEFINE S == {k \in 0 .. n : f[k] \in Seq(T)}
<1> HIDE DEF T
<1>4. n \in Nat
  BY <1>1
<1>5. 0 \in S
  <2>1. 0 \in 0 .. n /\ f[0] \in Seq(T)
    BY <1>3, <1>4
  <2> QED  BY <2>1
<1>6. ASSUME NEW k \in 1 .. n, k - 1 \in S PROVE k \in S
  <2>1. f[k - 1] \in Seq(T) /\ k \in 0 .. n
    BY <1>4, <1>6
  <2>2. f[k] \in Seq(T)
    <3>1. CASE k \in RenamedAt(l)
      <4>1. f[k] = Append(f[k - 1], Rename(l, k)) /\ Rename(l, k) \in T
        BY <1>2, <1>3, <3>1
      <4> QED  BY <2>1, <4>1
    <3>2. CASE k \notin RenamedAt(l)
      BY <1>3, <2>1, <3>2
    <3> QED  BY <3>1, <3>2
  <2> QED  BY <2>1, <2>2
<1>7. S \in SUBSET (0 .. n)
  OBVIOUS
<1> HIDE DEF S
<1>8. \A k \in 0 .. n : k \in S
  BY <1>4, <1>5, <1>6, <1>7, InductTo
<1>9. n \in S
  <2>1. n \in 0 .. n
    BY <1>4
  <2> QED  BY <1>8, <2>1
<1> QED  BY <1>3, <1>9 DEF S, T, l

LEMMA FineAdds ==
    ASSUME conf \in Configurations, NEW B \in Lists, NEW plan, NEW walk, WalkOK(B, plan, walk, Len(Want))
    PROVE  plan.adds \in Seq(Fine(Want, conf.ignore, B))
<1> DEFINE T == Fine(Want, conf.ignore, B)
<1>1. plan.adds \in Seq(Action)
  BY DEF WalkOK, Plans
<1>2. ASSUME NEW i \in 1 .. Len(plan.adds) PROVE plan.adds[i] \in T
  <2>1. PICK j \in Missing(B, Len(Want)) : plan.adds[i] = Add(j)
    BY DEF WalkOK
  <2>2. j \in 1 .. Len(Want) /\ Want[j].name \notin NameSet(Aligned(B))
    BY <2>1 DEF Missing
  <2>3. Want[j].name \in NameSet(Want) /\ Want[j].name \notin NameSet(B)
    <3>1. Want[j].name \in NameSet(Want)
      BY <2>2, WantFacts
    <3>2. NameSet(B) \cap NameSet(Want) \subseteq NameSet(Aligned(B))
      BY StartFacts
    <3> QED  BY <2>2, <3>1, <3>2
  <2> DEFINE a == plan.adds[i]
  <2>4. a \in Action
    BY <1>1
  <2>5. a.do = "add" /\ a.column = Want[j]
    BY <2>1 DEF Add
  <2> HIDE DEF a
  <2>6. Touched(a) \subseteq ManagedNames /\ OrderFree(a, NameSet(B))
    BY <2>3, <2>4, <2>5, TouchedIs DEF ManagedNames, OrderFree
  <2>7. a \in T
    BY <2>4, <2>6, FineAction
  <2> QED  BY <2>7 DEF a
<1> QED  BY <1>1, <1>2, FineSeq

LEMMA FineDrops ==
    ASSUME conf \in Configurations, NEW B \in Lists, Drops(Aligned(B)) \in Seq(Action)
    PROVE  Drops(Aligned(B)) \in Seq(Fine(Want, conf.ignore, B))
<1> DEFINE T == Fine(Want, conf.ignore, B)
           gone == Dropped(Aligned(B))
           ds == Drops(Aligned(B))
<1>1. gone \in Seq(Column) /\ NameSet(gone) \subseteq ManagedNames
  BY StartFacts, OnlyMembers DEF Dropped, Lists
<1>2. Len(ds) = Len(gone) /\ \A i \in 1 .. Len(gone) : ds[i] = [do |-> "drop", name |-> gone[i].name]
  <2>1. ds = DropList(gone)
    BY DEF Drops, DropList
  <2> HIDE DEF gone, ds
  <2> QED  BY <1>1, <2>1, DropListFacts
<1>3. ASSUME NEW i \in 1 .. Len(ds) PROVE ds[i] \in T
  <2> DEFINE a == ds[i]
  <2>1. a \in Action
    OBVIOUS
  <2> HIDE DEF gone, ds
  <2>2. a.do = "drop" /\ a.name = gone[i].name /\ i \in 1 .. Len(gone)
    <3>1. i \in 1 .. Len(gone)
      BY <1>2
    <3>2. a = [do |-> "drop", name |-> gone[i].name]
      BY <1>2, <3>1
    <3> HIDE DEF a
    <3> QED  BY <3>1, <3>2
  <2> HIDE DEF a
  <2>3. a.name \in ManagedNames
    BY <1>1, <2>2, NamesSeq
  <2>4. Touched(a) \subseteq ManagedNames /\ OrderFree(a, NameSet(B))
    BY <2>1, <2>2, <2>3, TouchedIs DEF OrderFree
  <2>5. a \in T
    BY <2>1, <2>4, FineAction
  <2> QED  BY <2>5 DEF a
<1> QED  BY <1>3, FineSeq

LEMMA FineRemove ==
    ASSUME conf \in Configurations, NEW B, NEW old \in Column, NEW new \in Column,
           new.name \in NameSet(Want)
    PROVE  RemoveExpression(old, new) \in Seq(Fine(Want, conf.ignore, B))
<1> DEFINE a == [do |-> "remove", name |-> new.name, kind |-> old.kind]
           T == Fine(Want, conf.ignore, B)
<1>1. CASE old.kind = "DEFAULT" /\ new.kind # "DEFAULT"
  <2>1. a \in Action
    BY <1>1, ColumnFields DEF Action
  <2>2. a.do = "remove" /\ a.name = new.name
    OBVIOUS
  <2>3. RemoveExpression(old, new) = <<a>>
    BY <1>1 DEF RemoveExpression
  <2> HIDE DEF a
  <2>4. Touched(a) \subseteq ManagedNames /\ OrderFree(a, NameSet(B))
    BY <2>1, <2>2, TouchedIs DEF OrderFree, ManagedNames
  <2>5. a \in T
    BY <2>1, <2>4, FineAction
  <2> HIDE DEF T
  <2> QED  BY <2>3, <2>5 DEF T
<1>2. CASE ~(old.kind = "DEFAULT" /\ new.kind # "DEFAULT")
  <2>1. RemoveExpression(old, new) = <<>>
    BY <1>2 DEF RemoveExpression
  <2> HIDE DEF T
  <2>2. RemoveExpression(old, new) \in Seq(T)
    BY <2>1
  <2> QED  BY <2>2 DEF T
<1> QED  BY <1>1, <1>2

LEMMA FineModify ==
    ASSUME conf \in Configurations, NEW B, NEW old \in Column, NEW new \in Column,
           new.name \in NameSet(Want), NEW moved, NEW p \in Position,
           conf.ignore /\ moved => new.name \notin NameSet(B)
    PROVE  ModifyColumn(old, new, moved, p) \in Seq(Fine(Want, conf.ignore, B))
<1> DEFINE after == IF moved THEN p ELSE Keep
           a == [do |-> "modify", column |-> new, after |-> after]
           T == Fine(Want, conf.ignore, B)
<1>1. CASE moved \/ (new.kind # "ordinary" /\ old.kind # new.kind)
  <2>1. ModifyColumn(old, new, moved, p) = <<a>>
    BY <1>1 DEF ModifyColumn
  <2>2. after \in Position
    BY DEF Position
  <2>3. after = Keep \/ moved
    OBVIOUS
  <2> HIDE DEF after
  <2>4. a \in Action /\ a.do = "modify" /\ a.column = new /\ a.after = after
    BY <2>2 DEF Action
  <2> HIDE DEF a
  <2>5. Touched(a) \subseteq ManagedNames
    BY <2>4, TouchedIs DEF ManagedNames
  <2>6. conf.ignore => OrderFree(a, NameSet(B))
    BY <2>3, <2>4 DEF OrderFree
  <2>7. a \in T
    BY <2>4, <2>5, <2>6, FineAction
  <2> HIDE DEF T
  <2> QED  BY <2>1, <2>7 DEF T
<1>2. CASE ~(moved \/ (new.kind # "ordinary" /\ old.kind # new.kind))
  <2>1. ModifyColumn(old, new, moved, p) = <<>>
    BY <1>2 DEF ModifyColumn
  <2> HIDE DEF T
  <2>2. ModifyColumn(old, new, moved, p) \in Seq(T)
    BY <2>1
  <2> QED  BY <2>2 DEF T
<1> QED  BY <1>1, <1>2

(* What a turn adds to the modifications, for a column that the list has.     *)
Extended(modifies, list, i) ==
    modifies \o RemoveExpression(Old(list, i), Want[i])
             \o ModifyColumn(Old(list, i), Want[i], Shift(list, i), Previous(Want, i))

LEMMA ModifiesAre ==
    ASSUME conf \in Configurations, NEW plan \in Plans, NEW i \in 1 .. Len(Want)
    PROVE  /\ ~Has(plan.order, Want[i].name) => PlanColumn(plan, i).modifies = plan.modifies
           /\ Has(plan.order, Want[i].name) =>
                 PlanColumn(plan, i).modifies = Extended(plan.modifies, plan.order, i)
BY PlanColumnIs DEF Extended

LEMMA FineModifies ==
    ASSUME conf \in Configurations, NEW B \in Lists, B # <<>>, NEW f, NEW g, Folding(B, f, g)
    PROVE  f[Len(Want)].modifies \in Seq(Fine(Want, conf.ignore, B))
<1> DEFINE T == Fine(Want, conf.ignore, B)
           n == Len(Want)
           S == {k \in 0 .. n : f[k].modifies \in Seq(T)}
<1>1. n \in Nat
  BY WantFacts
<1>2. /\ f[0] = PlanStart(B)
      /\ \A k \in 1 .. n : f[k - 1] \in Plans /\ f[k] = PlanColumn(f[k - 1], k)
  BY DEF Folding
<1> HIDE DEF T
<1>3. 0 \in S
  <2>1. f[0].modifies = <<>>
    BY <1>2 DEF PlanStart
  <2>2. 0 \in 0 .. n /\ f[0].modifies \in Seq(T)
    BY <1>1, <2>1
  <2> QED  BY <2>2
<1>4. ASSUME NEW k \in 1 .. n, k - 1 \in S PROVE k \in S
  <2> DEFINE plan == f[k - 1]
             c == Want[k]
             p == Previous(Want, k)
             old == Old(plan.order, k)
             first == RemoveExpression(old, c)
             second == ModifyColumn(old, c, Shift(plan.order, k), p)
  <2>1. plan \in Plans /\ plan.modifies \in Seq(T) /\ k - 1 \in 0 .. n /\ f[k] = PlanColumn(plan, k)
    BY <1>2, <1>4
  <2>2. plan.order \in Lists /\ ShapeAt(Fixed(B), plan.order, k - 1)
    BY <2>1, WalkInvariant, ShapeInvariant DEF WalkOK
  <2>3. Shift(plan.order, k) => c.name \notin Fixed(B)
    BY <2>1, <2>2, ShapeStep
  <2>4. c \in Column /\ c.name \in NameSet(Want) /\ p \in Position
    BY WantFacts, PreviousFacts
  <2>5. CASE ~Has(plan.order, c.name)
    <3>1. f[k].modifies = plan.modifies
      BY <2>1, <2>5, ModifiesAre
    <3> QED  BY <1>1, <2>1, <3>1
  <2>6. CASE Has(plan.order, c.name)
    <3>1. old \in Column
      BY <2>2, <2>6, LookupFacts DEF Old, Lists
    <3>2. f[k].modifies = plan.modifies \o first \o second
      <4>1. f[k].modifies = Extended(plan.modifies, plan.order, k)
        BY <2>1, <2>6, ModifiesAre
      <4> QED  BY <4>1 DEF Extended
    <3> HIDE DEF plan, c, p, old
    <3>3. first \in Seq(T)
      BY <2>4, <3>1, FineRemove DEF T
    <3>4. conf.ignore /\ Shift(plan.order, k) => c.name \notin NameSet(B)
      BY <2>3 DEF Fixed
    <3>5. second \in Seq(T)
      BY <2>4, <3>1, <3>4, FineModify DEF T
    <3>6. plan.modifies \o first \o second \in Seq(T)
      <4> HIDE DEF first, second
      <4> QED  BY <2>1, <3>3, <3>5
    <3>7. k \in 0 .. n
      BY <1>1
    <3> QED  BY <3>2, <3>6, <3>7
  <2> QED  BY <2>5, <2>6
<1>5. S \in SUBSET (0 .. n)
  OBVIOUS
<1> HIDE DEF S
<1>6. \A k \in 0 .. n : k \in S
  BY <1>1, <1>3, <1>4, <1>5, InductTo
<1>7. n \in 0 .. n
  BY <1>1
<1>8. n \in S
  BY <1>6, <1>7
<1> QED  BY <1>8 DEF S, T

LEMMA FineGroups ==
    ASSUME conf \in Configurations, NEW B \in Lists, B # <<>>, ~ReplaceRequired(B)
    PROVE  ActionGroups(B) \in Seq(Seq(Fine(Want, conf.ignore, B)))
<1> DEFINE T == Fine(Want, conf.ignore, B)
           r == Renames(Current(B))
           a == Planned(B).adds
           m == Planned(B).modifies
           d == Drops(Aligned(B))
<1>1. PICK f, g : Folding(B, f, g)
  BY FoldingExists
<1>2. WalkOK(B, Planned(B), Walked(B), Len(Want)) /\ d \in Seq(Action)
  BY PreviewRuns DEF PlanRun
<1>3. f[Len(Want)] = Planned(B)
  BY <1>1 DEF Folding
<1>4. r \in Seq(T)
  BY FineRenames
<1>5. a \in Seq(T)
  BY <1>2, FineAdds
<1>6. m \in Seq(T)
  BY <1>1, <1>3, FineModifies
<1>7. d \in Seq(T)
  BY <1>2, FineDrops
<1>8. ActionGroups(B) = Group(r) \o Group(a) \o Group(m) \o Group(d)
  BY DEF ActionGroups, InGroups
<1> HIDE DEF r, a, m, d, T
<1>9. ASSUME NEW x \in Seq(T) PROVE Group(x) \in Seq(Seq(T))
  BY DEF Group
<1>10. Group(r) \in Seq(Seq(T)) /\ Group(a) \in Seq(Seq(T)) /\ Group(m) \in Seq(Seq(T)) /\ Group(d) \in Seq(Seq(T))
  BY <1>4, <1>5, <1>6, <1>7, <1>9
<1> DEFINE gr == Group(r)
           ga == Group(a)
           gm == Group(m)
           gd == Group(d)
           Z == Seq(T)
<1>11. gr \o ga \o gm \o gd \in Seq(Z)
  <2>1. gr \in Seq(Z) /\ ga \in Seq(Z) /\ gm \in Seq(Z) /\ gd \in Seq(Z)
    BY <1>10
  <2> HIDE DEF gr, ga, gm, gd, Z
  <2> QED  BY <2>1
<1> QED  BY <1>8, <1>11 DEF T

-----------------------------------------------------------------------------
(* All that is still to be sent is such actions.                              *)
Careful == running => groups \in Seq(Seq(Fine(Want, conf.ignore, before)))

LEMMA SameFine ==
    ASSUME [Next]_vars
    PROVE  conf' = conf /\ Want' = Want
<1>1. conf' = conf
  BY DEF Next, Provider, Reconcile, ReconcileRefused, SendGroup, GroupRejected, GroupFails, Reconciled,
         OtherClient, End, vars
<1> QED  BY <1>1 DEF Want

LEMMA CarefulInit == Init => Careful
BY DEF Init, Careful

LEMMA CarefulNext == Typed /\ Careful /\ [Next]_vars => Careful'
<1> SUFFICES ASSUME Typed, Careful, [Next]_vars PROVE Careful'
  OBVIOUS
<1>1. conf' = conf /\ Want' = Want
  BY SameFine
<1>2. CASE Reconcile
  <2>1. ActionGroups(columns) \in Seq(Seq(Fine(Want, conf.ignore, columns)))
    BY <1>2, FineGroups DEF Reconcile, Typed
  <2> QED  BY <1>1, <1>2, <2>1 DEF Reconcile, Careful
<1>3. CASE running' => running /\ groups' = groups /\ before' = before
  BY <1>1, <1>3 DEF Careful
<1>4. CASE SendGroup
  <2> DEFINE Z == Seq(Fine(Want, conf.ignore, before))
  <2>1. running /\ groups # <<>> /\ groups' = Tail(groups) /\ before' = before
    BY <1>4 DEF SendGroup, historyVars
  <2>2. groups \in Seq(Z)
    BY <2>1 DEF Careful
  <2>3. Tail(groups) \in Seq(Z)
    <3> HIDE DEF Z
    <3> QED  BY <2>1, <2>2, HeadTailProperties
  <2> QED  BY <1>1, <2>1, <2>3 DEF Careful
<1>5. CASE ReconcileRefused
  BY <1>3, <1>5 DEF ReconcileRefused
<1>6. CASE GroupRejected
  BY <1>3, <1>6 DEF GroupRejected, End
<1>7. CASE GroupFails
  BY <1>3, <1>7 DEF GroupFails, End
<1>8. CASE Reconciled
  BY <1>3, <1>8 DEF Reconciled, End
<1>9. CASE OtherClient
  BY <1>3, <1>9 DEF OtherClient, historyVars
<1>10. CASE UNCHANGED vars
  BY <1>3, <1>10 DEF vars, historyVars
<1> QED  BY <1>2, <1>4, <1>5, <1>6, <1>7, <1>8, <1>9, <1>10 DEF Next, Provider

LEMMA SpecCareful == Spec => []Careful
BY SpecTyped, CarefulInit, CarefulNext, PTL DEF Spec

(* What a group that is sent does to the table.                               *)
LEMMA CarefulGroup ==
    ASSUME Typed, Careful, running, groups # <<>>, Result # Rejected
    PROVE  /\ Unnamed(Result) = Unnamed(columns)
           /\ conf.ignore /\ Common(columns, before) = Common(before, columns)
                 => Common(Result, before) = Common(before, Result)
<1> DEFINE g == Head(groups)
           Z == Seq(Fine(Want, conf.ignore, before))
<1>1. groups \in Seq(Z)
  BY DEF Careful
<1>2. g \in Z
  <2> HIDE DEF Z
  <2> QED  BY <1>1, HeadTailProperties
<1>3. Result = AlterTable(columns, g) /\ columns \in Lists /\ before \in Lists /\ conf \in Configurations
  BY DEF Result, Typed
<1> HIDE DEF g
<1>4. Only(AlterTable(columns, g), Hidden(Want)) = Only(columns, Hidden(Want))
  BY <1>2, <1>3, GroupUntouched
<1>5. ASSUME conf.ignore, Common(columns, before) = Common(before, columns)
      PROVE  Common(Result, before) = Common(before, Result)
  <2>1. conf.ignore = TRUE
    BY <1>3, <1>5, WantFacts
  <2>2. g \in Seq(Fine(Want, TRUE, before))
    BY <1>2, <2>1
  <2> QED  BY <1>3, <1>5, <2>2, GroupOrder
<1> QED  BY <1>3, <1>4, <1>5 DEF Unnamed, Hidden

LEMMA OrderInit == Init => OrderIgnored
BY DEF Init, OrderIgnored

LEMMA OrderNext == Typed /\ Careful /\ OrderIgnored /\ [Next]_vars => OrderIgnored'
<1> SUFFICES ASSUME Typed, Careful, OrderIgnored, [Next]_vars PROVE OrderIgnored'
  OBVIOUS
<1>1. conf' = conf
  BY SameFine
<1>2. CASE Reconcile
  BY <1>2 DEF Reconcile, OrderIgnored
<1>3. CASE columns' = columns /\ before' = before /\ disturbed' = disturbed
  BY <1>1, <1>3 DEF OrderIgnored
<1>4. CASE /\ running /\ groups # <<>> /\ Result # Rejected
           /\ columns' = Result /\ before' = before /\ disturbed' = disturbed
  BY <1>1, <1>4, CarefulGroup DEF OrderIgnored
<1>5. CASE ReconcileRefused
  BY <1>3, <1>5 DEF ReconcileRefused
<1>6. CASE SendGroup
  BY <1>4, <1>6 DEF SendGroup, historyVars
<1>7. CASE GroupRejected
  BY <1>3, <1>7 DEF GroupRejected, End
<1>8. CASE GroupFails
  BY <1>3, <1>4, <1>8 DEF GroupFails, End
<1>9. CASE Reconciled
  BY <1>3, <1>9 DEF Reconciled, End
<1>10. CASE OtherClient
  BY <1>10 DEF OtherClient, OrderIgnored
<1>11. CASE UNCHANGED vars
  BY <1>3, <1>11 DEF vars, historyVars
<1> QED  BY <1>2, <1>5, <1>6, <1>7, <1>8, <1>9, <1>10, <1>11 DEF Next, Provider

(* With ignore_column_order, the columns that keep their names keep their     *)
(* order, after every group and also when the apply ends early.               *)
THEOREM OrderLeftAlone == Spec => []OrderIgnored
BY SpecTyped, SpecCareful, OrderInit, OrderNext, PTL DEF Spec

LEMMA UnmanagedStep ==
    Typed /\ Careful /\ [Next]_vars
       => [drift' = drift => Unnamed(columns') = Unnamed(columns)]_vars
<1> SUFFICES ASSUME Typed, Careful, Next, drift' = drift PROVE Unnamed(columns') = Unnamed(columns)
  OBVIOUS
<1>1. CASE columns' = columns
  BY <1>1
<1>2. CASE running /\ groups # <<>> /\ Result # Rejected /\ columns' = Result
  BY <1>2, CarefulGroup
<1>3. CASE Reconcile
  BY <1>1, <1>3 DEF Reconcile
<1>4. CASE ReconcileRefused
  BY <1>1, <1>4 DEF ReconcileRefused
<1>5. CASE SendGroup
  BY <1>2, <1>5 DEF SendGroup
<1>6. CASE GroupRejected
  BY <1>1, <1>6 DEF GroupRejected
<1>7. CASE GroupFails
  BY <1>1, <1>2, <1>7 DEF GroupFails
<1>8. CASE Reconciled
  BY <1>1, <1>8 DEF Reconciled
<1>9. CASE OtherClient
  <2>1. drift \in Nat /\ drift' = drift + 1
    BY <1>9, ColumnAssumption DEF OtherClient, Typed
  <2> QED  BY <2>1
<1> QED  BY <1>3, <1>4, <1>5, <1>6, <1>7, <1>8, <1>9 DEF Next, Provider

(* No step of the provider changes or drops columns that match                *)
(* unmanaged_columns and are not configured, or moves them past one another   *)
(* (filterUnmanaged), whoever changed the table meanwhile.                    *)
THEOREM UnmanagedLeftAlone == Spec => UnmanagedKept
BY SpecTyped, SpecCareful, UnmanagedStep, PTL DEF Spec, UnmanagedKept

=============================================================================
