--------------------------- MODULE SQLPlanProofs ---------------------------
(* What SQLPlan satisfies for every kind of resource, any number of nodes,   *)
(* and whatever fails or changes between a plan and its apply.               *)
EXTENDS SQLPlan, WellFoundedInduction, TLAPS

-----------------------------------------------------------------------------
(* Sets of numbers, and the operations the reviewed client finds.             *)

LEMMA Minimum ==
    ASSUME NEW S \in SUBSET Nat, S # {}
    PROVE  \E m \in S : \A k \in S : m <= k
<1> DEFINE less == OpToRel(<, Nat)
<1>1. IsWellFoundedOn(less, Nat)
  BY NatLessThanWellFounded
<1>2. \A k, m \in Nat : k < m <=> <<k, m>> \in less
  BY DEF OpToRel
<1> HIDE DEF less
<1>3. PICK m \in S : \A k \in S : <<k, m>> \notin less
  BY <1>1, WFMin
<1>4. ASSUME NEW k \in S PROVE m <= k
  <2>1. k \in Nat /\ m \in Nat /\ ~(k < m)
    BY <1>2, <1>3
  <2> QED  BY <2>1
<1> QED  BY <1>4

Op == [target : Node, statement : Statements]

LEMMA OperationType ==
    ASSUME NEW n \in Node, NEW x \in Statements
    PROVE  Operation(n, x) \in Op
BY DEF Op, Operation

LEMMA FirstFound ==
    ASSUME operations \in List, NEW n \in Node, NEW x, Found(n, x) # {}
    PROVE  /\ First(n, x) \in 1 .. Len(operations)
           /\ First(n, x) > positions[n]
           /\ operations[First(n, x)] = Operation(n, x)
<1>1. Found(n, x) \in SUBSET Nat
  BY DEF Found, List
<1>2. First(n, x) \in Found(n, x)
  BY <1>1, Minimum DEF First
<1> QED  BY <1>2 DEF Found, List

-----------------------------------------------------------------------------
(* The type invariant.  It needs to know where the writing loop stands.       *)

AtInv == pc = "write" => at \in Node

CallType ==
    /\ stage \in Stage /\ pc \in PC
    /\ at \in 1 .. N + 1 /\ existing \subseteq Node
    /\ todo \in Seq(Statements)
    /\ operations \in List
    /\ positions \in [Node -> Nat]
    /\ preview \in [Node -> Objects \cup {None, Live}]
    /\ failed \in BOOLEAN

LEMMA CallOK ==
    ASSUME NEW s \in Stage, NEW p \in PC \ {"write"}, NEW list \in List, Call(s, p, list)
    PROVE  CallType' /\ AtInv'
<1>1. 1 \in 1 .. N + 1
  BY SQLPlanAssumption
<1>2. todo' = <<>> /\ existing' = {} /\ failed' = FALSE
  BY DEF Call
<1>3. positions' \in [Node -> Nat] /\ preview' \in [Node -> Objects \cup {None, Live}]
  BY DEF Call
<1>4. stage' \in Stage /\ pc' \in PC /\ pc' # "write" /\ at' = 1 /\ operations' \in List
  BY DEF Call
<1>5. todo' \in Seq(Statements) /\ existing' \subseteq Node
  BY <1>2
<1>6. failed' \in BOOLEAN
  BY <1>2
<1> QED  BY <1>1, <1>3, <1>4, <1>5, <1>6 DEF CallType, AtInv

LEMMA NewDraftType ==
    NewDraft \in [replace : BOOLEAN, known : BOOLEAN, deletes : List] /\ <<>> \in List
BY DEF NewDraft, List

LEMMA IdleOK ==
    ASSUME Idle
    PROVE  /\ CallType' /\ AtInv'
           /\ draft' \in [replace : BOOLEAN, known : BOOLEAN, deletes : List]
BY CallOK, NewDraftType DEF Idle, Stage, PC

LEMMA DraftType ==
    ASSUME NEW want
    PROVE  Draft(want) \in [replace : BOOLEAN, known : BOOLEAN, deletes : List]
<1>1. Replaces(want) \in BOOLEAN
  BY DEF Replaces
<1>2. (tf # None /\ ~Replaces(want) /\ Known(want)) \in BOOLEAN
  OBVIOUS
<1> QED  BY <1>1, <1>2, NewDraftType DEF Draft

LEMMA NodeIndex == \A n \in Node : n \in 1 .. N + 1 /\ n + 1 \in 1 .. N + 1
BY SQLPlanAssumption DEF Node

LEMMA ReadType ==
    ASSUME TypeOK, NEW n \in Node
    PROVE  Read(n) \in Objects \cup {None}
BY DEF Read, TypeOK

LEMMA SeenType ==
    ASSUME TypeOK
    PROVE  Seen \in [Node -> Objects \cup {None}]
BY ReadType DEF Seen

LEMMA ExecType ==
    ASSUME TypeOK, NEW n \in Node, NEW x \in Statements, Exec(n, x)
    PROVE  /\ objects' \in [Node -> Objects \cup {None}]
           /\ operations' \in List /\ wrote' \in List
           /\ positions' \in [Node -> Nat]
           /\ preview' \in [Node -> Objects \cup {None, Live}]
<1>1. Operation(n, x) \in Op
  BY OperationType
<1>2. CASE Recording
  <2>1. After(Seen, n, x)[n] \in Objects \cup {None}
    BY SeenType, SQLPlanAssumption
  <2>2. preview' = [preview EXCEPT ![n] = After(Seen, n, x)[n]]
    BY <1>2 DEF Exec, Record
  <2>3. preview' \in [Node -> Objects \cup {None, Live}]
    BY <2>1, <2>2 DEF TypeOK
  <2>4. operations' = Append(operations, Operation(n, x))
    BY <1>2 DEF Exec, Record
  <2>5. operations' \in List
    BY <1>1, <2>4 DEF TypeOK, List, Op
  <2> QED  BY <1>2, <2>3, <2>5 DEF Exec, Record, TypeOK
<1>3. CASE ~Recording
  <2>1. Found(n, x) # {} /\ positions' = [positions EXCEPT ![n] = First(n, x)]
    BY <1>3 DEF Exec, Perform, Send
  <2>2. First(n, x) \in Nat
    BY <2>1, FirstFound DEF TypeOK
  <2>3. positions' \in [Node -> Nat]
    BY <2>1, <2>2 DEF TypeOK
  <2>4. objects' \in [Node -> Objects \cup {None}]
    BY <1>3, SQLPlanAssumption DEF Exec, Perform, TypeOK
  <2>5. wrote' = Append(wrote, Operation(n, x)) /\ UNCHANGED <<operations, preview>>
    BY <1>3 DEF Exec, Perform, Send
  <2>6. wrote' \in List
    BY <1>1, <2>5 DEF TypeOK, List, Op
  <2> QED  BY <2>3, <2>4, <2>5, <2>6 DEF TypeOK
<1> QED  BY <1>2, <1>3

LEMMA WantType ==
    ASSUME TypeOK, saved # None \/ stage = "plan"
    PROVE  Want \in Configs \cup {None}
BY DEF Want, TypeOK, Saved

(* Which call runs for what, and with which list.                             *)
CallInv ==
    /\ AtInv
    /\ stage = "idle" <=> pc = "idle"
    /\ stage = "drop" => pc = "delete"
    /\ pc = "delete" => stage \in {"plan", "drop"}
    /\ stage \in {"drop", "replan", "apply"} => saved # None
    /\ stage \in {"replan", "apply"} => saved.want # None
    /\ stage = "plan" => saved = None /\ wrote = <<>>
    /\ stage = "plan" /\ config = None => pc = "delete" /\ draft = NewDraft

SavedInv ==
    /\ saved # None /\ saved.want = None => ~saved.replace /\ saved.deletes = <<>>
    /\ saved # None /\ saved.operations # <<>> => saved.digest = saved.operations
    /\ stage = "drop" =>
          operations = IF saved.want = None THEN saved.operations ELSE saved.deletes
    /\ stage = "apply" /\ saved.operations # <<>> => operations \in {saved.operations, <<>>}

(* What a step of the converging loops leaves.                                *)
LoopType ==
    /\ pc \in PC /\ at \in 1 .. N + 1 /\ existing \subseteq Node
    /\ todo \in Seq(Statements)
    /\ operations \in List /\ wrote \in List
    /\ objects \in [Node -> Objects \cup {None}]
    /\ positions \in [Node -> Nat]
    /\ preview \in [Node -> Objects \cup {None, Live}]

RestType ==
    /\ config \in Configs \cup {None}
    /\ tf \in State \cup {None}
    /\ saved \in Saved \cup {None}
    /\ stage \in Stage
    /\ draft \in [replace : BOOLEAN, known : BOOLEAN, deletes : List]
    /\ failed \in BOOLEAN /\ disturbed \in BOOLEAN
    /\ last \in {"none", "applied", "destroyed", "failed", "refused", "blocked"}
    /\ drift \in 0 .. MaxDrift /\ faults \in 0 .. MaxFaults /\ changes \in 0 .. MaxChanges

LEMMA TypeParts == ASSUME LoopType', RestType' PROVE TypeOK'
BY DEF TypeOK, LoopType, RestType

LEMMA EndType ==
    ASSUME TypeOK, NEW outcome \in {"applied", "failed", "refused", "blocked"}, End(outcome),
           disturbed' \in BOOLEAN, faults' \in 0 .. MaxFaults
    PROVE  TypeOK' /\ AtInv'
BY IdleOK DEF End, TypeOK, CallType

LEMMA GotoType ==
    ASSUME TypeOK, NEW p \in PC, Goto(p)
    PROVE  RestType' /\ pc' \in PC
BY DEF Goto, TypeOK, RestType, counters

LEMMA NoExecType ==
    ASSUME TypeOK, NoExec
    PROVE  /\ objects' \in [Node -> Objects \cup {None}]
           /\ operations' \in List /\ wrote' \in List
           /\ positions' \in [Node -> Nat]
           /\ preview' \in [Node -> Objects \cup {None, Live}]
BY DEF NoExec, TypeOK

LEMMA RefreshType == ASSUME TypeOK, Refresh PROVE tf' \in State \cup {None}
<1>1. CASE tf' = None
  BY <1>1
<1>2. CASE Differing # {} /\ tf' = [tf EXCEPT !.config = ReadAs(tf.config, objects[FirstDiffering])]
  <2>1. tf \in State
    BY DEF Refresh, TypeOK
  <2>2. Differing \in SUBSET Nat
    BY SQLPlanAssumption DEF Differing, Node
  <2>3. FirstDiffering \in Differing
    BY <1>2, <2>2, Minimum DEF FirstDiffering
  <2>4. objects[FirstDiffering] \in Objects
    BY <2>3 DEF Differing, TypeOK
  <2>5. ReadAs(tf.config, objects[FirstDiffering]) \in Configs
    BY <2>1, <2>4, SQLPlanAssumption DEF State
  <2> QED  BY <1>2, <2>1, <2>5 DEF State
<1> QED  BY <1>1, <1>2 DEF Refresh

LEMMA SavePlanType == ASSUME TypeOK, SavePlan PROVE saved' \in Saved
<1>1. Digest \in List
  BY NewDraftType DEF Digest, PriorDigest, TypeOK, State
<1>2. draft.known \in BOOLEAN /\ draft.replace \in BOOLEAN /\ draft.deletes \in List
  BY DEF TypeOK
<1> QED  BY <1>1, <1>2 DEF SavePlan, Saved, TypeOK

LEMMA MakePlanType == ASSUME TypeOK, MakePlan PROVE TypeOK' /\ AtInv'
<1>1. PICK p \in {"delete", "survey"} : Call("plan", p, <<>>)
  BY DEF MakePlan
<1>2. CallType' /\ AtInv'
  BY <1>1, CallOK, NewDraftType DEF Stage, PC
<1>3. draft' \in [replace : BOOLEAN, known : BOOLEAN, deletes : List]
  BY DraftType, NewDraftType DEF MakePlan
<1>4. disturbed' \in BOOLEAN
  BY DEF MakePlan
<1> QED  BY <1>2, <1>3, <1>4, NewDraftType DEF MakePlan, TypeOK, CallType, counters

LEMMA StartApplyType == ASSUME TypeOK, StartApply PROVE TypeOK' /\ AtInv'
<1>1. saved \in Saved
  BY DEF StartApply, TypeOK
<1>2. PICK s \in Stage, p \in PC \ {"write"}, list \in List : Call(s, p, list)
  BY <1>1, NewDraftType DEF StartApply, Stage, PC, Saved
<1>3. CallType' /\ AtInv'
  BY <1>2, CallOK
<1> QED  BY <1>3, NewDraftType DEF StartApply, TypeOK, CallType, counters

LEMMA CoreType == ASSUME TypeOK, AtInv, Core PROVE TypeOK' /\ AtInv'
<1>1. CASE Planned
  BY <1>1, SavePlanType, IdleOK DEF Planned, TypeOK, CallType, counters
<1>2. CASE StartApply
  BY <1>2, StartApplyType
<1>3. CASE ReplanUnchanged \/ ReplanReplaces \/ ReplanDiffers
  BY <1>3, EndType DEF ReplanUnchanged, ReplanReplaces, ReplanDiffers, TypeOK
<1>4. CASE Replan
  <2>1. draft' \in [replace : BOOLEAN, known : BOOLEAN, deletes : List]
    BY <1>4, DraftType DEF Replan
  <2> QED  BY <1>4, <2>1, NoExecType DEF Replan, TypeOK, AtInv, PC, counters
<1>5. CASE Replanned
  <2>1. CallType' /\ AtInv'
    BY <1>5, CallOK DEF Replanned, Stage, PC, TypeOK
  <2> QED  BY <1>5, <2>1 DEF Replanned, TypeOK, CallType, counters
<1> QED  BY <1>1, <1>2, <1>3, <1>4, <1>5 DEF Core

LEMMA WriteWant ==
    ASSUME TypeOK, CallInv, pc \notin {"idle", "delete"}
    PROVE  Want \in Configs
BY DEF TypeOK, CallInv, Want, Saved, Stage

LEMMA LoopStep ==
    ASSUME TypeOK, CallInv,
           \/ Survey \/ Reconcile \/ Create \/ Write \/ NextNode \/ LoopDone
    PROVE  TypeOK' /\ AtInv'
<1>1. CASE Survey
  <2>1. existing' \subseteq Node /\ at' = 1 /\ 1 \in 1 .. N + 1
    BY <1>1, NodeIndex, SQLPlanAssumption DEF Survey
  <2>2. "reconcile" \in PC /\ Goto("reconcile") /\ todo' = todo /\ NoExec
    BY <1>1 DEF Survey, PC
  <2>3. RestType' /\ pc' = "reconcile"
    BY <2>2, GotoType DEF Goto
  <2>4. LoopType'
    BY <2>1, <2>2, <2>3, NoExecType DEF LoopType, TypeOK
  <2> QED  BY <2>3, <2>4, TypeParts DEF AtInv
<1>2. CASE Reconcile
  <2>1. Want \in Configs /\ Read(at) \in Objects
    BY <1>2, WriteWant, ReadType DEF Reconcile, CallInv, TypeOK
  <2>2. todo' \in Seq(Statements)
    BY <1>2, <2>1, SQLPlanAssumption DEF Reconcile
  <2>3. RestType' /\ pc' \in PC
    BY <1>2, GotoType DEF Reconcile, PC
  <2>4. LoopType'
    BY <1>2, <2>2, <2>3, NoExecType DEF Reconcile, LoopType, TypeOK
  <2>5. at' \in Node
    BY <1>2 DEF Reconcile, TypeOK
  <2> QED  BY <2>3, <2>4, <2>5, TypeParts DEF AtInv
<1>3. CASE Create
  <2>1. Creation(Want) \in Statements
    BY <1>3, WriteWant, SQLPlanAssumption DEF Create
  <2>2. todo' \in Seq(Statements)
    BY <1>3, <2>1 DEF Create
  <2>3. RestType' /\ pc' \in PC
    BY <1>3, GotoType DEF Create, PC
  <2>4. LoopType'
    BY <1>3, <2>2, <2>3, NoExecType DEF Create, LoopType, TypeOK
  <2> QED  BY <1>3, <2>3, <2>4, TypeParts DEF Create, AtInv, CallInv
<1>4. CASE Write
  <2>1. Head(todo) \in Statements /\ at \in Node /\ Exec(at, Head(todo))
    BY <1>4 DEF Write, TypeOK, CallInv, AtInv
  <2>2. todo' \in Seq(Statements)
    BY <1>4 DEF Write, TypeOK
  <2>3. RestType' /\ pc' \in PC
    BY <1>4, GotoType DEF Write, PC
  <2>4. LoopType'
    BY <1>4, <2>1, <2>2, <2>3, ExecType DEF Write, LoopType, TypeOK
  <2> QED  BY <1>4, <2>1, <2>3, <2>4, TypeParts DEF Write, AtInv
<1>5. CASE NextNode
  <2>1. at \in Node
    BY <1>5 DEF NextNode, TypeOK, CallInv, AtInv
  <2>2. PICK p \in PC \ {"write"} : Goto(p)
    BY <1>5 DEF NextNode, PC
  <2>3. at' \in 1 .. N + 1
    BY <1>5, <2>1, NodeIndex DEF NextNode
  <2>4. RestType' /\ pc' \in PC \ {"write"}
    BY <2>2, GotoType DEF Goto
  <2>5. LoopType'
    BY <1>5, <2>3, <2>4, NoExecType DEF NextNode, LoopType, TypeOK
  <2> QED  BY <2>4, <2>5, TypeParts DEF AtInv
<1>6. CASE LoopDone
  <2>1. PICK p \in PC \ {"write"} : Goto(p)
    BY <1>6 DEF LoopDone, PC
  <2>2. at' \in 1 .. N + 1
    BY <1>6, SQLPlanAssumption DEF LoopDone
  <2>3. RestType' /\ pc' \in PC \ {"write"}
    BY <2>1, GotoType DEF Goto
  <2>4. LoopType'
    BY <1>6, <2>2, <2>3, NoExecType DEF LoopDone, LoopType, TypeOK
  <2> QED  BY <2>3, <2>4, TypeParts DEF AtInv
<1> QED  BY <1>1, <1>2, <1>3, <1>4, <1>5, <1>6

LEMMA RemovalType == Removal \in Statements
BY SQLPlanAssumption

LEMMA DropNodeType == ASSUME TypeOK, DropNode PROVE TypeOK' /\ AtInv'
<1>1. at \in Node /\ at' \in 1 .. N + 1
  BY NodeIndex DEF DropNode
<1>2. RestType' /\ pc' = "delete"
  BY GotoType DEF DropNode, Goto, PC
<1>3. /\ objects' \in [Node -> Objects \cup {None}]
      /\ operations' \in List /\ wrote' \in List
      /\ positions' \in [Node -> Nat]
      /\ preview' \in [Node -> Objects \cup {None, Live}]
  BY <1>1, RemovalType, ExecType, NoExecType DEF DropNode
<1>4. LoopType'
  BY <1>1, <1>2, <1>3 DEF DropNode, LoopType, TypeOK, PC
<1> QED  BY <1>2, <1>4, TypeParts DEF AtInv

LEMMA DropDoneType ==
    ASSUME TypeOK, CallInv, DropDone
    PROVE  TypeOK' /\ AtInv'
<1>1. CASE failed
  BY <1>1, EndType DEF DropDone, TypeOK
<1>2. CASE ~failed /\ stage = "plan" /\ draft.replace
  <2>1. draft' = [draft EXCEPT !.deletes = operations] /\ operations' = <<>>
        /\ pc' = "survey" /\ at' = 1
        /\ UNCHANGED <<objects, config, tf, saved, stage, existing, todo, positions,
                       preview, failed, wrote, last, disturbed, counters>>
    BY <1>2 DEF DropDone
  <2>2. draft' \in [replace : BOOLEAN, known : BOOLEAN, deletes : List]
    BY <2>1 DEF TypeOK
  <2>3. at' \in 1 .. N + 1 /\ pc' \in PC
    BY <2>1, SQLPlanAssumption DEF PC
  <2> QED  BY <2>1, <2>2, <2>3, NewDraftType DEF TypeOK, AtInv, counters
<1>3. CASE ~failed /\ stage = "plan" /\ ~draft.replace
  <2>1. SavePlan /\ Idle /\ UNCHANGED <<objects, config, tf, wrote, last, disturbed, counters>>
    BY <1>3 DEF DropDone
  <2> QED  BY <2>1, SavePlanType, IdleOK DEF TypeOK, CallType, counters
<1>4. CASE ~failed /\ stage # "plan"
  <2>1. /\ tf' = None
        /\ \/ Call("replan", "modify", <<>>) /\ UNCHANGED <<draft, last>>
           \/ Idle /\ last' = "destroyed"
        /\ UNCHANGED <<objects, config, saved, wrote, disturbed, counters>>
    BY <1>4 DEF DropDone
  <2>2. CASE Call("replan", "modify", <<>>) /\ UNCHANGED <<draft, last>>
    <3>1. CallType' /\ AtInv'
      BY <2>2, CallOK, NewDraftType DEF Stage, PC
    <3> QED  BY <2>1, <2>2, <3>1 DEF TypeOK, CallType, counters
  <2>3. CASE Idle /\ last' = "destroyed"
    BY <2>1, <2>3, IdleOK DEF TypeOK, CallType, counters
  <2> QED  BY <2>1, <2>2, <2>3
<1> QED  BY <1>1, <1>2, <1>3, <1>4

LEMMA DropFailedType ==
    ASSUME TypeOK, at \in Node, pc = "delete", DropFailed, disturbed' \in BOOLEAN,
           faults' \in 0 .. MaxFaults,
           objects' \in [Node -> Objects \cup {None}],
           operations' \in List, wrote' \in List,
           positions' \in [Node -> Nat],
           preview' \in [Node -> Objects \cup {None, Live}]
    PROVE  TypeOK' /\ AtInv'
<1>1. at' \in 1 .. N + 1 /\ failed' \in BOOLEAN
  BY NodeIndex DEF DropFailed
<1> QED  BY <1>1 DEF DropFailed, TypeOK, AtInv

LEMMA ResourceType == ASSUME TypeOK, CallInv, Resource PROVE TypeOK' /\ AtInv'
<1>1. CASE Survey \/ Reconcile \/ Create \/ Write \/ NextNode \/ LoopDone
  BY <1>1, LoopStep
<1>2. CASE AlreadyExists \/ ReconcileFails \/ WriteBlocked \/ WriteRejected \/ AppliedGone
  BY <1>2, EndType
     DEF AlreadyExists, ReconcileFails, WriteBlocked, WriteRejected, AppliedGone, TypeOK
<1>3. CASE Applied
  <2>1. saved \in Saved /\ saved.want \in Configs
    BY <1>3 DEF Applied, TypeOK, CallInv, Saved
  <2>2. tf' \in State
    BY <1>3, <2>1 DEF Applied, State, Saved
  <2> QED  BY <1>3, <2>2, IdleOK DEF Applied, TypeOK, CallType, counters
<1>4. CASE DropNode
  BY <1>4, DropNodeType
<1>5. CASE DropBlocked
  BY <1>5, DropFailedType, NoExecType DEF DropBlocked, TypeOK
<1>6. CASE DropDone
  BY <1>6, DropDoneType
<1> QED  BY <1>1, <1>2, <1>3, <1>4, <1>5, <1>6 DEF Resource

LEMMA FaultType ==
    ASSUME TypeOK, Fault
    PROVE  faults' \in 0 .. MaxFaults /\ disturbed' \in BOOLEAN
<1>1. faults' \in 0 .. MaxFaults
  BY SQLPlanAssumption DEF Fault, TypeOK
<1>2. disturbed' \in BOOLEAN
  BY DEF Fault
<1> QED  BY <1>1, <1>2

LEMMA FailureType == ASSUME TypeOK, CallInv, Failure PROVE TypeOK' /\ AtInv'
<1>1. CASE CallFails
  BY <1>1, FaultType, EndType DEF CallFails
<1>2. CASE AnswerLost
  <2>1. Head(todo) \in Statements /\ at \in Node
    BY <1>2 DEF AnswerLost, TypeOK, CallInv, AtInv
  <2>2. objects' \in [Node -> Objects \cup {None}]
    BY <1>2, <2>1, SQLPlanAssumption DEF AnswerLost, TypeOK
  <2>3. Operation(at, Head(todo)) \in Op
    BY <2>1, OperationType
  <2>4. wrote' \in List
    BY <1>2, <2>3 DEF AnswerLost, TypeOK, List, Op
  <2>5. faults' \in 0 .. MaxFaults /\ disturbed' \in BOOLEAN
    BY <1>2, FaultType DEF AnswerLost
  <2> QED  BY <1>2, <2>2, <2>4, <2>5, IdleOK DEF AnswerLost, TypeOK, CallType
<1>3. CASE DropFails
  <2>1. NoExec \/ Exec(at, Removal)
    BY <1>3 DEF DropFails, Exec, Recording, Enforcing
  <2>2. at \in Node /\ pc = "delete" /\ DropFailed
    BY <1>3 DEF DropFails
  <2>3. faults' \in 0 .. MaxFaults /\ disturbed' \in BOOLEAN
    BY <1>3, FaultType DEF DropFails
  <2> QED  BY <2>1, <2>2, <2>3, RemovalType, ExecType, NoExecType, DropFailedType
<1> QED  BY <1>1, <1>2, <1>3 DEF Failure

LEMMA Counts ==
    /\ MaxDrift \in Nat /\ MaxChanges \in Nat
    /\ \A new \in Edits \cup {None} : new \in Configs \cup {None}
BY SQLPlanAssumption

LEMMA TypeStep == ASSUME TypeOK, CallInv, [Next]_vars PROVE TypeOK' /\ AtInv'
<1>1. CASE MakePlan
  BY <1>1, MakePlanType
<1>2. CASE Refresh
  BY <1>2, RefreshType DEF Refresh, TypeOK, AtInv, CallInv, callVars, counters
<1>3. CASE Core
  BY <1>3, CoreType DEF CallInv
<1>4. CASE Resource
  BY <1>4, ResourceType
<1>5. CASE Failure
  BY <1>5, FailureType
<1>6. CASE \E new \in Edits \cup {None} : Reconfigure(new)
  <2>1. config' \in Configs \cup {None} /\ changes' \in 0 .. MaxChanges
    BY <1>6, Counts DEF Reconfigure, TypeOK
  <2> QED  BY <1>6, <2>1 DEF Reconfigure, TypeOK, AtInv, CallInv, callVars
<1>7. ASSUME NEW n \in Node, NEW x \in OtherStatements, OtherClient(n, x)
      PROVE  TypeOK' /\ AtInv'
  <2>1. objects' \in [Node -> Objects \cup {None}]
    BY <1>7, SQLPlanAssumption DEF OtherClient, TypeOK
  <2>3. drift' \in 0 .. MaxDrift
    BY <1>7, Counts DEF OtherClient, TypeOK
  <2>2. disturbed' \in BOOLEAN
    BY <1>7 DEF OtherClient
  <2> QED  BY <1>7, <2>1, <2>2, <2>3 DEF OtherClient, TypeOK, AtInv, CallInv, callVars
<1>8. CASE UNCHANGED vars
  BY <1>8 DEF vars, TypeOK, AtInv, CallInv, callVars, counters
<1> QED  BY <1>1, <1>2, <1>3, <1>4, <1>5, <1>6, <1>7, <1>8 DEF Next

-----------------------------------------------------------------------------
(* Which call runs, and with which list.                                      *)

LEMMA CallCase ==
    ASSUME [Next]_vars
    PROVE  \/ MakePlan \/ Refresh \/ Core \/ Resource \/ Failure
           \/ \E new \in Edits \cup {None} : Reconfigure(new)
           \/ \E n \in Node, x \in OtherStatements : OtherClient(n, x)
           \/ UNCHANGED vars
BY DEF Next

LEMMA CoreCall == ASSUME CallInv, AtInv', Core PROVE CallInv'
<1>1. CASE Planned
  BY <1>1 DEF Planned, Idle, Call, CallInv
<1>2. CASE StartApply
  <2>1. CASE saved.want = None
    BY <1>2, <2>1 DEF StartApply, Call, CallInv
  <2>2. CASE saved.want # None /\ saved.replace
    BY <1>2, <2>2 DEF StartApply, Call, CallInv
  <2>3. CASE saved.want # None /\ ~saved.replace
    BY <1>2, <2>3 DEF StartApply, Call, CallInv
  <2> QED  BY <2>1, <2>2, <2>3
<1>3. CASE ReplanUnchanged \/ ReplanReplaces \/ ReplanDiffers
  BY <1>3 DEF ReplanUnchanged, ReplanReplaces, ReplanDiffers, End, Idle, Call, CallInv
<1>4. CASE Replan
  BY <1>4 DEF Replan, NoExec, CallInv
<1>5. CASE Replanned
  BY <1>5 DEF Replanned, Call, CallInv
<1> QED  BY <1>1, <1>2, <1>3, <1>4, <1>5 DEF Core

LEMMA GotoCall ==
    ASSUME CallInv, AtInv', NEW p \in PC \ {"idle", "delete"}, Goto(p),
           pc \notin {"idle", "delete"}, wrote' = wrote \/ Enforcing
    PROVE  CallInv'
BY DEF Goto, CallInv, Enforcing

LEMMA ResourceCall == ASSUME CallInv, SavedInv, AtInv', Resource PROVE CallInv'
<1>1. CASE Survey \/ Reconcile \/ Create \/ NextNode \/ LoopDone
  <2>1. /\ \E p \in PC \ {"idle", "delete"} : Goto(p)
        /\ pc \notin {"idle", "delete"} /\ wrote' = wrote
    BY <1>1 DEF Survey, Reconcile, Create, NextNode, LoopDone, NoExec, PC
  <2> QED  BY <2>1, GotoCall
<1>2. CASE Write
  <2>1. wrote' = wrote \/ stage # "plan"
    BY <1>2 DEF Write, Exec, Record, Recording
  <2> QED  BY <1>2, <2>1 DEF Write, Goto, CallInv
<1>3. CASE \/ AlreadyExists \/ ReconcileFails \/ WriteBlocked \/ WriteRejected
           \/ Applied \/ AppliedGone
  BY <1>3 DEF AlreadyExists, ReconcileFails, WriteBlocked, WriteRejected, Applied,
              AppliedGone, End, Idle, Call, CallInv
<1>4. CASE DropNode
  <2>1. wrote' = wrote \/ stage # "plan"
    BY <1>4 DEF DropNode, Exec, Record, Recording, NoExec
  <2> QED  BY <1>4, <2>1 DEF DropNode, Goto, CallInv
<1>5. CASE DropBlocked
  BY <1>5 DEF DropBlocked, DropFailed, NoExec, CallInv
<1>6. CASE DropDone
  <2>1. CASE failed
    BY <1>6, <2>1 DEF DropDone, End, Idle, Call, CallInv
  <2>2. CASE ~failed /\ stage = "plan" /\ draft.replace
    <3>1. config # None
      BY <2>2 DEF CallInv, NewDraft
    <3> QED  BY <1>6, <2>2, <3>1 DEF DropDone, CallInv
  <2>3. CASE ~failed /\ stage = "plan" /\ ~draft.replace
    BY <1>6, <2>3 DEF DropDone, Idle, Call, CallInv
  <2>4. CASE ~failed /\ stage # "plan"
    <3>1. stage = "drop" /\ (saved.replace => saved.want # None)
      BY <1>6, <2>4 DEF DropDone, CallInv, SavedInv
    <3>2. CASE saved.replace
      BY <1>6, <2>4, <3>1, <3>2 DEF DropDone, Call, CallInv
    <3>3. CASE ~saved.replace
      BY <1>6, <2>4, <3>1, <3>3 DEF DropDone, Idle, Call, CallInv
    <3> QED  BY <3>2, <3>3
  <2> QED  BY <2>1, <2>2, <2>3, <2>4
<1> QED  BY <1>1, <1>2, <1>3, <1>4, <1>5, <1>6 DEF Resource

LEMMA CallStep == ASSUME TypeOK, CallInv, SavedInv, [Next]_vars PROVE CallInv'
<1> AtInv'
  BY TypeStep
<1>1. CASE MakePlan
  <2>1. CASE config = None
    BY <1>1, <2>1 DEF MakePlan, Call, CallInv
  <2>2. CASE config # None
    BY <1>1, <2>2 DEF MakePlan, Call, CallInv
  <2> QED  BY <2>1, <2>2
<1>2. CASE Refresh
  BY <1>2 DEF Refresh, CallInv, callVars
<1>3. CASE Core
  BY <1>3, CoreCall
<1>4. CASE Resource
  BY <1>4, ResourceCall
<1>5. CASE Failure
  <2>1. CASE CallFails \/ AnswerLost
    BY <1>5, <2>1 DEF CallFails, AnswerLost, End, Idle, Call, CallInv
  <2>2. CASE DropFails
    <3>1. wrote' = wrote \/ stage # "plan"
      BY <2>2 DEF DropFails, NoExec, Enforcing
    <3> QED  BY <2>2, <3>1 DEF DropFails, DropFailed, CallInv
  <2> QED  BY <1>5, <2>1, <2>2 DEF Failure
<1>6. CASE \E new \in Edits \cup {None} : Reconfigure(new)
  BY <1>6 DEF Reconfigure, CallInv, callVars
<1>7. CASE \E n \in Node, x \in OtherStatements : OtherClient(n, x)
  BY <1>7 DEF OtherClient, CallInv, callVars
<1>8. CASE UNCHANGED vars
  BY <1>8 DEF vars, CallInv, callVars
<1> QED  BY <1>1, <1>2, <1>3, <1>4, <1>5, <1>6, <1>7, <1>8, CallCase

LEMMA SavePlanSaved ==
    ASSUME TypeOK, SavePlan, stage' = "idle", config = None => draft = NewDraft
    PROVE  SavedInv'
<1>1. saved' \in Saved
  BY SavePlanType
<1>2. saved'.want = None => ~saved'.replace /\ saved'.deletes = <<>>
  BY DEF SavePlan, NewDraft
<1>3. saved'.operations # <<>> => saved'.digest = saved'.operations
  BY DEF SavePlan, Digest
<1> QED  BY <1>2, <1>3 DEF SavedInv

LEMMA ListKept ==
    ASSUME SavedInv, saved' = saved, \/ stage' \notin {"drop", "apply"}
                                     \/ stage' = stage /\ operations' = operations
    PROVE  SavedInv'
BY DEF SavedInv

LEMMA ExecKeepsList ==
    ASSUME NEW n, NEW x, Exec(n, x), Enforcing
    PROVE  operations' = operations
BY DEF Exec, Perform, Send, Enforcing, Recording

LEMMA CoreSaved == ASSUME TypeOK, CallInv, SavedInv, Core PROVE SavedInv'
<1>1. CASE Planned
  <2>1. stage = "plan" /\ pc = "final" /\ SavePlan /\ stage' = "idle"
    BY <1>1 DEF Planned, Idle, Call
  <2>2. config # None
    BY <2>1 DEF CallInv
  <2> QED  BY <2>1, <2>2, SavePlanSaved
<1>2. CASE StartApply
  <2>1. CASE saved.want = None
    BY <1>2, <2>1 DEF StartApply, Call, SavedInv
  <2>2. CASE saved.want # None /\ saved.replace
    BY <1>2, <2>2 DEF StartApply, Call, SavedInv
  <2>3. CASE saved.want # None /\ ~saved.replace
    BY <1>2, <2>3 DEF StartApply, Call, SavedInv
  <2> QED  BY <2>1, <2>2, <2>3
<1>3. CASE ReplanUnchanged \/ ReplanReplaces \/ ReplanDiffers
  BY <1>3, ListKept
     DEF ReplanUnchanged, ReplanReplaces, ReplanDiffers, End, Idle, Call
<1>4. CASE Replan
  BY <1>4, ListKept DEF Replan, NoExec
<1>5. CASE Replanned
  <2>1. /\ saved' = saved /\ stage' = "apply" /\ operations' = operations
        /\ Digest = saved.digest
    BY <1>5 DEF Replanned, Call, Bound
  <2>2. saved # None
    BY <1>5 DEF Replanned, CallInv
  <2>3. saved.operations # <<>> => operations \in {saved.operations, <<>>}
    BY <2>1, <2>2 DEF Digest, SavedInv
  <2> QED  BY <2>1, <2>3 DEF SavedInv
<1> QED  BY <1>1, <1>2, <1>3, <1>4, <1>5 DEF Core

LEMMA ResourceSaved == ASSUME TypeOK, CallInv, SavedInv, Resource PROVE SavedInv'
<1>1. CASE Survey \/ Reconcile \/ Create \/ NextNode \/ LoopDone
  BY <1>1, ListKept DEF Survey, Reconcile, Create, NextNode, LoopDone, Goto, NoExec
<1>2. CASE Write
  <2>1. saved' = saved /\ stage' = stage /\ (Enforcing => operations' = operations)
    BY <1>2, ExecKeepsList DEF Write, Goto
  <2> QED  BY <2>1, ListKept DEF Enforcing
<1>3. CASE \/ AlreadyExists \/ ReconcileFails \/ WriteBlocked \/ WriteRejected
           \/ Applied \/ AppliedGone
  BY <1>3, ListKept
     DEF AlreadyExists, ReconcileFails, WriteBlocked, WriteRejected, Applied, AppliedGone,
         End, Idle, Call
<1>4. CASE DropNode
  <2>1. saved' = saved /\ stage' = stage /\ (Enforcing => operations' = operations)
    BY <1>4, ExecKeepsList DEF DropNode, Goto, NoExec
  <2> QED  BY <2>1, ListKept DEF Enforcing
<1>5. CASE DropBlocked
  BY <1>5, ListKept DEF DropBlocked, DropFailed, NoExec
<1>6. CASE DropDone
  <2>1. CASE failed
    BY <1>6, <2>1, ListKept DEF DropDone, End, Idle, Call
  <2>2. CASE ~failed /\ stage = "plan" /\ draft.replace
    BY <1>6, <2>2, ListKept DEF DropDone
  <2>3. CASE ~failed /\ stage = "plan" /\ ~draft.replace
    <3>1. SavePlan /\ stage' = "idle"
      BY <1>6, <2>3 DEF DropDone, Idle, Call
    <3> QED  BY <2>3, <3>1, SavePlanSaved DEF CallInv
  <2>4. CASE ~failed /\ stage # "plan"
    <3>1. saved' = saved /\ stage' \in {"replan", "idle"}
      BY <1>6, <2>4 DEF DropDone, Idle, Call
    <3> QED  BY <3>1, ListKept
  <2> QED  BY <2>1, <2>2, <2>3, <2>4
<1> QED  BY <1>1, <1>2, <1>3, <1>4, <1>5, <1>6 DEF Resource

LEMMA SavedStep == ASSUME TypeOK, CallInv, SavedInv, [Next]_vars PROVE SavedInv'
<1>1. CASE MakePlan
  <2>1. saved' = None /\ stage' = "plan"
    BY <1>1 DEF MakePlan, Call
  <2> QED  BY <2>1 DEF SavedInv
<1>2. CASE Core
  BY <1>2, CoreSaved
<1>3. CASE Resource
  BY <1>3, ResourceSaved
<1>4. CASE Failure
  <2>1. CASE CallFails \/ AnswerLost
    BY <2>1, ListKept DEF CallFails, AnswerLost, End, Idle, Call
  <2>2. CASE DropFails
    <3>1. saved' = saved /\ stage' = stage /\ operations' = operations
      BY <2>2 DEF DropFails, DropFailed, NoExec, Perform, Send
    <3> QED  BY <3>1, ListKept
  <2> QED  BY <1>4, <2>1, <2>2 DEF Failure
<1>5. CASE Refresh \/ \E new \in Edits \cup {None} : Reconfigure(new)
  BY <1>5, ListKept DEF Refresh, Reconfigure, callVars
<1>6. CASE \E n \in Node, x \in OtherStatements : OtherClient(n, x)
  BY <1>6, ListKept DEF OtherClient, callVars
<1>7. CASE UNCHANGED vars
  BY <1>7, ListKept DEF vars, callVars
<1> QED  BY <1>1, <1>2, <1>3, <1>4, <1>5, <1>6, <1>7, CallCase

LEMMA InitInv == ASSUME Init PROVE TypeOK /\ CallInv /\ SavedInv
<1>1. 1 \in 1 .. N + 1 /\ 0 \in 0 .. MaxDrift /\ 0 \in 0 .. MaxFaults /\ 0 \in 0 .. MaxChanges
  BY SQLPlanAssumption
<1>2. objects \in [Node -> Objects \cup {None}] /\ config \in Configs
  BY SQLPlanAssumption DEF Init
<1>3. failed \in BOOLEAN /\ disturbed \in BOOLEAN
  BY DEF Init
<1>4. <<>> \in List /\ <<>> \in Seq(Statements)
  BY NewDraftType
<1>5. TypeOK
  BY <1>1, <1>2, <1>3, <1>4, NewDraftType DEF Init, TypeOK, Stage, PC
<1> QED  BY <1>5 DEF Init, CallInv, SavedInv, AtInv

(* States of the provider and its saved plan always have the form that        *)
(* TypeOK gives; the rest says which call runs with which list.               *)
THEOREM TypeCorrect == Spec => []TypeOK
<1>1. TypeOK /\ CallInv /\ SavedInv /\ [Next]_vars => (TypeOK /\ CallInv /\ SavedInv)'
  BY TypeStep, CallStep, SavedStep
<1> QED  BY <1>1, InitInv, PTL DEF Spec

-----------------------------------------------------------------------------
(* Writes with their places in a list; pos bounds the places of each target.  *)

Places(writes, list, pos, index) ==
    /\ index \in [DOMAIN writes -> DOMAIN list]
    /\ \A i \in DOMAIN writes :
          /\ writes[i] = list[index[i]]
          /\ index[i] <= pos[writes[i].target]
    /\ \A i, j \in DOMAIN writes :
          i < j /\ writes[i].target = writes[j].target => index[i] < index[j]

Traced(writes, list, pos) == \E index : Places(writes, list, pos, index)

LEMMA ListElements ==
    ASSUME NEW list \in List
    PROVE  /\ DOMAIN list = 1 .. Len(list) /\ Len(list) \in Nat
           /\ \A i \in DOMAIN list : i \in Nat /\ list[i] \in Op /\ list[i].target \in Node
<1>1. DOMAIN list = 1 .. Len(list) /\ Len(list) \in Nat
  BY DEF List
<1>0. list \in Seq(Op)
  BY DEF List, Op
<1>2. \A i \in 1 .. Len(list) : i \in Nat /\ list[i] \in Op
  BY <1>0
<1>3. \A op \in Op : op.target \in Node
  BY DEF Op
<1>4. ASSUME NEW i \in DOMAIN list PROVE list[i].target \in Node
  BY <1>1, <1>2, <1>3
<1> QED  BY <1>1, <1>2, <1>4

LEMMA TracedFollows ==
    ASSUME NEW writes, NEW list, NEW pos, Traced(writes, list, pos)
    PROVE  Follows(writes, list)
BY DEF Traced, Places, Follows

LEMMA TracedEmpty == ASSUME NEW list, NEW pos PROVE Traced(<<>>, list, pos)
<1> DEFINE index == [i \in DOMAIN <<>> |-> 1]
<1>1. Places(<<>>, list, pos, index)
  BY DEF Places
<1> QED  BY <1>1 DEF Traced

LEMMA TracedWeaken ==
    ASSUME NEW writes \in List, NEW list \in List,
           NEW pos \in [Node -> Nat], NEW pos2 \in [Node -> Nat],
           \A n \in Node : pos[n] <= pos2[n], Traced(writes, list, pos)
    PROVE  Traced(writes, list, pos2)
<1>1. PICK index : Places(writes, list, pos, index)
  BY DEF Traced
<1>2. ASSUME NEW i \in DOMAIN writes PROVE index[i] <= pos2[writes[i].target]
  <2>1. writes[i].target \in Node /\ index[i] \in Nat
    BY <1>1, ListElements DEF Places
  <2>2. index[i] <= pos[writes[i].target]
    BY <1>1 DEF Places
  <2> QED  BY <2>1, <2>2
<1>3. Places(writes, list, pos2, index)
  BY <1>1, <1>2 DEF Places
<1> QED  BY <1>3 DEF Traced

LEMMA TracedExtend ==
    ASSUME NEW writes \in List, NEW list \in List, NEW op \in Op,
           NEW pos \in [Node -> Nat], NEW pos2 \in [Node -> Nat],
           \A n \in Node : pos[n] <= pos2[n],
           NEW k \in DOMAIN list, list[k] = op,
           pos[op.target] < k, k <= pos2[op.target],
           Traced(writes, list, pos)
    PROVE  Traced(Append(writes, op), list, pos2)
<1>1. PICK index : Places(writes, list, pos, index)
  BY DEF Traced
<1> DEFINE all  == Append(writes, op)
           next == [i \in 1 .. Len(writes) + 1 |-> IF i \in DOMAIN writes THEN index[i] ELSE k]
<1>2. /\ DOMAIN writes = 1 .. Len(writes) /\ Len(writes) \in Nat
      /\ DOMAIN all = 1 .. Len(writes) + 1
      /\ all[Len(writes) + 1] = op
      /\ \A i \in DOMAIN writes : all[i] = writes[i]
  <2>1. writes \in Seq(Op)
    BY DEF List, Op
  <2> QED  BY <2>1
<1>3. op.target \in Node /\ DOMAIN list \subseteq Nat /\ k \in Nat
  BY DEF Op, List
<1>4. \A i \in DOMAIN writes : /\ index[i] \in DOMAIN list /\ index[i] \in Nat
                               /\ writes[i].target \in Node
                               /\ index[i] <= pos[writes[i].target]
                               /\ writes[i] = list[index[i]]
  BY <1>1, ListElements DEF Places
<1>5. next \in [DOMAIN all -> DOMAIN list]
  BY <1>2, <1>4
<1>6. \A i \in DOMAIN all : i \in DOMAIN writes \/ i = Len(writes) + 1
  BY <1>2
<1>7. /\ next[Len(writes) + 1] = k
      /\ \A i \in DOMAIN writes : next[i] = index[i]
  BY <1>2
<1> HIDE DEF next, all
<1>8. ASSUME NEW i \in DOMAIN all
      PROVE  all[i] = list[next[i]] /\ next[i] <= pos2[all[i].target]
  <2>1. CASE i \in DOMAIN writes
    <3>1. all[i] = writes[i] /\ next[i] = index[i]
      BY <1>2, <1>7, <2>1
    <3>2. index[i] <= pos2[writes[i].target]
      BY <1>4, <2>1
    <3> QED  BY <1>4, <2>1, <3>1, <3>2
  <2>2. CASE i = Len(writes) + 1
    BY <1>2, <1>7, <2>2
  <2> QED  BY <1>6, <2>1, <2>2
<1>9. ASSUME NEW i \in DOMAIN all, NEW j \in DOMAIN all,
             i < j, all[i].target = all[j].target
      PROVE  next[i] < next[j]
  <2>1. i \in DOMAIN writes
    BY <1>2, <1>9
  <2>2. CASE j \in DOMAIN writes
    <3>1. writes[i].target = writes[j].target
      BY <1>2, <1>9, <2>1, <2>2
    <3>2. index[i] < index[j]
      BY <1>1, <1>9, <2>1, <2>2, <3>1 DEF Places
    <3> QED  BY <1>7, <2>1, <2>2, <3>2
  <2>3. CASE j = Len(writes) + 1
    <3>1. writes[i].target = op.target
      BY <1>2, <1>9, <2>1, <2>3
    <3>2. index[i] <= pos[op.target] /\ pos[op.target] \in Nat
      BY <1>3, <1>4, <2>1, <3>1
    <3> QED  BY <1>3, <1>4, <1>7, <2>1, <2>3, <3>2
  <2> QED  BY <1>6, <2>2, <2>3
<1>10. Places(all, list, pos2, next)
  BY <1>5, <1>8, <1>9 DEF Places
<1> QED  BY <1>10 DEF Traced, all

-----------------------------------------------------------------------------
(* The invariant: every write of the apply has a place in what was shown, and *)
(* the places of a target end where its client has got to.                    *)

Covered == saved # None /\ (saved.want # None => saved.operations # <<>>)

Base == IF stage = "apply" THEN Len(saved.deletes) ELSE 0

Reached ==
    [n \in Node |->
        IF Enforcing THEN Base + positions[n]
        ELSE IF stage = "replan" THEN Len(saved.deletes) ELSE Len(Shown)]

PositionsInv == Enforcing => \A n \in Node : positions[n] <= Len(operations)

TrailInv == Covered => Traced(wrote, Shown, Reached)

ReviewInv == TypeOK /\ CallInv /\ SavedInv /\ PositionsInv /\ TrailInv

LEMMA Concatenation ==
    ASSUME NEW S, NEW a \in Seq(S), NEW b \in Seq(S)
    PROVE  /\ a \o b \in Seq(S)
           /\ Len(a) \in Nat /\ Len(b) \in Nat /\ Len(a \o b) = Len(a) + Len(b)
           /\ Len(a \o b) \in Nat /\ Len(a) <= Len(a \o b)
           /\ \A i \in 1 .. Len(a) : (a \o b)[i] = a[i]
           /\ \A i \in 1 .. Len(b) : (a \o b)[Len(a) + i] = b[i]
OBVIOUS

LEMMA ShownType ==
    ASSUME TypeOK, saved # None
    PROVE  /\ saved.deletes \in List /\ saved.operations \in List /\ Shown \in List
           /\ Len(saved.deletes) \in Nat /\ Len(saved.operations) \in Nat
           /\ Len(Shown) = Len(saved.deletes) + Len(saved.operations)
           /\ Len(Shown) \in Nat /\ Len(saved.deletes) <= Len(Shown)
           /\ \A i \in 1 .. Len(saved.deletes) : Shown[i] = saved.deletes[i]
           /\ \A i \in 1 .. Len(saved.operations) :
                 Shown[Len(saved.deletes) + i] = saved.operations[i]
<1>1. saved.deletes \in List /\ saved.operations \in List
  BY DEF TypeOK, Saved
<1>2. List = Seq(Op)
  BY DEF List, Op
<1>3. saved.deletes \in Seq(Op) /\ saved.operations \in Seq(Op)
  BY <1>1, <1>2
<1> DEFINE a == saved.deletes
           b == saved.operations
<1> HIDE DEF a, b
<1>4. /\ a \o b \in Seq(Op)
      /\ Len(a) \in Nat /\ Len(b) \in Nat /\ Len(a \o b) = Len(a) + Len(b)
      /\ Len(a \o b) \in Nat /\ Len(a) <= Len(a \o b)
      /\ \A i \in 1 .. Len(a) : (a \o b)[i] = a[i]
      /\ \A i \in 1 .. Len(b) : (a \o b)[Len(a) + i] = b[i]
  <2>1. a \in Seq(Op) /\ b \in Seq(Op)
    BY <1>3 DEF a, b
  <2> QED  BY <2>1, Concatenation
<1> QED  BY <1>1, <1>2, <1>4, Zenon DEF Shown, a, b

(* The list that is enforced is a part of what was shown.                     *)
LEMMA EnforcedShown ==
    ASSUME TypeOK, CallInv, SavedInv, Covered, Enforcing
    PROVE  /\ Len(operations) \in Nat /\ Base \in Nat
           /\ Base + Len(operations) <= Len(Shown)
           /\ \A i \in 1 .. Len(operations) : Shown[Base + i] = operations[i]
<1> DEFINE deletes == saved.deletes
           creates == saved.operations
           shown   == Shown
<1>1. saved # None
  BY DEF Covered
<1>2. /\ Len(deletes) \in Nat /\ Len(creates) \in Nat
      /\ Len(shown) = Len(deletes) + Len(creates)
      /\ \A i \in 1 .. Len(deletes) : shown[i] = deletes[i]
      /\ \A i \in 1 .. Len(creates) : shown[Len(deletes) + i] = creates[i]
  BY <1>1, ShownType, Zenon
<1>3. CASE stage = "drop" /\ saved.want = None
  <2>1. operations = creates /\ deletes = <<>> /\ Base = 0
    BY <1>1, <1>3 DEF SavedInv, Base
  <2> HIDE DEF deletes, creates, shown
  <2>2. Len(deletes) = 0
    BY <2>1
  <2>3. \A i \in 1 .. Len(creates) : 0 + i = Len(deletes) + i
    BY <1>2, <2>2
  <2> QED  BY <1>2, <2>1, <2>2, <2>3 DEF shown
<1>4. CASE stage = "drop" /\ saved.want # None
  <2>1. operations = deletes /\ Base = 0
    BY <1>1, <1>4 DEF SavedInv, Base
  <2> HIDE DEF deletes, creates, shown
  <2>2. 0 + Len(deletes) <= Len(shown) /\ 0 \in Nat
    BY <1>2
  <2>3. \A i \in 1 .. Len(deletes) : shown[0 + i] = deletes[i]
    BY <1>2
  <2> QED  BY <1>2, <2>1, <2>2, <2>3, Zenon DEF shown
<1>5. CASE stage = "apply"
  <2>1. operations \in {creates, <<>>} /\ Base = Len(deletes)
    BY <1>1, <1>5 DEF SavedInv, CallInv, Covered, Base
  <2> HIDE DEF deletes, creates, shown
  <2>2. CASE operations = creates
    <3>1. Len(deletes) + Len(creates) <= Len(shown)
      BY <1>2
    <3> QED  BY <1>2, <2>1, <2>2, <3>1, Zenon DEF shown
  <2>3. CASE operations = <<>>
    BY <1>2, <2>1, <2>3 DEF shown
  <2> QED  BY <2>1, <2>2, <2>3
<1> QED  BY <1>3, <1>4, <1>5 DEF Enforcing

LEMMA ReachedType ==
    ASSUME TypeOK, CallInv, SavedInv, PositionsInv, Covered
    PROVE  /\ Reached \in [Node -> Nat]
           /\ \A n \in Node : Reached[n] <= Len(Shown)
<1>1. saved # None
  BY DEF Covered
<1>2. Len(saved.deletes) <= Len(Shown) /\ Len(saved.deletes) \in Nat /\ Len(Shown) \in Nat
  BY <1>1, ShownType, Zenon
<1>3. ASSUME NEW n \in Node PROVE Reached[n] \in Nat /\ Reached[n] <= Len(Shown)
  <2>1. CASE Enforcing
    <3>1. positions[n] \in Nat /\ positions[n] <= Len(operations)
      BY <2>1 DEF TypeOK, PositionsInv
    <3>2. Reached[n] = Base + positions[n]
      BY <2>1, Zenon DEF Reached
    <3>3. /\ Len(operations) \in Nat /\ Base \in Nat
          /\ Base + Len(operations) <= Len(Shown)
      BY <2>1, EnforcedShown, Zenon
    <3> HIDE DEF Reached
    <3> QED  BY <1>2, <3>1, <3>2, <3>3
  <2>2. CASE stage = "replan"
    <3>1. Reached[n] = Len(saved.deletes)
      BY <2>2 DEF Reached, Enforcing
    <3> QED  BY <1>2, <3>1
  <2>3. CASE ~Enforcing /\ stage # "replan"
    <3>1. Reached[n] = Len(Shown)
      BY <2>3 DEF Reached
    <3> QED  BY <1>2, <3>1
  <2> QED  BY <2>1, <2>2, <2>3
<1>4. Reached = [n \in Node |-> Reached[n]]
  BY DEF Reached
<1> QED  BY <1>3, <1>4

LEMMA ReachedOK ==
    TypeOK /\ CallInv /\ SavedInv /\ PositionsInv /\ Covered => Reached \in [Node -> Nat]
BY ReachedType

(* Nothing is written, and no target falls back.                              *)
LEMMA TrailKept ==
    ASSUME ReviewInv, TypeOK', CallInv', SavedInv', PositionsInv',
           saved' = saved, wrote' = wrote,
           Covered => \A n \in Node : Reached[n] <= Reached'[n]
    PROVE  TrailInv'
<1> SUFFICES ASSUME Covered PROVE Traced(wrote, Shown, Reached')
  BY DEF TrailInv, Covered, Shown
<1>1. saved # None /\ wrote \in List /\ Shown \in List
  BY ShownType DEF Covered, ReviewInv, TypeOK
<1>2. Reached \in [Node -> Nat]
  BY ReachedType DEF ReviewInv
<1>3. Reached' \in [Node -> Nat]
  <2>1. (TypeOK /\ CallInv /\ SavedInv /\ PositionsInv /\ Covered => Reached \in [Node -> Nat])'
    BY ReachedOK, PTL
  <2> QED  BY <2>1 DEF Covered
<1> QED  BY <1>1, <1>2, <1>3, TracedWeaken DEF ReviewInv, TrailInv

-----------------------------------------------------------------------------
(* No target gets beyond the list that is enforced.                           *)

LEMMA CallPositions ==
    ASSUME NEW s, NEW p, NEW list \in List, Call(s, p, list)
    PROVE  PositionsInv'
<1>1. Len(list) \in Nat
  BY ListElements
<1>2. operations' = list /\ \A n \in Node : positions'[n] = 0
  BY DEF Call
<1> QED  BY <1>1, <1>2 DEF PositionsInv

LEMMA SendPositions ==
    ASSUME TypeOK, PositionsInv, Enforcing, NEW n \in Node, NEW x, Send(n, x)
    PROVE  operations' = operations /\ \A m \in Node : positions'[m] <= Len(operations)
<1>1. First(n, x) \in 1 .. Len(operations)
  BY FirstFound DEF Send, TypeOK
<1>2. positions' = [positions EXCEPT ![n] = First(n, x)] /\ positions \in [Node -> Nat]
  BY DEF Send, TypeOK
<1>3. \A m \in Node : positions[m] <= Len(operations)
  BY DEF PositionsInv
<1>4. Len(operations) \in Nat
  BY ListElements DEF TypeOK
<1> QED  BY <1>1, <1>2, <1>3, <1>4 DEF Send

LEMMA PositionsStep ==
    ASSUME TypeOK, CallInv, PositionsInv, [Next]_vars
    PROVE  PositionsInv'
<1>1. CASE stage' \notin {"drop", "apply"}
  BY <1>1 DEF PositionsInv, Enforcing
<1>2. CASE stage' = stage /\ operations' = operations /\ positions' = positions
  BY <1>2 DEF PositionsInv, Enforcing
<1>3. ASSUME NEW n \in Node, NEW x, Exec(n, x), stage' = stage PROVE PositionsInv'
  <2>1. CASE Enforcing
    <3>1. Send(n, x)
      BY <1>3, <2>1 DEF Exec, Perform, Recording, Enforcing
    <3> QED  BY <2>1, <3>1, SendPositions DEF PositionsInv
  <2>2. CASE ~Enforcing
    BY <1>1, <1>3, <2>2 DEF Enforcing
  <2> QED  BY <2>1, <2>2
<1>4. CASE StartApply \/ Replanned
  <2>1. saved # None
    BY <1>4 DEF StartApply, Replanned, CallInv
  <2>2. saved.operations \in List /\ saved.deletes \in List /\ operations \in List /\ <<>> \in List
    BY <2>1, ShownType, NewDraftType, Zenon DEF TypeOK
  <2> QED  BY <1>4, <2>2, CallPositions DEF StartApply, Replanned
<1>5. CASE MakePlan \/ Refresh \/ Planned \/ ReplanUnchanged \/ ReplanReplaces \/ Replan \/ ReplanDiffers
  BY <1>1, <1>2, <1>5
     DEF MakePlan, Refresh, Planned, ReplanUnchanged, ReplanReplaces, Replan, ReplanDiffers,
         NoExec, End, Idle, Call, callVars
<1>6. CASE Survey \/ Reconcile \/ Create \/ NextNode \/ LoopDone
  BY <1>2, <1>6 DEF Survey, Reconcile, Create, NextNode, LoopDone, Goto, NoExec
<1>7. CASE Write
  BY <1>3, <1>7 DEF Write, Goto, CallInv, AtInv
<1>8. CASE \/ AlreadyExists \/ ReconcileFails \/ WriteBlocked \/ WriteRejected
           \/ Applied \/ AppliedGone \/ CallFails \/ AnswerLost
  BY <1>1, <1>8
     DEF AlreadyExists, ReconcileFails, WriteBlocked, WriteRejected, Applied, AppliedGone,
         CallFails, AnswerLost, End, Idle, Call
<1>9. CASE DropNode
  BY <1>2, <1>3, <1>9 DEF DropNode, Goto, NoExec
<1>10. CASE DropBlocked
  BY <1>2, <1>10 DEF DropBlocked, DropFailed, NoExec
<1>11. CASE DropFails
  <2>1. CASE NoExec
    BY <1>2, <1>11, <2>1 DEF DropFails, DropFailed, NoExec
  <2>2. CASE Enforcing /\ Perform(at, Removal)
    <3>1. at \in Node /\ stage' = stage /\ Send(at, Removal)
      BY <1>11, <2>2 DEF DropFails, DropFailed, Perform
    <3> QED  BY <2>2, <3>1, SendPositions DEF PositionsInv
  <2> QED  BY <1>11, <2>1, <2>2 DEF DropFails
<1>12. CASE DropDone
  <2>1. stage' \notin {"drop", "apply"}
    BY <1>12 DEF DropDone, End, Idle, Call
  <2> QED  BY <1>1, <2>1
<1>13. CASE \/ \E new \in Edits \cup {None} : Reconfigure(new)
            \/ \E n \in Node, x \in OtherStatements : OtherClient(n, x)
            \/ UNCHANGED vars
  BY <1>2, <1>13 DEF Reconfigure, OtherClient, vars, callVars
<1> QED  BY <1>4, <1>5, <1>6, <1>7, <1>8, <1>9, <1>10, <1>11, <1>12, <1>13
         DEF Next, Core, Resource, Failure

-----------------------------------------------------------------------------
(* Every write has a place.                                                   *)

LEMMA SendTrail ==
    ASSUME ReviewInv, Enforcing, Covered, NEW n \in Node, NEW x \in Statements,
           Found(n, x) # {}, NEW pos2 \in [Node -> Nat],
           \A m \in Node : Reached[m] <= pos2[m],
           Base + First(n, x) <= pos2[n]
    PROVE  Traced(Append(wrote, Operation(n, x)), Shown, pos2)
<1> DEFINE op == Operation(n, x)
           k  == Base + First(n, x)
<1>1. /\ saved # None /\ wrote \in List /\ operations \in List
      /\ positions \in [Node -> Nat]
  BY DEF Covered, ReviewInv, TypeOK
<1>2. Shown \in List /\ Reached \in [Node -> Nat]
  BY <1>1, ShownType, ReachedType, Zenon DEF ReviewInv
<1>3. op \in Op /\ op.target = n
  BY OperationType DEF Operation
<1>4. /\ First(n, x) \in 1 .. Len(operations)
      /\ First(n, x) > positions[n]
      /\ operations[First(n, x)] = op
  BY <1>1, FirstFound
<1>5. /\ Len(operations) \in Nat /\ Base \in Nat
      /\ Base + Len(operations) <= Len(Shown)
      /\ \A i \in 1 .. Len(operations) : Shown[Base + i] = operations[i]
  BY EnforcedShown, Zenon DEF ReviewInv
<1>6. Shown[k] = op
  BY <1>4, <1>5
<1>7. DOMAIN Shown = 1 .. Len(Shown) /\ Len(Shown) \in Nat
  BY <1>2, ListElements
<1>8. Reached[n] = Base + positions[n]
  BY DEF Reached
<1> HIDE DEF op, Reached
<1>9. k \in DOMAIN Shown
  BY <1>4, <1>5, <1>7
<1>10. Reached[op.target] < k
  BY <1>1, <1>3, <1>4, <1>5, <1>8
<1>11. Traced(wrote, Shown, Reached)
  BY DEF ReviewInv, TrailInv
<1>12. k <= pos2[op.target]
  BY <1>3
<1> HIDE DEF k
<1>13. Traced(Append(wrote, op), Shown, pos2)
  BY <1>1, <1>2, <1>3, <1>6, <1>9, <1>10, <1>11, <1>12, TracedExtend
<1> QED  BY <1>13 DEF op

LEMMA NextPositions ==
    ASSUME ReviewInv, Covered, (TypeOK /\ CallInv /\ SavedInv /\ PositionsInv)', saved' = saved
    PROVE  Reached' \in [Node -> Nat]
<1>1. (TypeOK /\ CallInv /\ SavedInv /\ PositionsInv /\ Covered => Reached \in [Node -> Nat])'
  BY ReachedOK, PTL
<1> QED  BY <1>1 DEF Covered

LEMMA WriteTrail ==
    ASSUME ReviewInv, Enforcing, NEW n \in Node, NEW x \in Statements,
           (TypeOK /\ CallInv /\ SavedInv /\ PositionsInv)',
           Send(n, x), saved' = saved, stage' = stage
    PROVE  TrailInv'
<1> SUFFICES ASSUME Covered PROVE Traced(wrote', Shown, Reached')
  BY DEF TrailInv, Covered, Shown
<1>1. Reached' \in [Node -> Nat] /\ Reached \in [Node -> Nat]
  BY NextPositions, ReachedType DEF ReviewInv
<1>2. positions' = [positions EXCEPT ![n] = First(n, x)] /\ positions \in [Node -> Nat]
  BY DEF Send, ReviewInv, TypeOK
<1>3. /\ \A m \in Node : Reached[m] = Base + positions[m]
      /\ \A m \in Node : Reached'[m] = Base + positions'[m]
  BY DEF Reached, Base, Enforcing
<1>4. First(n, x) \in Nat /\ positions[n] < First(n, x) /\ Base \in Nat
  <2>1. First(n, x) \in 1 .. Len(operations) /\ First(n, x) > positions[n]
    BY FirstFound DEF Send, ReviewInv, TypeOK
  <2> QED  BY <2>1, <1>2, EnforcedShown DEF ReviewInv
<1>5. \A m \in Node : positions[m] <= positions'[m]
  BY <1>2, <1>4
<1>6. /\ \A m \in Node : Reached[m] <= Reached'[m]
      /\ Base + First(n, x) <= Reached'[n]
  <2> HIDE DEF Reached
  <2>1. positions'[n] = First(n, x) /\ \A m \in Node : positions[m] \in Nat /\ positions'[m] \in Nat
    BY <1>2, <1>4
  <2> QED  BY <1>3, <1>4, <1>5, <2>1
<1>7. wrote' = Append(wrote, Operation(n, x))
  BY DEF Send
<1> QED  BY <1>1, <1>6, <1>7, SendTrail DEF Send

LEMMA LostTrail ==
    ASSUME ReviewInv, AnswerLost, (TypeOK /\ CallInv /\ SavedInv /\ PositionsInv)'
    PROVE  TrailInv'
<1> SUFFICES ASSUME Covered PROVE Traced(wrote', Shown, Reached')
  BY DEF TrailInv, Covered, Shown, AnswerLost
<1>1. /\ at \in Node /\ Head(todo) \in Statements /\ Enforcing /\ Found(at, Head(todo)) # {}
      /\ wrote' = Append(wrote, Operation(at, Head(todo)))
  BY DEF AnswerLost, ReviewInv, TypeOK, CallInv, AtInv
<1>2. Reached' \in [Node -> Nat] /\ saved' = saved /\ stage' = "idle"
  BY NextPositions DEF AnswerLost, Idle, Call
<1>3. \A n \in Node : Reached'[n] = Len(Shown)
  BY <1>2 DEF Reached, Enforcing, Shown
<1>4. \A n \in Node : Reached[n] <= Reached'[n]
  BY <1>3, ReachedType DEF ReviewInv
<1>5. Base + First(at, Head(todo)) <= Reached'[at]
  <2>1. First(at, Head(todo)) \in 1 .. Len(operations)
    BY <1>1, FirstFound DEF ReviewInv, TypeOK
  <2>2. Base + Len(operations) <= Len(Shown) /\ Len(operations) \in Nat /\ Base \in Nat
    BY <1>1, EnforcedShown, Zenon DEF ReviewInv
  <2>3. Len(Shown) \in Nat
    BY ShownType DEF ReviewInv, Covered
  <2> QED  BY <1>1, <1>3, <2>1, <2>2, <2>3
<1> QED  BY <1>1, <1>2, <1>4, <1>5, SendTrail

(* The call ends, or the next half of the apply begins.                       *)
LEMMA StageTrail ==
    ASSUME ReviewInv, (TypeOK /\ CallInv /\ SavedInv /\ PositionsInv)',
           saved' = saved, wrote' = wrote,
           \/ stage' = stage /\ positions' = positions
           \/ stage' = "idle"
           \/ stage = "drop" /\ stage' = "replan"
           \/ stage = "replan" /\ stage' = "apply"
    PROVE  TrailInv'
<1> SUFFICES ASSUME Covered, NEW n \in Node PROVE Reached[n] <= Reached'[n]
  BY TrailKept
<1>1. Reached[n] \in Nat /\ Reached[n] <= Len(Shown)
  BY ReachedType DEF ReviewInv
<1>2. CASE stage' = stage /\ positions' = positions
  <2>1. Reached'[n] = Reached[n]
    BY <1>2 DEF Reached, Base, Enforcing, Shown
  <2> QED  BY <1>1, <2>1
<1>3. CASE stage' = "idle"
  <2>1. Reached'[n] = Len(Shown)
    BY <1>3 DEF Reached, Enforcing, Shown
  <2> QED  BY <1>1, <2>1
<1>4. CASE stage = "drop" /\ stage' = "replan"
  <2>1. Reached'[n] = Len(saved.deletes) /\ Reached[n] = 0 + positions[n]
    BY <1>4 DEF Reached, Base, Enforcing
  <2>2. operations = saved.deletes
    BY <1>4 DEF ReviewInv, SavedInv, CallInv
  <2>3. positions[n] \in Nat /\ positions[n] <= Len(operations)
    BY <1>4 DEF ReviewInv, PositionsInv, Enforcing, TypeOK
  <2> QED  BY <2>1, <2>2, <2>3
<1>5. CASE stage = "replan" /\ stage' = "apply"
  <2>1. Reached[n] = Len(saved.deletes) /\ Reached'[n] = Len(saved.deletes) + positions'[n]
    BY <1>5 DEF Reached, Base, Enforcing
  <2>2. positions'[n] \in Nat
    BY DEF TypeOK
  <2> QED  BY <1>1, <2>1, <2>2
<1> QED  BY <1>2, <1>3, <1>4, <1>5

LEMMA ExecTrail ==
    ASSUME ReviewInv, (TypeOK /\ CallInv /\ SavedInv /\ PositionsInv)', stage # "idle",
           NEW n \in Node, NEW x \in Statements, Exec(n, x), saved' = saved, stage' = stage
    PROVE  TrailInv'
<1>1. CASE Recording
  BY <1>1, StageTrail DEF Exec, Record
<1>2. CASE ~Recording
  <2>1. Send(n, x)
    BY <1>2 DEF Exec, Perform
  <2>2. Enforcing
    BY <1>2 DEF Recording, Enforcing, ReviewInv, TypeOK, Stage
  <2> QED  BY <2>1, <2>2, WriteTrail
<1> QED  BY <1>1, <1>2

LEMMA TrailStep ==
    ASSUME ReviewInv, [Next]_vars, (TypeOK /\ CallInv /\ SavedInv /\ PositionsInv)'
    PROVE  TrailInv'
<1>1. CASE saved' = None
  BY <1>1 DEF TrailInv, Covered
<1>2. CASE wrote' = <<>>
  BY <1>2, TracedEmpty DEF TrailInv
<1>3. CASE saved' = saved /\ wrote' = wrote /\ stage' = stage /\ positions' = positions
  BY <1>3, StageTrail
<1>4. CASE saved' = saved /\ wrote' = wrote /\ stage' = "idle"
  BY <1>4, StageTrail
<1>5. CASE stage = "plan" /\ wrote' = wrote
  BY <1>2, <1>5 DEF ReviewInv, CallInv
<1>6. CASE MakePlan \/ Refresh \/ \E new \in Edits \cup {None} : Reconfigure(new)
  BY <1>1, <1>3, <1>6 DEF MakePlan, Refresh, Reconfigure, callVars
<1>7. CASE StartApply \/ Planned
  BY <1>2, <1>5, <1>7 DEF StartApply, Planned
<1>8. CASE ReplanUnchanged \/ ReplanReplaces \/ Replan \/ ReplanDiffers
  BY <1>3, <1>4, <1>8
     DEF ReplanUnchanged, ReplanReplaces, Replan, ReplanDiffers, NoExec, End, Idle, Call
<1>9. CASE Replanned
  BY <1>9, StageTrail DEF Replanned, Call
<1>10. CASE Survey \/ Reconcile \/ Create \/ NextNode \/ LoopDone
  BY <1>3, <1>10 DEF Survey, Reconcile, Create, NextNode, LoopDone, Goto, NoExec
<1>11. CASE Write
  <2>1. stage # "idle" /\ at \in Node /\ Head(todo) \in Statements
    BY <1>11 DEF Write, ReviewInv, CallInv, AtInv, TypeOK
  <2> QED  BY <1>11, <2>1, ExecTrail DEF Write, Goto
<1>12. CASE \/ AlreadyExists \/ ReconcileFails \/ WriteBlocked \/ WriteRejected
            \/ Applied \/ AppliedGone \/ CallFails
  BY <1>4, <1>12
     DEF AlreadyExists, ReconcileFails, WriteBlocked, WriteRejected, Applied, AppliedGone,
         CallFails, End, Idle, Call
<1>13. CASE AnswerLost
  BY <1>13, LostTrail
<1>14. CASE DropNode
  <2>1. stage # "idle"
    BY <1>14 DEF DropNode, ReviewInv, CallInv
  <2> QED  BY <1>3, <1>14, <2>1, ExecTrail, RemovalType DEF DropNode, Goto, NoExec
<1>15. CASE DropBlocked
  BY <1>3, <1>15 DEF DropBlocked, DropFailed, NoExec
<1>16. CASE DropFails
  <2>1. CASE NoExec
    BY <1>3, <1>16, <2>1 DEF DropFails, DropFailed, NoExec
  <2>2. CASE Enforcing /\ Perform(at, Removal)
    BY <1>16, <2>2, WriteTrail, RemovalType DEF DropFails, DropFailed, Perform
  <2> QED  BY <1>16, <2>1, <2>2 DEF DropFails
<1>17. CASE DropDone
  <2>1. CASE failed
    BY <1>4, <1>17, <2>1 DEF DropDone, End, Idle, Call
  <2>2. CASE stage = "plan" /\ ~failed
    BY <1>5, <1>17, <2>2 DEF DropDone
  <2>3. CASE stage # "plan" /\ ~failed
    <3>1. saved' = saved /\ wrote' = wrote /\ stage' \in {"replan", "idle"}
      BY <1>17, <2>3 DEF DropDone, Idle, Call
    <3>2. stage = "drop"
      BY <1>17, <2>3 DEF DropDone, ReviewInv, CallInv
    <3> QED  BY <3>1, <3>2, StageTrail
  <2> QED  BY <2>1, <2>2, <2>3
<1>18. CASE (\E n \in Node, x \in OtherStatements : OtherClient(n, x)) \/ UNCHANGED vars
  BY <1>3, <1>18 DEF OtherClient, vars, callVars
<1> QED  BY <1>6, <1>7, <1>8, <1>9, <1>10, <1>11, <1>12, <1>13, <1>14, <1>15, <1>16, <1>17, <1>18
         DEF Next, Core, Resource, Failure

LEMMA ReviewInit == ASSUME Init PROVE ReviewInv
<1>1. TypeOK /\ CallInv /\ SavedInv
  BY InitInv
<1>2. PositionsInv /\ TrailInv
  BY DEF Init, PositionsInv, Enforcing, TrailInv, Covered
<1> QED  BY <1>1, <1>2 DEF ReviewInv

LEMMA ReviewStep == ASSUME ReviewInv, [Next]_vars PROVE ReviewInv'
<1>1. (TypeOK /\ CallInv /\ SavedInv /\ PositionsInv)'
  BY TypeStep, CallStep, SavedStep, PositionsStep DEF ReviewInv
<1> QED  BY <1>1, TrailStep DEF ReviewInv

(* sql_plan_digest and the reviewed client: whatever happens between a plan   *)
(* and its apply, for every resource and any number of nodes, an apply of a   *)
(* plan that showed SQL sends a part of what was shown, nothing twice and in  *)
(* the order of the list on each node.                                        *)
THEOREM ReviewedSafe == Spec => []ReviewedWritesOnly
<1>1. ReviewInv => ReviewedWritesOnly
  BY TracedFollows DEF ReviewInv, TrailInv, Covered, ReviewedWritesOnly
<1> QED  BY <1>1, ReviewInit, ReviewStep, PTL DEF Spec

-----------------------------------------------------------------------------
(* A reviewed plan that nobody disturbs applies: the plan before the apply    *)
(* records the same list, and the list has every statement that the apply     *)
(* turns out to need.                                                         *)

-----------------------------------------------------------------------------
(* The list that ConvergeNodes makes of the objects it reads.  Its 2 * N      *)
(* turns are the nodes of the first loop, then those of the second.           *)

Ops(n, xs) == [i \in DOMAIN xs |-> Operation(n, xs[i])]

NodeAt(j) == IF j <= N THEN j ELSE j - N

Block(s, want, j) ==
    IF (s[NodeAt(j)] = None) <=> (j > N) THEN Ops(NodeAt(j), Due(want, s[NodeAt(j)])) ELSE <<>>

Built(P, s, want, k) ==
    /\ P \in [Nat -> List] /\ P[0] = <<>>
    /\ \A j \in 1 .. k : P[j] = P[j - 1] \o Block(s, want, j)

Recorded(s, want, k, list) == \E P : Built(P, s, want, k) /\ list = P[k]

LEMMA ListIs == List = Seq(Op)
BY DEF List, Op

LEMMA OpsType ==
    ASSUME NEW n \in Node, NEW xs \in Seq(Statements)
    PROVE  /\ Ops(n, xs) \in List /\ Len(Ops(n, xs)) = Len(xs)
           /\ \A i \in 1 .. Len(xs) : Ops(n, xs)[i] = Operation(n, xs[i])
<1>1. Ops(n, xs) = [i \in 1 .. Len(xs) |-> Operation(n, xs[i])]
  BY DEF Ops
<1>2. \A i \in 1 .. Len(xs) : Operation(n, xs[i]) \in Op
  BY OperationType
<1>. QED  BY <1>1, <1>2, ListIs

LEMMA DueType ==
    ASSUME NEW want \in Configs, NEW o \in Objects \cup {None}
    PROVE  Due(want, o) \in Seq(Statements)
BY SQLPlanAssumption DEF Due

LEMMA Turns ==
    ASSUME NEW n \in Node
    PROVE  /\ n \in 1 .. 2 * N /\ N + n \in 1 .. 2 * N
           /\ NodeAt(n) = n /\ NodeAt(N + n) = n /\ n <= N /\ N + n > N
BY SQLPlanAssumption DEF NodeAt, Node

LEMMA TurnNode ==
    ASSUME NEW j \in 1 .. 2 * N
    PROVE  NodeAt(j) \in Node /\ (j = NodeAt(j) \/ j = N + NodeAt(j))
BY SQLPlanAssumption DEF NodeAt, Node

LEMMA Blocks ==
    ASSUME NEW s \in [Node -> Objects \cup {None}], NEW want \in Configs, NEW n \in Node
    PROVE  /\ s[n] # None => Block(s, want, n) = Ops(n, Due(want, s[n])) /\ Block(s, want, N + n) = <<>>
           /\ s[n] = None => Block(s, want, N + n) = Ops(n, Due(want, s[n])) /\ Block(s, want, n) = <<>>
<1> DEFINE ops == Ops(n, Due(want, s[n]))
<1>1. /\ Block(s, want, n) = IF (s[n] = None) <=> (n > N) THEN ops ELSE <<>>
      /\ Block(s, want, N + n) = IF (s[n] = None) <=> (N + n > N) THEN ops ELSE <<>>
  BY Turns, Zenon DEF Block
<1>2. ~(n > N) /\ N + n > N
  BY SQLPlanAssumption DEF Node
<1> HIDE DEF ops
<1>. QED  BY <1>1, <1>2 DEF ops

LEMMA BlockType ==
    ASSUME NEW s \in [Node -> Objects \cup {None}], NEW want \in Configs, NEW j \in 1 .. 2 * N
    PROVE  Block(s, want, j) \in List
<1>1. NodeAt(j) \in Node
  BY TurnNode
<1>2. Ops(NodeAt(j), Due(want, s[NodeAt(j)])) \in List
  BY <1>1, DueType, OpsType
<1>. QED  BY <1>2, NewDraftType DEF Block

LEMMA RecordedStart == ASSUME NEW s, NEW want PROVE Recorded(s, want, 0, <<>>)
<1> DEFINE P == [j \in Nat |-> <<>>]
<1>1. Built(P, s, want, 0)
  BY NewDraftType DEF Built
<1>. QED  BY <1>1 DEF Recorded

LEMMA RecordedNext ==
    ASSUME NEW s \in [Node -> Objects \cup {None}], NEW want \in Configs,
           NEW k \in 0 .. 2 * N - 1, NEW list, Recorded(s, want, k, list)
    PROVE  Recorded(s, want, k + 1, list \o Block(s, want, k + 1))
<1>0. k \in Nat /\ k + 1 \in Nat /\ k + 1 \in 1 .. 2 * N /\ k + 1 # 0
  BY SQLPlanAssumption
<1>1. PICK P : Built(P, s, want, k) /\ list = P[k]
  BY DEF Recorded
<1> DEFINE B == Block(s, want, k + 1)
           Q == [P EXCEPT ![k + 1] = P[k] \o B]
<1>2. B \in List /\ P[k] \in List
  BY <1>0, <1>1, BlockType DEF Built
<1> HIDE DEF B
<1>3. P[k] \o B \in List
  BY <1>2, ListIs
<1>4. P \in [Nat -> List] /\ P[0] = <<>>
  BY <1>1 DEF Built
<1>5. Q \in [Nat -> List] /\ Q[k + 1] = P[k] \o B /\ \A j \in Nat : j # k + 1 => Q[j] = P[j]
  BY <1>0, <1>3, <1>4
<1> HIDE DEF Q
<1>6. ASSUME NEW j \in 1 .. k + 1 PROVE Q[j] = Q[j - 1] \o Block(s, want, j)
  <2>1. CASE j = k + 1
    <3>1. j - 1 = k /\ k # k + 1
      BY <1>0, <2>1
    <3>2. Q[j - 1] = P[k]
      BY <1>0, <1>5, <3>1
    <3>. QED  BY <1>5, <2>1, <3>2 DEF B
  <2>2. CASE j # k + 1
    <3>1. j \in 1 .. k /\ j \in Nat /\ j - 1 \in Nat /\ j - 1 # k + 1
      BY <1>0, <2>2
    <3>2. P[j] = P[j - 1] \o Block(s, want, j)
      BY <1>1, <3>1 DEF Built
    <3>. QED  BY <1>5, <2>2, <3>1, <3>2
  <2>. QED  BY <2>1, <2>2
<1>7. Q[0] = <<>>
  BY <1>0, <1>4, <1>5
<1>8. Built(Q, s, want, k + 1)
  BY <1>5, <1>6, <1>7 DEF Built
<1>. QED  BY <1>1, <1>5, <1>8 DEF Recorded, B

LEMMA RecordedList ==
    ASSUME NEW s, NEW want, NEW k \in Nat, NEW list, Recorded(s, want, k, list)
    PROVE  list \in List
BY DEF Recorded, Built

(* Two records of the same objects are the same.                              *)
LEMMA RecordedOnce ==
    ASSUME NEW s, NEW want, NEW k \in Nat, NEW a, NEW b,
           Recorded(s, want, k, a), Recorded(s, want, k, b)
    PROVE  a = b
<1>1. PICK P : Built(P, s, want, k) /\ a = P[k]
  BY DEF Recorded
<1>2. PICK Q : Built(Q, s, want, k) /\ b = Q[k]
  BY DEF Recorded
<1> DEFINE S == {j \in 0 .. k : P[j] # Q[j]}
<1>3. SUFFICES ASSUME S # {} PROVE FALSE
  BY <1>1, <1>2
<1>0. S \in SUBSET Nat
  OBVIOUS
<1>4. PICK m \in S : \A j \in S : m <= j
  BY <1>0, <1>3, Minimum
<1>5. m # 0 /\ m \in 0 .. k
  BY <1>1, <1>2 DEF Built
<1>6. m \in 1 .. k /\ m - 1 \in 0 .. k /\ m - 1 < m
  BY <1>5
<1>7. P[m - 1] = Q[m - 1]
  BY <1>4, <1>6
<1>8. P[m] = P[m - 1] \o Block(s, want, m) /\ Q[m] = Q[m - 1] \o Block(s, want, m)
  BY <1>1, <1>2, <1>6 DEF Built
<1>. QED  BY <1>7, <1>8

Prefix(a, b) == Len(a) <= Len(b) /\ \A i \in 1 .. Len(a) : b[i] = a[i]

LEMMA PrefixOfSum ==
    ASSUME NEW a \in List, NEW b \in List, NEW c \in List, Prefix(a \o b, c)
    PROVE  /\ Prefix(a, c) /\ Len(a) + Len(b) <= Len(c)
           /\ \A i \in 1 .. Len(b) : c[Len(a) + i] = b[i]
<1>1. a \in Seq(Op) /\ b \in Seq(Op) /\ c \in Seq(Op)
  BY ListIs
<1>2. /\ Len(a) \in Nat /\ Len(b) \in Nat /\ Len(c) \in Nat /\ Len(a \o b) = Len(a) + Len(b)
      /\ \A i \in 1 .. Len(a) : (a \o b)[i] = a[i]
      /\ \A i \in 1 .. Len(b) : (a \o b)[Len(a) + i] = b[i]
  BY <1>1
<1>3. \A i \in 1 .. Len(a) + Len(b) : c[i] = (a \o b)[i]
  BY <1>2 DEF Prefix
<1>4. Len(a) + Len(b) <= Len(c)
  BY <1>2 DEF Prefix
<1>5. \A i \in 1 .. Len(b) : Len(a) + i \in 1 .. Len(a) + Len(b)
  BY <1>2
<1>6. \A i \in 1 .. Len(a) : i \in 1 .. Len(a) + Len(b)
  BY <1>2
<1>7. \A i \in 1 .. Len(a) : c[i] = a[i]
  BY <1>2, <1>3, <1>6
<1>8. \A i \in 1 .. Len(b) : c[Len(a) + i] = b[i]
  BY <1>2, <1>3, <1>5
<1>9. Len(a) <= Len(c)
  BY <1>2, <1>4
<1>. QED  BY <1>4, <1>7, <1>8, <1>9 DEF Prefix

LEMMA PrefixBuilt ==
    ASSUME NEW s \in [Node -> Objects \cup {None}], NEW want \in Configs, NEW P,
           Built(P, s, want, 2 * N), NEW j \in 0 .. 2 * N
    PROVE  Prefix(P[j], P[2 * N])
<1> DEFINE T == 2 * N
           S == {i \in 0 .. T : ~Prefix(P[T - i], P[T])}
<1>0. T \in Nat
  BY SQLPlanAssumption
<1>1. SUFFICES ASSUME S # {} PROVE FALSE
  <2>1. T - j \in 0 .. T /\ T - (T - j) = j
    BY <1>0
  <2>2. T - j \notin S
    BY <1>1
  <2>. QED  BY <2>1, <2>2
<1>12. S \in SUBSET Nat
  BY <1>0
<1>2. PICK m \in S : \A i \in S : m <= i
  BY <1>1, <1>12, Minimum
<1>3. \A i \in Nat : P[i] \in List
  BY DEF Built
<1> HIDE DEF T
<1>4. m # 0
  <2>1. Prefix(P[T], P[T])
    BY <1>0, <1>3, ListIs DEF Prefix
  <2>. QED  BY <1>0, <1>2, <2>1
<1>5. m \in 1 .. T /\ m - 1 \in 0 .. T /\ m - 1 < m /\ T - (m - 1) \in 1 .. T /\ T - m \in Nat
      /\ T - (m - 1) - 1 = T - m
  BY <1>0, <1>2, <1>4
<1>6. Prefix(P[T - (m - 1)], P[T])
  BY <1>2, <1>5
<1>7. P[T - (m - 1)] = P[T - m] \o Block(s, want, T - (m - 1))
  <2>1. P[T - (m - 1)] = P[T - (m - 1) - 1] \o Block(s, want, T - (m - 1))
    BY <1>5 DEF Built, T
  <2>. QED  BY <1>5, <2>1
<1>8. Block(s, want, T - (m - 1)) \in List
  BY <1>5, BlockType DEF T
<1>9. P[T - m] \in List /\ P[T] \in List
  BY <1>0, <1>3, <1>5
<1>10. Prefix(P[T - m], P[T])
  BY <1>6, <1>7, <1>8, <1>9, PrefixOfSum
<1>. QED  BY <1>2, <1>10

-----------------------------------------------------------------------------
(* What is still to be sent to a node has places in the list.                 *)

Embedded(n, xs, list, pos) ==
    \E place \in [DOMAIN xs -> DOMAIN list] :
        /\ \A i \in DOMAIN xs : list[place[i]] = Operation(n, xs[i]) /\ pos < place[i]
        /\ \A i, j \in DOMAIN xs : i < j => place[i] < place[j]

LEMMA RecordedEmbeds ==
    ASSUME NEW s \in [Node -> Objects \cup {None}], NEW want \in Configs, NEW list,
           Recorded(s, want, 2 * N, list), NEW n \in Node
    PROVE  Embedded(n, Due(want, s[n]), list, 0)
<1> DEFINE xs == Due(want, s[n])
           ops == Ops(n, xs)
<1>1. PICK P : Built(P, s, want, 2 * N) /\ list = P[2 * N]
  BY DEF Recorded
<1>2. xs \in Seq(Statements)
  BY DueType
<1>3. PICK j \in 1 .. 2 * N : Block(s, want, j) = ops
  BY Turns, Blocks
<1>4. ops \in List /\ Len(ops) = Len(xs) /\ \A i \in 1 .. Len(xs) : ops[i] = Operation(n, xs[i])
  BY <1>2, OpsType
<1> HIDE DEF ops, xs
<1>5. j - 1 \in 0 .. 2 * N /\ j \in 0 .. 2 * N /\ j \in Nat /\ j - 1 \in Nat /\ 2 * N \in Nat
  BY SQLPlanAssumption
<1>6. P[j] = P[j - 1] \o ops
  BY <1>1, <1>3 DEF Built
<1>7. P[j - 1] \in List /\ list \in List
  BY <1>1, <1>5 DEF Built
<1>8. Prefix(P[j - 1] \o ops, list)
  BY <1>1, <1>5, <1>6, PrefixBuilt
<1>9. /\ Len(P[j - 1]) + Len(ops) <= Len(list)
      /\ \A i \in 1 .. Len(ops) : list[Len(P[j - 1]) + i] = ops[i]
  BY <1>4, <1>7, <1>8, PrefixOfSum
<1> DEFINE base == Len(P[j - 1])
           place == [i \in DOMAIN xs |-> base + i]
<1>10. /\ base \in Nat /\ DOMAIN xs = 1 .. Len(xs) /\ DOMAIN list = 1 .. Len(list)
       /\ Len(xs) \in Nat /\ Len(list) \in Nat
  BY <1>2, <1>7, ListIs
<1> HIDE DEF base
<1>11. place \in [DOMAIN xs -> DOMAIN list]
  BY <1>4, <1>9, <1>10 DEF base
<1>12. ASSUME NEW i \in DOMAIN xs PROVE list[place[i]] = Operation(n, xs[i]) /\ 0 < place[i]
  BY <1>4, <1>9, <1>10, <1>12 DEF base
<1>13. \A i, k \in DOMAIN xs : i < k => place[i] < place[k]
  BY <1>10
<1> HIDE DEF place
<1>. QED  BY <1>11, <1>12, <1>13 DEF Embedded, xs

LEMMA EmbeddedPart ==
    ASSUME NEW n \in Node, NEW xs \in Seq(Statements), NEW ys \in Seq(Statements),
           NEW list \in List, NEW pos \in Nat,
           Subsequence(xs, ys), Embedded(n, ys, list, pos)
    PROVE  Embedded(n, xs, list, pos)
<1>1. PICK f \in [DOMAIN xs -> DOMAIN ys] :
          /\ \A i \in DOMAIN xs : xs[i] = ys[f[i]]
          /\ \A i, j \in DOMAIN xs : i < j => f[i] < f[j]
  BY DEF Subsequence
<1>2. PICK g \in [DOMAIN ys -> DOMAIN list] :
          /\ \A i \in DOMAIN ys : list[g[i]] = Operation(n, ys[i]) /\ pos < g[i]
          /\ \A i, j \in DOMAIN ys : i < j => g[i] < g[j]
  BY DEF Embedded
<1> DEFINE h == [i \in DOMAIN xs |-> g[f[i]]]
<1>3. h \in [DOMAIN xs -> DOMAIN list]
  BY <1>1, <1>2
<1>4. \A i \in DOMAIN xs : list[h[i]] = Operation(n, xs[i]) /\ pos < h[i]
  BY <1>1, <1>2
<1>5. \A i, j \in DOMAIN xs : i < j => h[i] < h[j]
  BY <1>1, <1>2
<1> HIDE DEF h
<1>. QED  BY <1>3, <1>4, <1>5 DEF Embedded

(* The next statement is found, and the others behind it.                     *)
LEMMA EmbeddedNext ==
    ASSUME TypeOK, NEW n \in Node, NEW xs \in Seq(Statements), xs # <<>>,
           Embedded(n, xs, operations, positions[n])
    PROVE  /\ Found(n, Head(xs)) # {} /\ First(n, Head(xs)) \in Nat
           /\ Embedded(n, Tail(xs), operations, First(n, Head(xs)))
<1> DEFINE x == Head(xs)
<1>1. PICK g \in [DOMAIN xs -> DOMAIN operations] :
          /\ \A i \in DOMAIN xs : operations[g[i]] = Operation(n, xs[i]) /\ positions[n] < g[i]
          /\ \A i, j \in DOMAIN xs : i < j => g[i] < g[j]
  BY DEF Embedded
<1>2. /\ DOMAIN xs = 1 .. Len(xs) /\ Len(xs) \in Nat /\ 1 \in DOMAIN xs /\ xs[1] = x
      /\ DOMAIN Tail(xs) = 1 .. Len(xs) - 1 /\ \A i \in 1 .. Len(xs) - 1 : Tail(xs)[i] = xs[i + 1]
  OBVIOUS
<1>3. DOMAIN operations \subseteq Nat /\ operations \in List
  BY DEF TypeOK, List
<1> HIDE DEF x
<1>4. g[1] \in Found(n, x)
  BY <1>1, <1>2 DEF Found
<1>5. Found(n, x) \in SUBSET Nat
  BY <1>3 DEF Found
<1>6. First(n, x) \in Found(n, x) /\ \A j \in Found(n, x) : First(n, x) <= j
  BY <1>4, <1>5, Minimum DEF First
<1>7. First(n, x) <= g[1] /\ First(n, x) \in Nat
  BY <1>4, <1>5, <1>6
<1> DEFINE h == [i \in DOMAIN Tail(xs) |-> g[i + 1]]
           F == First(n, x)
<1>8. \A i \in DOMAIN Tail(xs) : i + 1 \in DOMAIN xs /\ 1 < i + 1 /\ i \in Nat
  BY <1>2
<1>9. h \in [DOMAIN Tail(xs) -> DOMAIN operations]
  BY <1>1, <1>8
<1> HIDE DEF F
<1>10. ASSUME NEW i \in DOMAIN Tail(xs)
       PROVE  operations[h[i]] = Operation(n, Tail(xs)[i]) /\ F < h[i]
  <2>1. operations[g[i + 1]] = Operation(n, xs[i + 1])
    BY <1>1, <1>8
  <2>2. g[1] < g[i + 1]
    BY <1>1, <1>2, <1>8
  <2>3. g[i + 1] \in Nat /\ g[1] \in Nat
    BY <1>1, <1>2, <1>3, <1>8
  <2>. QED  BY <1>2, <1>7, <2>1, <2>2, <2>3 DEF F
<1>11. ASSUME NEW i \in DOMAIN Tail(xs), NEW j \in DOMAIN Tail(xs), i < j PROVE h[i] < h[j]
  <2>1. i + 1 \in DOMAIN xs /\ j + 1 \in DOMAIN xs /\ i + 1 < j + 1
    BY <1>8, <1>11
  <2>. QED  BY <1>1, <1>11, <2>1
<1> HIDE DEF h
<1>12. Embedded(n, Tail(xs), operations, F)
  BY <1>9, <1>10, <1>11 DEF Embedded
<1>. QED  BY <1>4, <1>7, <1>12 DEF x, F

-----------------------------------------------------------------------------
(* What holds of a plan and its apply as long as nobody interferes.           *)

Converging == {"survey", "reconcile", "create", "write", "final"}

Bare == [n \in Node |-> None]

(* The objects that the loops of a plan start from: a replacement is planned  *)
(* as if the object had gone.                                                 *)
Start == IF stage = "plan" /\ draft.replace THEN Bare ELSE objects

(* The turns the loops have begun, and the list they make of these.           *)
Turn ==
    IF pc = "reconcile" THEN at - 1
    ELSE IF pc = "create" THEN N + at - 1
    ELSE IF pc = "write" THEN IF at \in existing THEN at ELSE N + at
    ELSE IF pc = "final" THEN 2 * N
    ELSE 0

Whole == IF pc = "write" THEN operations \o Ops(at, todo) ELSE operations

RecordInv ==
    Recording /\ pc \in Converging =>
        /\ pc = "survey" => operations = <<>>
        /\ pc # "survey" => existing = {n \in Node : Start[n] # None}
        /\ Recorded(Start, Want, Turn, Whole)
        /\ \A n \in Node : IF Turn < n THEN Read(n) = Start[n] ELSE Fits(Want, Start[n])

(* What ModifyPlan decided is still so.                                       *)
DraftInv ==
    /\ stage = "plan" /\ config # None =>
          draft.replace = Replaces(config) /\ draft.known = Draft(config).known
    /\ stage = "replan" /\ pc # "modify" => draft = Draft(saved.want)
    /\ stage = "plan" /\ pc = "delete" => config = None \/ draft.replace
    /\ pc = "modify" =>
          /\ stage = "replan" /\ operations = <<>>
          /\ \A n \in Node : preview[n] = Live

DeleteInv == pc = "delete" /\ ~failed => \A n \in Node : n < at => Read(n) = None

(* The saved plan is what would be planned now, or it has been applied.       *)
KnownBy(prior, want) == prior # None /\ Converged(want) /\ StatementKept(prior.config, want)

ReplacedBy(prior, want) ==
    /\ prior # None
    /\ \/ MustReplace(prior.config, want)
       \/ \E n \in Node : objects[n] # None /\ MustReplace(ReadAs(want, objects[n]), want)

Faithful ==
    /\ saved.known = KnownBy(saved.prior, saved.want)
    /\ ~ReplacedBy(saved.prior, saved.want)
    /\ Recorded(objects, saved.want, 2 * N, saved.operations)
    /\ saved.digest = IF saved.operations # <<>> THEN saved.operations
                      ELSE IF saved.prior = None THEN <<>> ELSE saved.prior.digest

Done == tf # None /\ tf.config = saved.want /\ Converged(saved.want)

ReplacementInv ==
    saved # None /\ saved.want # None /\ saved.replace =>
        /\ Recorded(Bare, saved.want, 2 * N, saved.operations)
        /\ saved.digest = saved.operations /\ ~saved.known
        /\ stage = "replan" => tf = None /\ objects = Bare

UpdateInv ==
    saved # None /\ saved.want # None /\ ~saved.replace =>
        /\ stage # "drop"
        /\ stage = "idle" \/ pc \in {"modify", "survey"} => Faithful \/ Done
        /\ stage = "replan" => tf = saved.prior
        /\ stage = "replan" /\ pc # "modify" => Faithful

(* What the apply has still to send is in the list, behind the positions; the *)
(* nodes the loops have passed need nothing.                                  *)
Passed(n) == (IF n \in existing THEN n ELSE N + n) <= Turn /\ ~(pc = "write" /\ n = at)

Awaited(n) ==
    /\ Fits(saved.want, objects[n])
    /\ Embedded(n, Due(saved.want, objects[n]), operations, positions[n])

ApplyInv ==
    stage = "apply" =>
        /\ \A n \in Node : Awaited(n)
        /\ pc = "write" => todo = Due(saved.want, objects[at])
        /\ pc # "survey" => \A n \in Node :
              /\ n \in existing => objects[n] # None
              /\ n \notin existing /\ Turn < N + n => objects[n] = None
              /\ Passed(n) => objects[n] # None /\ Due(saved.want, objects[n]) = <<>>

Undisturbed ==
    /\ RecordInv /\ DraftInv /\ DeleteInv
    /\ ReplacementInv /\ UpdateInv /\ ApplyInv

QuietInv == ~disturbed => Undisturbed /\ last \notin {"blocked", "refused"}

Inv == TypeOK /\ CallInv /\ SavedInv

LEMMA BareType == Bare \in [Node -> Objects \cup {None}]
BY DEF Bare

LEMMA StartType == ASSUME TypeOK PROVE Start \in [Node -> Objects \cup {None}]
BY BareType DEF Start, TypeOK

LEMMA TurnIs ==
    /\ pc = "survey" => Turn = 0
    /\ pc = "reconcile" => Turn = at - 1
    /\ pc = "create" => Turn = N + at - 1
    /\ pc = "write" /\ at \in existing => Turn = at
    /\ pc = "write" /\ at \notin existing => Turn = N + at
    /\ pc = "final" => Turn = 2 * N
BY DEF Turn

LEMMA TurnIsNext ==
    /\ pc' = "survey" => Turn' = 0
    /\ pc' = "reconcile" => Turn' = at' - 1
    /\ pc' = "create" => Turn' = N + at' - 1
    /\ pc' = "write" /\ at' \in existing' => Turn' = at'
    /\ pc' = "write" /\ at' \notin existing' => Turn' = N + at'
    /\ pc' = "final" => Turn' = 2 * N
BY DEF Turn

(* Nothing of all this is said while no call runs, or of a fresh one.         *)
LEMMA IdleUndisturbed ==
    ASSUME Idle, ReplacementInv', UpdateInv'
    PROVE  Undisturbed'
<1>1. stage' = "idle" /\ pc' = "idle"
  BY DEF Idle, Call
<1>. QED  BY <1>1 DEF Undisturbed, RecordInv, DraftInv, DeleteInv, ApplyInv, Recording

LEMMA ReadSame ==
    ASSUME preview' = preview, objects' = objects, stage' = stage
    PROVE  \A n \in Node : Read(n)' = Read(n)
BY DEF Read, Recording

(* A call that ends early leaves the saved plan as it was.                    *)
LEMMA EndUndisturbed ==
    ASSUME Inv, Undisturbed, NEW outcome, End(outcome),
           \/ stage \in {"plan", "replan", "drop"}
           \/ pc = "survey"
    PROVE  Undisturbed'
<1>1. Idle /\ UNCHANGED <<objects, tf, saved>> /\ stage' = "idle" /\ pc' = "idle"
  BY DEF End, Idle, Call
<1>2. ReplacementInv'
  BY <1>1 DEF Undisturbed, ReplacementInv, Recorded
<1>3. CASE saved # None /\ saved.want # None /\ ~saved.replace
  <2>1. Faithful \/ Done
    BY <1>3 DEF Undisturbed, UpdateInv, Inv, CallInv
  <2>2. (Faithful \/ Done)'
    BY <1>1, <2>1 DEF Faithful, Done, KnownBy, ReplacedBy, Converged, Holds
  <2>. QED  BY <1>1, <1>2, <2>2, IdleUndisturbed DEF UpdateInv
<1>4. CASE ~(saved # None /\ saved.want # None /\ ~saved.replace)
  <2>1. UpdateInv'
    BY <1>1, <1>4 DEF UpdateInv
  <2>. QED  BY <1>1, <1>2, <2>1, IdleUndisturbed
<1>. QED  BY <1>3, <1>4

-----------------------------------------------------------------------------
(* The loops of a plan, and of the plan before the apply.                     *)

Loops == Survey \/ Reconcile \/ Create \/ Write \/ NextNode \/ LoopDone

LEMMA LoopGoes ==
    ASSUME Loops
    PROVE  /\ pc \in Converging /\ pc' \in Converging \ {"survey"}
           /\ UNCHANGED <<config, tf, saved, stage, draft, failed, last, disturbed>>
           /\ pc = "final" => FALSE
<1>1. ASSUME NEW p \in Converging \ {"survey"}, Goto(p)
      PROVE  pc' \in Converging \ {"survey"} /\ UNCHANGED <<config, tf, saved, stage, draft, failed, last, disturbed>>
  BY <1>1 DEF Goto
<1>2. \E p \in Converging \ {"survey"} : Goto(p)
  BY DEF Loops, Survey, Reconcile, Create, Write, NextNode, LoopDone, Converging
<1>3. pc \in Converging \ {"final"}
  BY DEF Loops, Survey, Reconcile, Create, Write, NextNode, LoopDone, Converging
<1>. QED  BY <1>1, <1>2, <1>3

LEMMA OpsTail ==
    ASSUME NEW n \in Node, NEW xs \in Seq(Statements), xs # <<>>, NEW list \in List
    PROVE  Append(list, Operation(n, Head(xs))) \o Ops(n, Tail(xs)) = list \o Ops(n, xs)
<1>1. Head(xs) \in Statements /\ Tail(xs) \in Seq(Statements)
  OBVIOUS
<1>2. Operation(n, Head(xs)) \in Op
  BY <1>1, OperationType
<1>3. /\ Ops(n, xs) \in Seq(Op) /\ Len(Ops(n, xs)) = Len(xs)
      /\ \A i \in 1 .. Len(xs) : Ops(n, xs)[i] = Operation(n, xs[i])
  BY OpsType, ListIs
<1>4. /\ Ops(n, Tail(xs)) \in Seq(Op) /\ Len(Ops(n, Tail(xs))) = Len(Tail(xs))
      /\ \A i \in 1 .. Len(Tail(xs)) : Ops(n, Tail(xs))[i] = Operation(n, Tail(xs)[i])
  BY <1>1, OpsType, ListIs
<1>5. /\ Len(xs) \in Nat \ {0} /\ Len(Tail(xs)) = Len(xs) - 1 /\ Head(xs) = xs[1]
      /\ \A i \in 1 .. Len(xs) - 1 : Tail(xs)[i] = xs[i + 1]
  OBVIOUS
<1> DEFINE a == Ops(n, xs)
           b == Ops(n, Tail(xs))
           o == Operation(n, Head(xs))
<1>6. /\ a \in Seq(Op) /\ b \in Seq(Op) /\ o \in Op /\ Len(a) = Len(b) + 1 /\ a[1] = o
      /\ \A i \in 1 .. Len(b) : b[i] = a[i + 1]
  BY <1>2, <1>3, <1>4, <1>5
<1>7. list \in Seq(Op)
  BY ListIs
<1> HIDE DEF a, b, o
<1>8. Append(list, o) \o b = list \o a
  <2> DEFINE l == Append(list, o) \o b
             r == list \o a
  <2>1. Len(list) \in Nat /\ Len(b) \in Nat
    BY <1>6, <1>7
  <2>2. /\ l \in Seq(Op) /\ Len(l) = Len(list) + 1 + Len(b)
        /\ \A i \in 1 .. Len(list) : l[i] = list[i]
        /\ l[Len(list) + 1] = o
        /\ \A i \in Len(list) + 2 .. Len(list) + 1 + Len(b) : l[i] = b[i - Len(list) - 1]
    BY <1>6, <1>7
  <2>3. /\ r \in Seq(Op) /\ Len(r) = Len(list) + 1 + Len(b)
        /\ \A i \in 1 .. Len(list) : r[i] = list[i]
        /\ \A i \in Len(list) + 1 .. Len(list) + 1 + Len(b) : r[i] = a[i - Len(list)]
    <3>0. a \in Seq(Op)
      BY <1>6
    <3>1. Len(a) \in Nat /\ Len(r) = Len(list) + Len(a) /\ r \in Seq(Op)
      BY <1>7, <3>0
    <3>2. \A i \in 1 .. Len(list) : r[i] = list[i]
      BY <1>7, <3>0
    <3>3. \A i \in Len(list) + 1 .. Len(list) + Len(a) : r[i] = a[i - Len(list)]
      BY <1>7, <3>0
    <3> HIDE DEF r
    <3>4. Len(list) + Len(a) = Len(list) + 1 + Len(b)
      BY <1>6, <2>1
    <3>. QED  BY <3>1, <3>2, <3>3, <3>4
  <2> HIDE DEF l, r
  <2>4. ASSUME NEW i \in 1 .. Len(list) + 1 + Len(b) PROVE l[i] = r[i]
    <3>1. CASE i \in 1 .. Len(list)
      BY <2>2, <2>3, <3>1
    <3>2. CASE i = Len(list) + 1
      <4>1. r[i] = a[i - Len(list)] /\ i - Len(list) = 1
        BY <2>1, <2>3, <3>2
      <4>. QED  BY <1>6, <2>2, <3>2, <4>1
    <3>3. CASE i \in Len(list) + 2 .. Len(list) + 1 + Len(b)
      <4>1. r[i] = a[i - Len(list)] /\ l[i] = b[i - Len(list) - 1]
        BY <2>1, <2>2, <2>3, <3>3
      <4>2. i - Len(list) - 1 \in 1 .. Len(b) /\ i - Len(list) - 1 + 1 = i - Len(list)
        BY <2>1, <3>3
      <4>3. b[i - Len(list) - 1] = a[i - Len(list) - 1 + 1]
        BY <1>6, <4>2
      <4>. QED  BY <4>1, <4>2, <4>3
    <3>. QED  BY <2>1, <3>1, <3>2, <3>3
  <2>5. l = r
    BY <2>1, <2>2, <2>3, <2>4
  <2>. QED  BY <2>5 DEF l, r
<1>. QED  BY <1>8 DEF a, b, o

LEMMA NoOps ==
    ASSUME NEW list \in List
    PROVE  list \o <<>> = list /\ \A n \in Node : list \o Ops(n, <<>>) = list
<1>1. \A n \in Node : Ops(n, <<>>) = <<>>
  BY DEF Ops
<1>2. list \o <<>> = list
  BY ListIs
<1>. QED  BY <1>1, <1>2

(* What all the steps of the loops have in common.                            *)
LEMMA RecordFrame ==
    ASSUME Inv, Undisturbed, Loops, Recording, RecordInv'
    PROVE  Undisturbed'
<1>1. /\ pc \in Converging \ {"final"} /\ pc' \in Converging \ {"survey"}
      /\ UNCHANGED <<config, tf, saved, stage, draft, failed, last, disturbed>>
  BY LoopGoes
<1>2. objects' = objects
  BY DEF Loops, Survey, Reconcile, Create, Write, NextNode, LoopDone, NoExec, Exec, Record
<1>3. pc # "modify" /\ pc' # "modify" /\ pc' # "delete" /\ pc' # "survey" /\ pc # "idle" /\ pc # "delete"
  BY <1>1 DEF Converging
<1>4. DraftInv'
  <2>1. Replaces(config)' = Replaces(config)
    BY <1>1, <1>2 DEF Replaces
  <2>2. Draft(config)' = Draft(config) /\ Draft(saved.want)' = Draft(saved.want)
    BY <1>1, <1>2 DEF Draft, Replaces, Known, Converged, Holds
  <2>. QED  BY <1>1, <1>3, <2>1, <2>2 DEF Undisturbed, DraftInv
<1>5. DeleteInv'
  BY <1>3 DEF DeleteInv
<1>6. ReplacementInv'
  BY <1>1, <1>2 DEF Undisturbed, ReplacementInv, Recorded
<1>7. UpdateInv'
  <2>1. CASE saved # None /\ saved.want # None /\ ~saved.replace
    <3>1. stage = "replan"
      BY <2>1 DEF Inv, CallInv, Recording
    <3>2. Faithful /\ tf = saved.prior
      BY <1>3, <2>1, <3>1 DEF Undisturbed, UpdateInv
    <3>3. Faithful'
      BY <1>1, <1>2, <3>2 DEF Faithful, KnownBy, ReplacedBy, Converged, Holds
    <3>. QED  BY <1>1, <3>1, <3>2, <3>3 DEF UpdateInv
  <2>. QED  BY <1>1, <2>1 DEF UpdateInv
<1>8. ApplyInv'
  BY <1>1 DEF Recording, ApplyInv
<1>. QED  BY <1>4, <1>5, <1>6, <1>7, <1>8 DEF Undisturbed

LEMMA RecordSame ==
    ASSUME Loops, Recording
    PROVE  Start' = Start /\ Want' = Want /\ Recording' /\ objects' = objects
<1>1. objects' = objects
  BY DEF Loops, Survey, Reconcile, Create, Write, NextNode, LoopDone, NoExec, Exec, Record
<1>2. UNCHANGED <<config, saved, stage, draft>>
  BY LoopGoes
<1>. QED  BY <1>1, <1>2 DEF Start, Want, Recording, Bare

LEMMA RecordGoes ==
    ASSUME Loops, Recording,
           existing' = {n \in Node : Start[n] # None},
           Recorded(Start, Want, Turn', Whole'),
           \A n \in Node : IF Turn' < n THEN Read(n)' = Start[n] ELSE Fits(Want, Start[n])
    PROVE  RecordInv'
<1>1. pc' # "survey"
  BY LoopGoes
<1>2. Start' = Start /\ Want' = Want
  BY RecordSame
<1>3. Recorded(Start', Want', Turn', Whole')
  BY <1>2
<1>4. Recorded(Start, Want, Turn, Whole)'
  BY <1>3 DEF Recorded, Built, Block, Ops, Due
<1>5. ASSUME NEW n \in Node
      PROVE  IF Turn' < n THEN Read(n)' = Start'[n] ELSE Fits(Want', Start'[n])
  BY <1>2
<1>6. existing' = {n \in Node : Start'[n] # None}
  BY <1>2
<1>. QED  BY <1>1, <1>4, <1>5, <1>6 DEF RecordInv, Fits

LEMMA RecordLoop ==
    ASSUME Inv, Undisturbed, Recording, Loops
    PROVE  RecordInv'
<1> DEFINE s == Start
           want == Want
<1>1. /\ want \in Configs /\ s \in [Node -> Objects \cup {None}]
      /\ operations \in List /\ todo \in Seq(Statements)
      /\ at \in 1 .. N + 1 /\ existing \subseteq Node /\ N \in Nat \ {0} /\ Node = 1 .. N
  BY LoopGoes, WriteWant, StartType, SQLPlanAssumption DEF Inv, TypeOK, Converging, Node
<1>2. /\ pc = "survey" => operations = <<>>
      /\ pc # "survey" => existing = {n \in Node : s[n] # None}
      /\ Recorded(s, want, Turn, Whole)
      /\ \A n \in Node : IF Turn < n THEN Read(n) = s[n] ELSE Fits(want, s[n])
  BY LoopGoes DEF Undisturbed, RecordInv
<1>3. \A n \in Node : /\ s[n] \in Objects \cup {None}
                      /\ s[n] # None => Due(want, s[n]) = Alterations(want, s[n])
                      /\ s[n] = None => Due(want, s[n]) = <<Creation(want)>> /\ Fits(want, s[n])
  BY <1>1 DEF Due, Fits
<1> HIDE DEF s, want
<1>4. \A k \in 0 .. 2 * N - 1 :
          Recorded(s, want, k, Whole) => Recorded(s, want, k + 1, Whole \o Block(s, want, k + 1))
  BY <1>1, RecordedNext
<1>5. NoExec => \A n \in Node : Read(n)' = Read(n)
  BY LoopGoes, ReadSame DEF NoExec
<1>6. CASE Survey
  <2>1. NoExec /\ pc' = "reconcile" /\ at' = 1 /\ existing' = {n \in Node : Read(n) # None} /\ pc = "survey"
    BY <1>6 DEF Survey, Goto
  <2>2. Turn = 0 /\ Turn' = 0 /\ Whole = <<>> /\ Whole' = <<>>
    BY <1>2, <2>1, TurnIs, TurnIsNext DEF Whole, NoExec
  <2>3. \A n \in Node : Turn < n /\ Read(n) = s[n]
    BY <1>1, <1>2, <2>2
  <2>4. existing' = {n \in Node : s[n] # None}
    BY <2>1, <2>3
  <2>. QED  BY <1>2, <1>5, <2>1, <2>2, <2>3, <2>4, RecordGoes DEF s, want
<1>7. CASE Reconcile
  <2>1. /\ NoExec /\ pc = "reconcile" /\ pc' = "write" /\ at \in existing /\ at' = at /\ existing' = existing
        /\ todo' = Alterations(want, Read(at)) /\ Read(at) # None /\ ~MustReplace(ReadAs(want, Read(at)), want)
    BY <1>7 DEF Reconcile, Goto, want
  <2>2. at \in Node /\ Turn = at - 1 /\ Turn' = at /\ Turn < at
    BY <1>1, <2>1, TurnIs, TurnIsNext
  <2>3. Read(at) = s[at]
    BY <1>2, <2>2
  <2>4. Whole = operations /\ Whole' = operations \o Ops(at, todo')
    BY <2>1 DEF Whole, NoExec
  <2>5. Block(s, want, at) = Ops(at, todo')
    BY <1>1, <1>3, <2>1, <2>2, <2>3, Blocks
  <2>6. Turn \in 0 .. 2 * N - 1 /\ Turn + 1 = Turn' /\ Turn + 1 = at
    BY <1>1, <2>2
  <2>7. Recorded(s, want, Turn', Whole')
    BY <1>2, <1>4, <2>4, <2>5, <2>6
  <2>8. ASSUME NEW n \in Node PROVE IF Turn' < n THEN Read(n)' = s[n] ELSE Fits(want, s[n])
    <3>1. Fits(want, s[at])
      BY <2>1, <2>3 DEF Fits
    <3>2. n = at \/ (Turn' < n /\ Turn < n) \/ (~(Turn' < n) /\ ~(Turn < n))
      BY <1>1, <2>2
    <3>3. ~(Turn' < at)
      BY <1>1, <2>2
    <3>. QED  BY <1>2, <1>5, <2>1, <3>1, <3>2, <3>3
  <2>. QED  BY <1>2, <2>1, <2>7, <2>8, RecordGoes DEF s, want
<1>8. CASE Create
  <2>1. /\ NoExec /\ pc = "create" /\ pc' = "write" /\ at \in Node \ existing /\ at' = at /\ existing' = existing
        /\ todo' = <<Creation(want)>>
    BY <1>8 DEF Create, Goto, want
  <2>2. Turn = N + at - 1 /\ Turn' = N + at
    BY <2>1, TurnIs, TurnIsNext
  <2>3. Whole = operations /\ Whole' = operations \o Ops(at, todo')
    BY <2>1 DEF Whole, NoExec
  <2>4. s[at] = None
    BY <1>2, <2>1
  <2>5. Block(s, want, N + at) = Ops(at, todo')
    BY <1>1, <1>3, <2>1, <2>4, Blocks
  <2>6. Turn \in 0 .. 2 * N - 1 /\ Turn + 1 = Turn' /\ Turn + 1 = N + at
    BY <1>1, <2>1, <2>2
  <2>7. Recorded(s, want, Turn', Whole')
    BY <1>2, <1>4, <2>3, <2>5, <2>6
  <2>8. \A n \in Node : ~(Turn < n) /\ ~(Turn' < n)
    BY <1>1, <2>1, <2>2
  <2>. QED  BY <1>2, <2>1, <2>7, <2>8, RecordGoes DEF s, want
<1>9. CASE Write
  <2>1. /\ pc = "write" /\ pc' = "write" /\ at' = at /\ existing' = existing /\ todo # <<>> /\ todo' = Tail(todo)
        /\ Record(at, Head(todo)) /\ at \in Node
    BY <1>9 DEF Write, Goto, Exec, Inv, CallInv, AtInv
  <2>2. Turn' = Turn /\ ~(Turn < at)
    BY <1>1, <2>1, TurnIs, TurnIsNext
  <2>3. Whole' = Whole
    <3>1. /\ Whole = operations \o Ops(at, todo)
          /\ Whole' = Append(operations, Operation(at, Head(todo))) \o Ops(at, Tail(todo))
      BY <2>1, Zenon DEF Whole, Record, Ops, Operation
    <3>. QED  BY <1>1, <2>1, <3>1, OpsTail
  <2>4. ASSUME NEW n \in Node, Turn < n PROVE Read(n)' = Read(n)
    <3>1. n # at
      BY <2>2, <2>4
    <3>2. preview'[n] = preview[n]
      BY <1>1, <2>1, <3>1 DEF Record, Inv, TypeOK
    <3>. QED  BY <3>2, RecordSame, LoopGoes DEF Read, Recording
  <2>. QED  BY <1>2, <2>1, <2>2, <2>3, <2>4, RecordGoes DEF s, want
<1>10. CASE NextNode
  <2>1. NoExec /\ at' = at + 1 /\ existing' = existing /\ pc \in {"write", "reconcile", "create"}
    BY <1>10 DEF NextNode
  <2>2. CASE pc = "write"
    <3>1. todo = <<>> /\ at \in Node /\ pc' = IF at \in existing THEN "reconcile" ELSE "create"
      BY <1>10, <2>2 DEF NextNode, Goto, Inv, CallInv, AtInv
    <3>2. Turn' = Turn
      BY <1>1, <2>1, <2>2, <3>1, TurnIs, TurnIsNext
    <3>3. Whole' = Whole
      BY <1>1, <2>1, <2>2, <3>1, NoOps DEF Whole, NoExec
    <3>. QED  BY <1>2, <1>5, <2>1, <2>2, <3>2, <3>3, RecordGoes DEF s, want
  <2>3. CASE pc = "reconcile"
    <3>1. at \in Node \ existing /\ pc' = "reconcile"
      BY <1>10, <2>3 DEF NextNode, Goto
    <3>2. Turn = at - 1 /\ Turn' = at /\ Turn \in 0 .. 2 * N - 1 /\ Turn + 1 = at
      BY <1>1, <2>1, <2>3, <3>1, TurnIs, TurnIsNext
    <3>3. s[at] = None
      BY <1>2, <2>3, <3>1
    <3>4. Block(s, want, at) = <<>> /\ Whole = operations /\ Whole' = operations
      BY <1>1, <2>1, <2>3, <3>1, <3>3, Blocks DEF Whole, NoExec
    <3>5. Recorded(s, want, Turn', Whole')
      <4>1. Recorded(s, want, Turn + 1, Whole \o Block(s, want, Turn + 1))
        BY <1>2, <1>4, <3>2
      <4>2. Block(s, want, Turn + 1) = <<>> /\ operations \o <<>> = operations
        BY <1>1, <3>2, <3>4, NoOps
      <4>. QED  BY <3>2, <3>4, <4>1, <4>2
    <3>6. ASSUME NEW n \in Node PROVE IF Turn' < n THEN Read(n)' = s[n] ELSE Fits(want, s[n])
      <4>1. n = at \/ (Turn' < n /\ Turn < n) \/ (~(Turn' < n) /\ ~(Turn < n))
        BY <1>1, <3>1, <3>2
      <4>2. ~(Turn' < at)
        BY <1>1, <3>2
      <4>3. Fits(want, s[at])
        BY <1>3, <3>1, <3>3
      <4>. QED  BY <1>2, <1>5, <2>1, <4>1, <4>2, <4>3
    <3>. QED  BY <1>2, <2>1, <2>3, <3>5, <3>6, RecordGoes DEF s, want
  <2>4. CASE pc = "create"
    <3>1. at \in existing /\ at \in Node /\ pc' = "create"
      BY <1>1, <1>10, <2>4 DEF NextNode, Goto
    <3>2. Turn = N + at - 1 /\ Turn' = N + at /\ Turn \in 0 .. 2 * N - 1 /\ Turn + 1 = N + at
      BY <1>1, <2>1, <2>4, <3>1, TurnIs, TurnIsNext
    <3>3. s[at] # None
      BY <1>2, <2>4, <3>1
    <3>4. Block(s, want, N + at) = <<>> /\ Whole = operations /\ Whole' = operations
      BY <1>1, <2>1, <2>4, <3>1, <3>3, Blocks DEF Whole, NoExec
    <3>5. Recorded(s, want, Turn', Whole')
      <4>1. Recorded(s, want, Turn + 1, Whole \o Block(s, want, Turn + 1))
        BY <1>2, <1>4, <3>2
      <4>2. Block(s, want, Turn + 1) = <<>> /\ operations \o <<>> = operations
        BY <1>1, <3>2, <3>4, NoOps
      <4>. QED  BY <3>2, <3>4, <4>1, <4>2
    <3>6. \A n \in Node : ~(Turn < n) /\ ~(Turn' < n)
      BY <1>1, <3>1, <3>2
    <3>. QED  BY <1>2, <2>1, <2>4, <3>5, <3>6, RecordGoes DEF s, want
  <2>. QED  BY <2>1, <2>2, <2>3, <2>4
<1>11. CASE LoopDone
  <2>1. /\ NoExec /\ at' = 1 /\ existing' = existing /\ at = N + 1 /\ pc \in {"reconcile", "create"}
        /\ pc' = IF pc = "reconcile" THEN "create" ELSE "final"
    BY <1>11 DEF LoopDone, Goto
  <2>2. Turn' = Turn /\ Whole = operations /\ Whole' = operations
    BY <1>1, <2>1, TurnIs, TurnIsNext DEF Whole, NoExec
  <2>. QED  BY <1>2, <1>5, <2>1, <2>2, RecordGoes DEF s, want
<1>. QED  BY <1>6, <1>7, <1>8, <1>9, <1>10, <1>11 DEF Loops

-----------------------------------------------------------------------------
(* The loops of the apply.                                                    *)

LEMMA ApplyContext ==
    ASSUME Inv, Undisturbed, stage = "apply"
    PROVE  /\ saved # None /\ saved.want \in Configs /\ Want = saved.want
           /\ \A n \in Node : Read(n) = objects[n]
           /\ ~Recording /\ Enforcing
           /\ ApplyInv
<1>1. saved # None /\ saved.want # None
  BY DEF Inv, CallInv
<1>2. saved.want \in Configs
  BY <1>1 DEF Inv, TypeOK, Saved
<1>. QED  BY <1>1, <1>2 DEF Want, Read, Recording, Enforcing, Undisturbed

LEMMA ApplyFrame ==
    ASSUME Inv, Undisturbed, stage = "apply", Loops, ApplyInv'
    PROVE  Undisturbed'
<1>1. /\ pc' \in Converging \ {"survey"} /\ UNCHANGED <<saved, stage>>
  BY LoopGoes
<1>. QED  BY <1>1 DEF Undisturbed, RecordInv, DraftInv, DeleteInv, ReplacementInv, UpdateInv,
                      Recorded, Recording, Converging

(* A statement to a node serves the others or leaves them alone.              *)
LEMMA StatementServes ==
    ASSUME Inv, Undisturbed, stage = "apply", pc = "write", todo # <<>>
    PROVE  LET after == After(objects, at, Head(todo))
               want  == saved.want
           IN  /\ Found(at, Head(todo)) # {} /\ First(at, Head(todo)) \in Nat
               /\ Accepts(objects, at, Head(todo))
               /\ after[at] # None /\ Due(want, after[at]) = Tail(todo)
               /\ \A m \in Node : Fits(want, after[m])
               /\ \A m \in Node \ {at} :
                     /\ after[m] = None <=> objects[m] = None
                     /\ Subsequence(Due(want, after[m]), Due(want, objects[m]))
               /\ Embedded(at, Tail(todo), operations, First(at, Head(todo)))
               /\ after \in [Node -> Objects \cup {None}]
<1> DEFINE want == saved.want
           after == After(objects, at, Head(todo))
<1>1. /\ want \in Configs /\ at \in Node /\ todo = Due(want, objects[at])
      /\ objects \in [Node -> Objects \cup {None}] /\ todo \in Seq(Statements)
  BY ApplyContext DEF ApplyInv, Inv, CallInv, AtInv, TypeOK
<1>2. \A m \in Node : Fits(want, objects[m]) /\ Embedded(m, Due(want, objects[m]), operations, positions[m])
  BY ApplyContext DEF ApplyInv, Awaited
<1>3. \A m \in Node : /\ m \in existing => objects[m] # None
                      /\ m \notin existing /\ Turn < N + m => objects[m] = None
                      /\ Passed(m) => objects[m] # None /\ Due(want, objects[m]) = <<>>
  BY ApplyContext DEF ApplyInv
<1>4. objects[at] = None => \A m \in Node : objects[m] = None \/ Due(want, objects[m]) = <<>>
  <2> SUFFICES ASSUME objects[at] = None, NEW m \in Node, objects[m] # None
               PROVE  Due(want, objects[m]) = <<>>
    OBVIOUS
  <2>1. at \notin existing /\ m # at
    BY <1>1, <1>3
  <2>2. Turn = N + at
    BY <2>1, TurnIs
  <2>3. CASE m \in existing
    BY <1>1, <1>3, <2>1, <2>2, <2>3, SQLPlanAssumption DEF Passed, Node
  <2>4. CASE m \notin existing
    <3>1. ~(Turn < N + m)
      BY <1>3, <2>4
    <3>2. N + m <= Turn
      BY <1>1, <2>2, <3>1, SQLPlanAssumption DEF Node
    <3>. QED  BY <1>3, <2>1, <2>4, <3>2 DEF Passed
  <2>. QED  BY <2>3, <2>4
<1>5. Head(todo) \in Statements
  BY <1>1
<1>6. after \in [Node -> Objects \cup {None}]
  BY <1>1, <1>5, SQLPlanAssumption
<1>7. /\ Found(at, Head(todo)) # {} /\ First(at, Head(todo)) \in Nat
      /\ Embedded(at, Tail(todo), operations, First(at, Head(todo)))
  BY <1>1, <1>2, EmbeddedNext DEF Inv
<1>8. /\ Accepts(objects, at, Head(todo))
      /\ after[at] # None /\ Due(want, after[at]) = Tail(todo)
      /\ \A m \in Node :
            /\ Fits(want, after[m])
            /\ m # at => /\ after[m] = None <=> objects[m] = None
                         /\ Subsequence(Due(want, after[m]), Due(want, objects[m]))
  BY <1>1, <1>2, <1>4, StatementsAssumption, Zenon
<1> HIDE DEF after, want
<1>. QED  BY <1>6, <1>7, <1>8 DEF after, want

LEMMA NothingDue ==
    ASSUME NEW xs, Subsequence(xs, <<>>), xs \in Seq(Statements)
    PROVE  xs = <<>>
BY DEF Subsequence

LEMMA ApplyWrite ==
    ASSUME Inv, Undisturbed, stage = "apply", Write
    PROVE  ApplyInv'
<1> DEFINE want == saved.want
<1>1. /\ pc = "write" /\ pc' = "write" /\ at' = at /\ existing' = existing /\ todo # <<>> /\ todo' = Tail(todo)
      /\ Perform(at, Head(todo)) /\ at \in Node
  BY ApplyContext DEF Write, Goto, Exec, Inv, CallInv, AtInv
<1>2. objects' = After(objects, at, Head(todo)) /\ operations' = operations /\ saved' = saved
      /\ positions' = [positions EXCEPT ![at] = First(at, Head(todo))]
  BY <1>1, LoopGoes DEF Perform, Send, Loops
<1>3. /\ objects'[at] # None /\ Due(want, objects'[at]) = Tail(todo)
      /\ \A m \in Node : Fits(want, objects'[m])
      /\ \A m \in Node \ {at} :
            /\ objects'[m] = None <=> objects[m] = None
            /\ Subsequence(Due(want, objects'[m]), Due(want, objects[m]))
      /\ Embedded(at, Tail(todo), operations, First(at, Head(todo)))
      /\ objects' \in [Node -> Objects \cup {None}]
  BY <1>1, <1>2, StatementServes
<1>4. /\ want \in Configs /\ positions \in [Node -> Nat] /\ operations \in List
      /\ objects \in [Node -> Objects \cup {None}]
  BY ApplyContext DEF Inv, TypeOK
<1>5. \A m \in Node : /\ m \in existing => objects[m] # None
                      /\ m \notin existing /\ Turn < N + m => objects[m] = None
                      /\ Passed(m) => objects[m] # None /\ Due(want, objects[m]) = <<>>
                      /\ Embedded(m, Due(want, objects[m]), operations, positions[m])
  BY <1>1, ApplyContext DEF ApplyInv, Awaited
<1>6. Turn' = Turn
  BY <1>1, TurnIs, TurnIsNext
<1> HIDE DEF want
<1>7. ASSUME NEW m \in Node PROVE Embedded(m, Due(want, objects'[m]), operations', positions'[m])
  <2>1. CASE m = at
    BY <1>2, <1>3, <1>4, <2>1
  <2>2. CASE m # at
    <3>1. positions'[m] = positions[m] /\ positions[m] \in Nat
      BY <1>2, <1>4, <2>2
    <3>2. Due(want, objects'[m]) \in Seq(Statements) /\ Due(want, objects[m]) \in Seq(Statements)
      BY <1>3, <1>4, DueType
    <3>. QED  BY <1>2, <1>3, <1>4, <1>5, <2>2, <3>1, <3>2, EmbeddedPart
  <2>. QED  BY <2>1, <2>2
<1>8. ASSUME NEW m \in Node
      PROVE  /\ m \in existing => objects'[m] # None
             /\ m \notin existing /\ Turn < N + m => objects'[m] = None
             /\ Passed(m)' => objects'[m] # None /\ Due(want, objects'[m]) = <<>>
  <2>1. CASE m = at
    <3>1. ~(m \notin existing /\ Turn < N + m)
      BY <1>1, <2>1, TurnIs, SQLPlanAssumption DEF Node
    <3>. QED  BY <1>1, <1>3, <2>1, <3>1 DEF Passed
  <2>2. CASE m # at
    <3>1. Passed(m)' => Passed(m)
      BY <1>1, <1>6 DEF Passed
    <3>2. Due(want, objects'[m]) \in Seq(Statements)
      BY <1>3, <1>4, DueType
    <3>. QED  BY <1>3, <1>5, <2>2, <3>1, <3>2, NothingDue
  <2>. QED  BY <2>1, <2>2
<1>9. want' = want
  BY <1>2 DEF want
<1>10. \A m \in Node : Awaited(m)'
  BY <1>2, <1>3, <1>7 DEF Awaited, want
<1>. QED  BY <1>1, <1>2, <1>3, <1>6, <1>8, <1>10 DEF ApplyInv, want, Due

(* The other steps read and go on.                                            *)
LEMMA ApplyReads ==
    ASSUME Inv, Undisturbed, stage = "apply", Loops, NoExec,
           pc' = "write" => todo' = Due(saved.want, objects[at']),
           \A n \in Node :
              /\ n \in existing' => objects[n] # None
              /\ n \notin existing' /\ Turn' < N + n => objects[n] = None
              /\ Passed(n)' => objects[n] # None /\ Due(saved.want, objects[n]) = <<>>
    PROVE  ApplyInv'
<1>1. UNCHANGED <<objects, operations, positions, saved>>
  BY LoopGoes DEF NoExec
<1>2. \A n \in Node : Awaited(n)'
  BY <1>1, ApplyContext DEF ApplyInv, Awaited, Fits, Due, Embedded
<1>. QED  BY <1>1, <1>2 DEF ApplyInv, Due

LEMMA ApplyLoop ==
    ASSUME Inv, Undisturbed, stage = "apply", Loops
    PROVE  ApplyInv'
<1> DEFINE want == saved.want
<1>1. /\ want \in Configs /\ objects \in [Node -> Objects \cup {None}]
      /\ at \in 1 .. N + 1 /\ existing \subseteq Node /\ N \in Nat \ {0} /\ Node = 1 .. N
  BY ApplyContext, SQLPlanAssumption DEF Inv, TypeOK, Node
<1>2. /\ pc = "write" => todo = Due(want, objects[at])
      /\ pc # "survey" => \A n \in Node :
            /\ n \in existing => objects[n] # None
            /\ n \notin existing /\ Turn < N + n => objects[n] = None
            /\ Passed(n) => objects[n] # None /\ Due(want, objects[n]) = <<>>
  BY ApplyContext DEF ApplyInv
<1>3. \A n \in Node : Read(n) = objects[n] /\ Want = want
  BY ApplyContext
<1>4. \A n \in Node : /\ objects[n] # None => Due(want, objects[n]) = Alterations(want, objects[n])
                      /\ objects[n] = None => Due(want, objects[n]) = <<Creation(want)>>
  BY DEF Due
<1> HIDE DEF want
<1>5. CASE Survey
  <2>1. NoExec /\ pc' = "reconcile" /\ at' = 1 /\ existing' = {n \in Node : objects[n] # None}
    BY <1>3, <1>5 DEF Survey, Goto
  <2>2. Turn' = 0
    BY <2>1, TurnIsNext
  <2>3. \A n \in Node : ~Passed(n)'
    BY <1>1, <2>2 DEF Passed
  <2>. QED  BY <2>1, <2>3, ApplyReads
<1>6. CASE Reconcile
  <2>1. /\ NoExec /\ pc = "reconcile" /\ pc' = "write" /\ at \in existing /\ at' = at /\ existing' = existing
        /\ todo' = Alterations(Want, Read(at)) /\ Read(at) # None
    BY <1>6 DEF Reconcile, Goto
  <2>2. at \in Node /\ Turn = at - 1 /\ Turn' = at
    BY <1>1, <2>1, TurnIs, TurnIsNext
  <2>3. todo' = Due(want, objects[at])
    BY <1>3, <1>4, <2>1, <2>2
  <2>4. \A n \in Node : n \notin existing /\ Turn' < N + n => Turn < N + n
    BY <1>1, <2>2
  <2>5. \A n \in Node : Passed(n)' => Passed(n)
    BY <1>1, <2>1, <2>2 DEF Passed
  <2>. QED  BY <1>2, <2>1, <2>3, <2>4, <2>5, ApplyReads DEF want
<1>7. CASE Create
  <2>1. /\ NoExec /\ pc = "create" /\ pc' = "write" /\ at \in Node \ existing /\ at' = at /\ existing' = existing
        /\ todo' = <<Creation(Want)>>
    BY <1>7 DEF Create, Goto
  <2>2. Turn = N + at - 1 /\ Turn' = N + at
    BY <2>1, TurnIs, TurnIsNext
  <2>3. objects[at] = None
    BY <1>1, <1>2, <2>1, <2>2
  <2>4. todo' = Due(want, objects[at])
    BY <1>3, <1>4, <2>1, <2>3
  <2>5. \A n \in Node : n \notin existing /\ Turn' < N + n => Turn < N + n
    BY <1>1, <2>1, <2>2
  <2>6. \A n \in Node : Passed(n)' => Passed(n)
    BY <1>1, <2>1, <2>2 DEF Passed
  <2>. QED  BY <1>2, <2>1, <2>4, <2>5, <2>6, ApplyReads DEF want
<1>8. CASE Write
  BY <1>8, ApplyWrite
<1>9. CASE NextNode
  <2>1. NoExec /\ at' = at + 1 /\ existing' = existing /\ pc \in {"write", "reconcile", "create"} /\ pc' # "write"
    BY <1>9 DEF NextNode, Goto
  <2>2. CASE pc = "write"
    <3>1. todo = <<>> /\ at \in Node /\ pc' = IF at \in existing THEN "reconcile" ELSE "create"
      BY <1>9, <2>2 DEF NextNode, Goto, Inv, CallInv, AtInv
    <3>2. Turn' = Turn
      BY <1>1, <2>1, <2>2, <3>1, TurnIs, TurnIsNext
    <3>3. objects[at] # None /\ Due(want, objects[at]) = <<>>
      BY <1>2, <1>4, <2>2, <3>1
    <3>4. \A n \in Node : n = at \/ (Passed(n)' => Passed(n))
      BY <2>1, <3>2 DEF Passed
    <3>. QED  BY <1>2, <2>1, <2>2, <3>2, <3>3, <3>4, ApplyReads DEF want
  <2>3. CASE pc = "reconcile"
    <3>1. at \in Node \ existing /\ pc' = "reconcile"
      BY <1>9, <2>3 DEF NextNode, Goto
    <3>2. Turn = at - 1 /\ Turn' = at
      BY <1>1, <2>1, <2>3, <3>1, TurnIs, TurnIsNext
    <3>3. \A n \in Node : n \notin existing /\ Turn' < N + n => Turn < N + n
      BY <1>1, <3>1, <3>2
    <3>4. \A n \in Node : Passed(n)' => Passed(n)
      BY <1>1, <2>1, <2>3, <3>1, <3>2 DEF Passed
    <3>. QED  BY <1>2, <2>1, <2>3, <3>3, <3>4, ApplyReads DEF want
  <2>4. CASE pc = "create"
    <3>1. at \in existing /\ at \in Node /\ pc' = "create"
      BY <1>1, <1>9, <2>4 DEF NextNode, Goto
    <3>2. Turn = N + at - 1 /\ Turn' = N + at
      BY <1>1, <2>1, <2>4, <3>1, TurnIs, TurnIsNext
    <3>3. \A n \in Node : n \notin existing /\ Turn' < N + n => Turn < N + n
      BY <1>1, <3>1, <3>2
    <3>4. \A n \in Node : Passed(n)' => Passed(n)
      BY <1>1, <2>1, <2>4, <3>1, <3>2 DEF Passed
    <3>. QED  BY <1>2, <2>1, <2>4, <3>3, <3>4, ApplyReads DEF want
  <2>. QED  BY <2>1, <2>2, <2>3, <2>4
<1>10. CASE LoopDone
  <2>1. /\ NoExec /\ at' = 1 /\ existing' = existing /\ at = N + 1 /\ pc \in {"reconcile", "create"}
        /\ pc' = IF pc = "reconcile" THEN "create" ELSE "final"
    BY <1>10 DEF LoopDone, Goto
  <2>2. Turn' = Turn
    BY <1>1, <2>1, TurnIs, TurnIsNext
  <2>3. \A n \in Node : Passed(n)' => Passed(n)
    BY <2>1, <2>2 DEF Passed
  <2>. QED  BY <1>2, <2>1, <2>2, <2>3, ApplyReads DEF want
<1>. QED  BY <1>5, <1>6, <1>7, <1>8, <1>9, <1>10 DEF Loops

-----------------------------------------------------------------------------
(* Plans, and what core compares.                                             *)

LEMMA RecordFresh ==
    ASSUME pc' = "survey", operations' = <<>>, \A n \in Node : Read(n)' = Start'[n]
    PROVE  RecordInv'
<1>1. Turn' = 0 /\ Whole' = <<>>
  BY TurnIsNext DEF Whole
<1>2. Recorded(Start', Want', Turn', Whole')
  BY <1>1, RecordedStart
<1>3. Recorded(Start, Want, Turn, Whole)'
  BY <1>2 DEF Recorded, Built, Block, Ops, Due
<1>4. \A n \in Node : Turn' < n
  BY <1>1, SQLPlanAssumption DEF Node
<1>. QED  BY <1>3, <1>4 DEF RecordInv

LEMMA MakePlanUndisturbed == ASSUME Inv, MakePlan PROVE Undisturbed'
<1>1. /\ stage' = "plan" /\ saved' = None /\ at' = 1 /\ operations' = <<>>
      /\ UNCHANGED <<objects, config, tf>> /\ \A n \in Node : preview'[n] = Live
  BY DEF MakePlan, Call
<1>2. ReplacementInv' /\ UpdateInv' /\ ApplyInv'
  BY <1>1 DEF ReplacementInv, UpdateInv, ApplyInv
<1>3. DeleteInv'
  BY <1>1, SQLPlanAssumption DEF DeleteInv, Node
<1>4. CASE config = None
  <2>1. pc' = "delete"
    BY <1>4 DEF MakePlan, Call
  <2>. QED  BY <1>1, <1>2, <1>3, <1>4, <2>1 DEF Undisturbed, RecordInv, DraftInv, Converging
<1>5. CASE config # None
  <2>1. draft' = Draft(config) /\ pc' = IF draft'.replace THEN "delete" ELSE "survey"
    BY <1>5 DEF MakePlan, Call
  <2>2. draft'.replace = Replaces(config) /\ draft'.known = Draft(config).known
    BY <2>1 DEF Draft
  <2>3. Replaces(config)' = Replaces(config) /\ Draft(config)' = Draft(config)
    BY <1>1 DEF Draft, Replaces, Known, Converged, Holds
  <2>4. DraftInv'
    BY <1>1, <2>1, <2>2, <2>3 DEF DraftInv
  <2>5. RecordInv'
    <3>1. CASE draft'.replace
      BY <2>1, <3>1 DEF RecordInv, Converging
    <3>2. CASE ~draft'.replace
      <4>1. \A n \in Node : Read(n)' = Start'[n]
        BY <1>1, <3>2 DEF Read, Start
      <4>. QED  BY <1>1, <2>1, <3>2, <4>1, RecordFresh
    <3>. QED  BY <3>1, <3>2
  <2>. QED  BY <1>2, <1>3, <2>4, <2>5 DEF Undisturbed
<1>. QED  BY <1>4, <1>5

LEMMA FinalRecord ==
    ASSUME Inv, Undisturbed, Recording, pc = "final"
    PROVE  /\ Recorded(Start, Want, 2 * N, operations)
           /\ \A n \in Node : Fits(Want, Start[n])
<1>1. Turn = 2 * N /\ Whole = operations
  BY TurnIs DEF Whole
<1>2. \A n \in Node : ~(2 * N < n)
  BY SQLPlanAssumption DEF Node
<1>. QED  BY <1>1, <1>2 DEF Undisturbed, RecordInv, Converging

LEMMA PlannedUndisturbed == ASSUME Inv, Undisturbed, Planned PROVE Undisturbed'
<1>1. /\ stage = "plan" /\ pc = "final" /\ SavePlan /\ Idle
      /\ UNCHANGED <<objects, config, tf>>
  BY DEF Planned
<1>2. /\ saved'.prior = tf /\ saved'.want = config /\ saved'.digest = Digest
      /\ saved'.known = draft.known /\ saved'.operations = operations
      /\ saved'.replace = draft.replace
  BY <1>1 DEF SavePlan
<1>3. config # None /\ stage' = "idle"
  BY <1>1 DEF Inv, CallInv, Idle, Call
<1>4. draft.replace = Replaces(config) /\ draft.known = Draft(config).known
  BY <1>1, <1>3 DEF Undisturbed, DraftInv
<1>5. Recorded(Start, config, 2 * N, operations)
  BY <1>1, FinalRecord DEF Recording, Want
<1>6. draft.known = (tf # None /\ ~Replaces(config) /\ Known(config))
  BY <1>4 DEF Draft
<1>7. CASE draft.replace
  <2>1. Start = Bare
    BY <1>1, <1>7 DEF Start
  <2>2. Digest = operations
    BY <1>7 DEF Digest, PriorDigest
  <2>3. Recorded(Bare, saved'.want, 2 * N, saved'.operations)
    BY <1>2, <1>5, <2>1
  <2>4. ReplacementInv'
    <3>1. saved'.digest = saved'.operations /\ ~saved'.known
      BY <1>2, <1>4, <1>6, <1>7, <2>2
    <3>. QED  BY <1>3, <2>3, <3>1 DEF ReplacementInv, Recorded
  <2>5. UpdateInv'
    BY <1>2, <1>7 DEF UpdateInv
  <2>. QED  BY <1>1, <2>4, <2>5, IdleUndisturbed
<1>8. CASE ~draft.replace
  <2>1. Start = objects
    BY <1>8 DEF Start
  <2>2. Recorded(objects', saved'.want, 2 * N, saved'.operations)
    BY <1>1, <1>2, <1>5, <2>1
  <2>3. ~ReplacedBy(saved.prior, saved.want)'
    BY <1>1, <1>2, <1>4, <1>8 DEF ReplacedBy, Replaces
  <2>4. KnownBy(saved.prior, saved.want)' = saved'.known
    BY <1>1, <1>2, <1>4, <1>6, <1>8 DEF KnownBy, Known, Converged, Holds
  <2>5. saved'.digest = IF saved'.operations # <<>> THEN saved'.operations
                        ELSE IF saved'.prior = None THEN <<>> ELSE saved'.prior.digest
    BY <1>2, <1>8 DEF Digest, PriorDigest
  <2>6. Faithful'
    BY <2>2, <2>3, <2>4, <2>5 DEF Faithful, Recorded
  <2>7. ReplacementInv' /\ UpdateInv'
    BY <1>2, <1>3, <1>8, <2>6 DEF ReplacementInv, UpdateInv
  <2>. QED  BY <1>1, <2>7, IdleUndisturbed
<1>. QED  BY <1>7, <1>8

(* A refresh after the apply finds the configuration.                         *)
LEMMA RefreshUndisturbed == ASSUME Inv, Undisturbed, Refresh PROVE Undisturbed'
<1>1. stage = "idle" /\ pc = "idle" /\ UNCHANGED <<objects, config, saved, stage, callVars>>
  BY DEF Refresh, Inv, CallInv
<1>2. /\ ReplacementInv'
  BY <1>1 DEF Undisturbed, ReplacementInv, Recorded
<1>3. Done => tf' = tf
  <2>1. ASSUME Done PROVE Differing = {} /\ objects[1] # None /\ 1 \in Node
    BY <2>1, SQLPlanAssumption DEF Done, Differing, Converged, Holds, Node
  <2>. QED  BY <2>1 DEF Refresh
<1>4. UpdateInv'
  <2>1. Faithful => Faithful'
    BY <1>1 DEF Faithful, KnownBy, ReplacedBy, Converged, Holds
  <2>2. Done => Done'
    BY <1>1, <1>3 DEF Done, Converged, Holds
  <2>. QED  BY <1>1, <2>1, <2>2 DEF Undisturbed, UpdateInv
<1>5. stage' = "idle" /\ pc' = "idle"
  BY <1>1 DEF callVars
<1>. QED  BY <1>2, <1>4, <1>5 DEF Undisturbed, RecordInv, DraftInv, DeleteInv, ApplyInv, Recording

LEMMA StartApplyUndisturbed == ASSUME Inv, Undisturbed, StartApply PROVE Undisturbed'
<1>1. /\ stage = "idle" /\ saved # None /\ saved.prior = tf
      /\ UNCHANGED <<objects, config, tf, saved, draft>>
  BY DEF StartApply
<1>2. CASE saved.want = None \/ saved.replace
  <2>1. stage' = "drop" /\ pc' = "delete" /\ at' = 1
    <3>1. CASE saved.want = None
      BY <3>1 DEF StartApply, Call
    <3>2. CASE saved.want # None
      BY <1>2, <3>2 DEF StartApply, Call
    <3>. QED  BY <3>1, <3>2
  <2>2. RecordInv' /\ DraftInv' /\ ApplyInv'
    BY <2>1 DEF RecordInv, DraftInv, ApplyInv, Converging
  <2>3. DeleteInv'
    BY <2>1, SQLPlanAssumption DEF DeleteInv, Node
  <2>4. ReplacementInv'
    BY <1>1, <2>1 DEF Undisturbed, ReplacementInv, Recorded
  <2>5. UpdateInv'
    BY <1>1, <1>2 DEF UpdateInv
  <2>. QED  BY <2>2, <2>3, <2>4, <2>5 DEF Undisturbed
<1>3. CASE saved.want # None /\ ~saved.replace
  <2>1. /\ stage' = "replan" /\ pc' = "modify" /\ operations' = <<>>
        /\ \A n \in Node : preview'[n] = Live
    BY <1>3 DEF StartApply, Call
  <2>2. RecordInv' /\ DraftInv' /\ ApplyInv' /\ DeleteInv'
    BY <2>1 DEF RecordInv, DraftInv, ApplyInv, DeleteInv, Converging
  <2>3. ReplacementInv'
    BY <1>1, <1>3 DEF ReplacementInv
  <2>4. (Faithful \/ Done)'
    <3>1. Faithful \/ Done
      BY <1>1, <1>3 DEF Undisturbed, UpdateInv
    <3>. QED  BY <1>1, <3>1 DEF Faithful, Done, KnownBy, ReplacedBy, Converged, Holds
  <2>5. UpdateInv'
    BY <1>1, <2>1, <2>4 DEF UpdateInv
  <2>. QED  BY <2>2, <2>3, <2>5 DEF Undisturbed
<1>. QED  BY <1>2, <1>3

LEMMA ReplanContext ==
    ASSUME Inv, Undisturbed, stage = "replan"
    PROVE  /\ saved # None /\ saved.want \in Configs /\ Want = saved.want
           /\ saved.replace => tf = None /\ objects = Bare
           /\ ~saved.replace => tf = saved.prior /\ (Faithful \/ Done)
           /\ ~saved.replace /\ pc # "modify" => Faithful
<1>1. saved # None /\ saved.want # None
  BY DEF Inv, CallInv
<1>2. saved.want \in Configs
  BY <1>1 DEF Inv, TypeOK, Saved
<1>. QED  BY <1>1, <1>2 DEF Want, Undisturbed, UpdateInv, ReplacementInv

LEMMA DoneReplacesNothing ==
    ASSUME Inv, Done, saved.want \in Configs
    PROVE  ~Replaces(saved.want) /\ Unchanged(saved.want)
BY ReadAssumption DEF Done, Replaces, Unchanged, Known, Converged, Holds

(* The plan before the apply replaces only what was to be replaced.           *)
LEMMA ReplanNeverReplaces ==
    ASSUME Inv, Undisturbed, stage = "replan"
    PROVE  ~Replaces(Want)
<1>1. CASE saved.replace
  BY <1>1, ReplanContext DEF Replaces
<1>2. CASE ~saved.replace /\ Faithful
  BY <1>2, ReplanContext DEF Faithful, ReplacedBy, Replaces
<1>3. CASE ~saved.replace /\ Done
  BY <1>3, ReplanContext, DoneReplacesNothing
<1>. QED  BY <1>1, <1>2, <1>3, ReplanContext

LEMMA ReplanUndisturbed == ASSUME Inv, Undisturbed, Replan PROVE Undisturbed'
<1>1. /\ pc = "modify" /\ pc' = "survey" /\ draft' = Draft(Want) /\ ~Unchanged(Want)
      /\ UNCHANGED <<objects, operations, preview, config, tf, saved, stage>>
  BY DEF Replan, NoExec
<1>2. stage = "replan" /\ stage' = "replan" /\ operations = <<>> /\ \A n \in Node : preview[n] = Live
  BY <1>1 DEF Undisturbed, DraftInv
<1>3. Draft(Want)' = Draft(Want) /\ Want' = Want /\ Want = saved.want
  BY <1>1, <1>2 DEF Draft, Replaces, Known, Converged, Holds, Want
<1>4. DraftInv'
  BY <1>1, <1>2, <1>3 DEF DraftInv
<1>5. RecordInv'
  <2>1. \A n \in Node : Read(n)' = Start'[n]
    BY <1>1, <1>2 DEF Read, Start
  <2>. QED  BY <1>1, <1>2, <2>1, RecordFresh
<1>6. ReplacementInv'
  BY <1>1, <1>2 DEF Undisturbed, ReplacementInv, Recorded
<1>7. UpdateInv'
  <2>1. CASE saved.replace
    BY <1>1, <2>1 DEF UpdateInv
  <2>2. CASE ~saved.replace
    <3>1. Faithful /\ tf = saved.prior
      BY <1>1, <1>2, <1>3, <2>2, ReplanContext, DoneReplacesNothing
    <3>2. Faithful'
      BY <1>1, <3>1 DEF Faithful, KnownBy, ReplacedBy, Converged, Holds
    <3>. QED  BY <1>1, <1>2, <3>1, <3>2 DEF UpdateInv
  <2>. QED  BY <2>1, <2>2
<1>8. DeleteInv' /\ ApplyInv'
  BY <1>1, <1>2 DEF DeleteInv, ApplyInv
<1>. QED  BY <1>4, <1>5, <1>6, <1>7, <1>8 DEF Undisturbed

(* It records the reviewed list again.                                        *)
LEMMA ReplanBound ==
    ASSUME Inv, Undisturbed, stage = "replan", pc = "final"
    PROVE  Bound
<1> DEFINE want == saved.want
<1>1. /\ Start = objects /\ Want = want /\ draft = Draft(want) /\ ~Replaces(want)
      /\ Recording /\ 2 * N \in Nat
  BY ReplanContext, ReplanNeverReplaces, SQLPlanAssumption
  DEF Start, Undisturbed, DraftInv, Recording
<1>2. Recorded(objects, want, 2 * N, operations)
  BY <1>1, FinalRecord
<1>3. draft.replace = FALSE /\ draft.known = (tf # None /\ Known(want))
  BY <1>1 DEF Draft
<1>4. Digest = IF operations # <<>> THEN operations ELSE IF tf = None THEN <<>> ELSE tf.digest
  BY <1>3 DEF Digest, PriorDigest
<1>5. CASE saved.replace
  <2>1. tf = None /\ objects = Bare
    BY <1>5, ReplanContext
  <2>2. /\ Recorded(Bare, want, 2 * N, saved.operations)
        /\ saved.digest = saved.operations /\ ~saved.known
    BY <1>5, ReplanContext DEF Undisturbed, ReplacementInv, Inv, CallInv
  <2>3. operations = saved.operations
    BY <1>1, <1>2, <2>1, <2>2, RecordedOnce
  <2>. QED  BY <1>4, <2>1, <2>2, <2>3 DEF Bound
<1>6. CASE ~saved.replace
  <2>1. Faithful /\ tf = saved.prior
    BY <1>6, ReplanContext
  <2>2. operations = saved.operations
    BY <1>1, <1>2, <2>1, RecordedOnce DEF Faithful
  <2>3. Digest = saved.digest
    BY <1>4, <2>1, <2>2 DEF Faithful
  <2>4. saved.known => draft.known
    BY <1>3, <2>1 DEF Faithful, KnownBy, Known
  <2>. QED  BY <2>3, <2>4 DEF Bound
<1>. QED  BY <1>5, <1>6

LEMMA ReplannedUndisturbed == ASSUME Inv, Undisturbed, Replanned PROVE Undisturbed'
<1>1. /\ stage = "replan" /\ pc = "final"
      /\ stage' = "apply" /\ pc' = "survey" /\ operations' = operations
      /\ \A n \in Node : positions'[n] = 0
      /\ UNCHANGED <<objects, config, tf, saved, draft>>
  BY DEF Replanned, Call
<1>2. /\ Start = objects /\ Want = saved.want /\ Recording /\ saved.want \in Configs
      /\ objects \in [Node -> Objects \cup {None}]
  BY <1>1, ReplanContext DEF Start, Recording, Inv, TypeOK
<1>3. ASSUME NEW n \in Node PROVE Awaited(n)'
  <2>1. Fits(saved.want, objects[n])
    BY <1>1, <1>2, FinalRecord
  <2>2. Embedded(n, Due(saved.want, objects[n]), operations, 0)
    BY <1>1, <1>2, FinalRecord, RecordedEmbeds
  <2>. QED  BY <1>1, <2>1, <2>2 DEF Awaited
<1>4. ApplyInv'
  BY <1>1, <1>3 DEF ApplyInv
<1>5. RecordInv' /\ DraftInv' /\ DeleteInv'
  BY <1>1 DEF RecordInv, DraftInv, DeleteInv, Recording
<1>6. ReplacementInv'
  BY <1>1 DEF Undisturbed, ReplacementInv, Recorded
<1>7. UpdateInv'
  <2>1. CASE saved.replace
    BY <1>1, <2>1 DEF UpdateInv
  <2>2. CASE ~saved.replace
    <3>1. Faithful
      BY <1>1, <2>2, ReplanContext
    <3>2. Faithful'
      BY <1>1, <3>1 DEF Faithful, KnownBy, ReplacedBy, Converged, Holds
    <3>. QED  BY <1>1, <3>2 DEF UpdateInv
  <2>. QED  BY <2>1, <2>2
<1>. QED  BY <1>4, <1>5, <1>6, <1>7 DEF Undisturbed

-----------------------------------------------------------------------------
(* How an apply ends.                                                         *)

LEMMA NeverBlocked == ASSUME Inv, Undisturbed PROVE ~WriteBlocked /\ ~WriteRejected
<1> SUFFICES ASSUME pc = "write", todo # <<>>, Enforcing
             PROVE  Found(at, Head(todo)) # {} /\ Accepts(objects, at, Head(todo))
  BY DEF WriteBlocked, WriteRejected, Blocked
<1>1. stage = "apply"
  BY DEF Enforcing, Inv, CallInv
<1>. QED  BY <1>1, StatementServes

LEMMA ApplyReconciles == ASSUME Inv, Undisturbed, stage = "apply" PROVE ~ReconcileFails
<1> SUFFICES ASSUME pc = "reconcile", at \in existing
             PROVE  Read(at) # None /\ ~MustReplace(ReadAs(Want, Read(at)), Want)
  BY DEF ReconcileFails
<1>1. at \in Node
  BY DEF Inv, TypeOK
<1>. QED  BY <1>1, ApplyContext DEF ApplyInv, Awaited, Fits

LEMMA FinalConverged ==
    ASSUME Inv, Undisturbed, stage = "apply", pc = "final"
    PROVE  Converged(saved.want) /\ objects[1] # None
<1>1. ASSUME NEW n \in Node PROVE objects[n] # None /\ ReadAs(saved.want, objects[n]) = saved.want
  <2>1. Passed(n)
    BY TurnIs, SQLPlanAssumption DEF Passed, Node
  <2>2. /\ objects[n] # None /\ Due(saved.want, objects[n]) = <<>> /\ Fits(saved.want, objects[n])
        /\ saved.want \in Configs
    BY <2>1, ApplyContext DEF ApplyInv, Awaited
  <2>3. objects[n] \in Objects
    BY <2>2 DEF Inv, TypeOK
  <2>. QED  BY <2>2, <2>3, ReadAssumption
<1>2. 1 \in Node
  BY SQLPlanAssumption DEF Node
<1>. QED  BY <1>1, <1>2 DEF Converged, Holds

LEMMA AppliedUndisturbed == ASSUME Inv, Undisturbed, Applied PROVE Undisturbed'
<1>1. /\ stage = "apply" /\ pc = "final" /\ Idle /\ stage' = "idle"
      /\ tf' = [config |-> saved.want, digest |-> saved.digest] /\ UNCHANGED <<objects, saved>>
  BY DEF Applied, Idle, Call
<1>2. tf' # None /\ tf'.config = saved.want
  <2>1. saved # None /\ saved.want \in Configs
    BY <1>1, ApplyContext
  <2>2. tf' \in State
    BY <1>1, <2>1 DEF State, Inv, TypeOK, Saved
  <2>3. None \notin State
    BY SQLPlanAssumption
  <2>. QED  BY <1>1, <2>2, <2>3
<1>3. Converged(saved.want)
  BY <1>1, FinalConverged
<1>4. Done'
  BY <1>1, <1>2, <1>3 DEF Done, Converged, Holds
<1>5. ReplacementInv'
  BY <1>1 DEF Undisturbed, ReplacementInv, Recorded
<1>6. UpdateInv'
  BY <1>1, <1>4 DEF UpdateInv
<1>. QED  BY <1>1, <1>5, <1>6, IdleUndisturbed

-----------------------------------------------------------------------------
(* DeleteNodes.                                                               *)

LEMMA DropNodeUndisturbed == ASSUME Inv, Undisturbed, DropNode PROVE Undisturbed'
<1>1. /\ pc = "delete" /\ pc' = "delete" /\ at \in Node /\ at' = at + 1
      /\ UNCHANGED <<config, tf, saved, stage, draft, failed>>
  BY DEF DropNode, Goto
<1>2. stage \in {"plan", "drop"}
  BY <1>1 DEF Inv, CallInv
<1>3. /\ objects \in [Node -> Objects \cup {None}] /\ preview \in [Node -> Objects \cup {None, Live}]
      /\ Seen \in [Node -> Objects \cup {None}] /\ N \in Nat
  BY SeenType, SQLPlanAssumption DEF Inv, TypeOK
<1>4. \A n \in Node : /\ Read(n) = None => Read(n)' = None
                      /\ n = at => Read(n)' = None
  <2>1. CASE Read(at) = None
    <3>1. \A n \in Node : Read(n)' = Read(n)
      BY <1>1, <2>1, ReadSame DEF DropNode, NoExec
    <3>. QED  BY <2>1, <3>1
  <2>2. CASE Read(at) # None /\ stage = "plan"
    <3>1. Record(at, Removal)
      BY <2>2 DEF DropNode, Exec, Recording
    <3>2. Seen[at] # None
      BY <1>1, <2>2 DEF Seen
    <3>3. After(Seen, at, Removal)[at] = None
      BY <1>1, <1>3, <3>2, RemovalAssumption
    <3>4. preview' = [preview EXCEPT ![at] = None] /\ objects' = objects
      BY <3>1, <3>3 DEF Record
    <3>5. None # Live
      BY SQLPlanAssumption
    <3>. QED  BY <1>1, <1>3, <2>2, <3>4, <3>5 DEF Read, Recording
  <2>3. CASE Read(at) # None /\ stage = "drop"
    <3>1. objects' = After(objects, at, Removal) /\ objects[at] # None
      BY <2>3 DEF DropNode, Exec, Perform, Recording, Read
    <3>2. objects'[at] = None /\ \A n \in Node : objects[n] = None => objects'[n] = None
      BY <1>1, <1>3, <3>1, RemovalAssumption
    <3>. QED  BY <1>1, <2>3, <3>2 DEF Read, Recording
  <2>. QED  BY <1>2, <2>1, <2>2, <2>3
<1>5. DeleteInv'
  <2> SUFFICES ASSUME ~failed, NEW n \in Node, n < at + 1 PROVE Read(n)' = None
    BY <1>1 DEF DeleteInv
  <2>1. n = at \/ n < at
    BY <1>1, <1>3 DEF Node
  <2>. QED  BY <1>1, <1>4, <2>1 DEF Undisturbed, DeleteInv
<1>6. DraftInv'
  <2>1. CASE stage = "plan"
    <3>1. objects' = objects
      BY <2>1 DEF DropNode, Exec, Record, NoExec, Recording
    <3>2. Replaces(config)' = Replaces(config) /\ Draft(config)' = Draft(config)
      BY <1>1, <3>1 DEF Draft, Replaces, Known, Converged, Holds
    <3>. QED  BY <1>1, <2>1, <3>2 DEF Undisturbed, DraftInv
  <2>. QED  BY <1>1, <1>2, <2>1 DEF DraftInv
<1>7. RecordInv' /\ ApplyInv'
  BY <1>1, <1>2 DEF RecordInv, ApplyInv, Converging
<1>8. ReplacementInv' /\ UpdateInv'
  BY <1>1, <1>2 DEF Undisturbed, ReplacementInv, UpdateInv, Recorded, Inv, CallInv
<1>. QED  BY <1>5, <1>6, <1>7, <1>8 DEF Undisturbed

LEMMA DropBlockedUndisturbed == ASSUME Inv, Undisturbed, DropBlocked PROVE Undisturbed'
<1>1. /\ pc = "delete" /\ pc' = "delete" /\ failed' = TRUE /\ stage = "drop" /\ stage' = "drop"
      /\ UNCHANGED <<objects, tf, saved>>
  BY DEF DropBlocked, DropFailed, NoExec, Blocked, Enforcing, Inv, CallInv
<1>. QED  BY <1>1 DEF Undisturbed, RecordInv, DraftInv, DeleteInv, ApplyInv, ReplacementInv,
                      UpdateInv, Recorded, Converging

LEMMA DropDoneUndisturbed == ASSUME Inv, Undisturbed, DropDone PROVE Undisturbed'
<1>1. pc = "delete" /\ at = N + 1 /\ stage \in {"plan", "drop"}
  BY DEF DropDone, Inv, CallInv
<1>2. CASE failed
  <2>1. End("failed")
    BY <1>2 DEF DropDone
  <2>. QED  BY <1>1, <2>1, EndUndisturbed
<1>3. ASSUME ~failed PROVE \A n \in Node : Read(n) = None
  <2>1. \A n \in Node : n < at
    BY <1>1, SQLPlanAssumption DEF Node
  <2>. QED  BY <1>1, <1>3, <2>1 DEF Undisturbed, DeleteInv
<1>4. CASE ~failed /\ stage = "plan" /\ draft.replace
  <2>1. /\ draft' = [draft EXCEPT !.deletes = operations] /\ operations' = <<>>
        /\ pc' = "survey"
        /\ UNCHANGED <<objects, config, tf, saved, stage, preview>>
    BY <1>4 DEF DropDone
  <2>2. /\ draft'.replace = draft.replace /\ draft'.known = draft.known
    BY <2>1 DEF Inv, TypeOK
  <2>3. RecordInv'
    <3>1. Start' = Bare
      BY <1>4, <2>1, <2>2 DEF Start, Bare
    <3>2. \A n \in Node : Read(n)' = Start'[n]
      BY <1>3, <1>4, <2>1, <3>1, ReadSame DEF Bare
    <3>. QED  BY <2>1, <3>2, RecordFresh
  <2>4. DraftInv'
    <3>1. Replaces(config)' = Replaces(config) /\ Draft(config)' = Draft(config)
      BY <2>1 DEF Draft, Replaces, Known, Converged, Holds
    <3>. QED  BY <1>4, <2>1, <2>2, <3>1 DEF Undisturbed, DraftInv
  <2>5. saved' = None
    BY <1>4, <2>1 DEF Inv, CallInv
  <2>. QED  BY <1>4, <2>1, <2>3, <2>4, <2>5
            DEF Undisturbed, DeleteInv, ApplyInv, ReplacementInv, UpdateInv
<1>5. CASE ~failed /\ stage = "plan" /\ ~draft.replace
  <2>1. SavePlan /\ Idle
    BY <1>5 DEF DropDone
  <2>2. config = None
    BY <1>1, <1>5 DEF Undisturbed, DraftInv
  <2>3. saved'.want = None
    BY <2>1, <2>2 DEF SavePlan
  <2>4. ReplacementInv' /\ UpdateInv'
    BY <2>3 DEF ReplacementInv, UpdateInv
  <2>. QED  BY <2>1, <2>4, IdleUndisturbed
<1>6. CASE ~failed /\ stage = "drop"
  <2>1. tf' = None /\ UNCHANGED <<objects, config, saved>>
    BY <1>6 DEF DropDone
  <2>2. CASE saved.replace
    <3>1. /\ stage' = "replan" /\ pc' = "modify" /\ operations' = <<>>
          /\ \A n \in Node : preview'[n] = Live
      BY <1>6, <2>2 DEF DropDone, Call
    <3>2. objects = Bare
      <4>1. \A n \in Node : objects[n] = None
        BY <1>3, <1>6 DEF Read, Recording
      <4>2. objects \in [Node -> Objects \cup {None}]
        BY DEF Inv, TypeOK
      <4>. QED  BY <4>1, <4>2 DEF Bare
    <3>3. objects' = Bare'
      BY <2>1, <3>2 DEF Bare
    <3>4. ReplacementInv'
      BY <2>1, <3>1, <3>2, <3>3 DEF Undisturbed, ReplacementInv, Recorded
    <3>5. UpdateInv'
      BY <2>1, <2>2 DEF UpdateInv
    <3>. QED  BY <3>1, <3>4, <3>5 DEF Undisturbed, RecordInv, DraftInv, DeleteInv, ApplyInv, Converging
  <2>3. CASE ~saved.replace
    <3>1. Idle
      BY <1>6, <2>3 DEF DropDone
    <3>2. saved.want = None
      BY <1>6, <2>3 DEF Undisturbed, UpdateInv, Inv, CallInv
    <3>3. ReplacementInv' /\ UpdateInv'
      BY <2>1, <3>2 DEF ReplacementInv, UpdateInv
    <3>. QED  BY <3>1, <3>3, IdleUndisturbed
  <2>. QED  BY <2>2, <2>3
<1>. QED  BY <1>1, <1>2, <1>4, <1>5, <1>6

-----------------------------------------------------------------------------
(* Every step.                                                                *)

Quiet == Undisturbed /\ last \notin {"blocked", "refused"}

LEMMA QuietInit == ASSUME Init PROVE QuietInv
<1>1. stage = "idle" /\ pc = "idle" /\ saved = None /\ last = "none"
  BY DEF Init
<1>. QED  BY <1>1 DEF QuietInv, Undisturbed, RecordInv, DraftInv, DeleteInv, ReplacementInv,
                      UpdateInv, ApplyInv, Recording

LEMMA QuietEnd ==
    ASSUME Inv, Undisturbed, NEW outcome \in {"applied", "failed"}, End(outcome),
           stage \in {"plan", "replan", "drop"} \/ pc = "survey"
    PROVE  Quiet'
BY EndUndisturbed DEF End, Quiet

LEMMA QuietCore == ASSUME Inv, Quiet, Core PROVE Quiet'
<1>1. Undisturbed /\ last \notin {"blocked", "refused"}
  BY DEF Quiet
<1>2. CASE Planned
  BY <1>1, <1>2, PlannedUndisturbed DEF Planned, Quiet
<1>3. CASE StartApply
  BY <1>1, <1>3, StartApplyUndisturbed DEF StartApply, Quiet
<1>4. pc = "modify" => stage = "replan"
  BY <1>1 DEF Undisturbed, DraftInv
<1>5. CASE ReplanUnchanged
  BY <1>1, <1>4, <1>5, QuietEnd DEF ReplanUnchanged
<1>6. ~ReplanReplaces
  BY <1>1, <1>4, ReplanNeverReplaces DEF ReplanReplaces
<1>7. CASE Replan
  BY <1>1, <1>7, ReplanUndisturbed DEF Replan, Quiet
<1>8. CASE Replanned
  BY <1>1, <1>8, ReplannedUndisturbed DEF Replanned, Quiet
<1>9. ~ReplanDiffers
  BY <1>1, ReplanBound DEF ReplanDiffers
<1>. QED  BY <1>2, <1>3, <1>5, <1>6, <1>7, <1>8, <1>9 DEF Core

LEMMA QuietLoop == ASSUME Inv, Quiet, Loops PROVE Quiet'
<1>1. Undisturbed /\ last \notin {"blocked", "refused"}
  BY DEF Quiet
<1>2. pc \in Converging /\ last' = last
  BY LoopGoes
<1>3. CASE Recording
  BY <1>1, <1>2, <1>3, RecordLoop, RecordFrame DEF Quiet
<1>4. CASE ~Recording
  <2>1. stage = "apply"
    BY <1>2, <1>4 DEF Recording, Converging, Inv, CallInv, TypeOK, Stage
  <2>. QED  BY <1>1, <1>2, <2>1, ApplyLoop, ApplyFrame DEF Quiet
<1>. QED  BY <1>3, <1>4

LEMMA QuietResource == ASSUME Inv, Quiet, Resource PROVE Quiet'
<1>1. Undisturbed /\ last \notin {"blocked", "refused"}
  BY DEF Quiet
<1>2. CASE Survey \/ Reconcile \/ Create \/ Write \/ NextNode \/ LoopDone
  BY <1>2, QuietLoop DEF Loops
<1>3. CASE AlreadyExists
  BY <1>1, <1>3, QuietEnd DEF AlreadyExists
<1>4. CASE ReconcileFails
  <2>1. stage # "apply" /\ stage \in Stage /\ stage # "idle" /\ stage # "drop"
    BY <1>1, <1>4, ApplyReconciles DEF ReconcileFails, Inv, CallInv, TypeOK
  <2>. QED  BY <1>1, <1>4, <2>1, QuietEnd DEF ReconcileFails, Stage
<1>5. ~WriteBlocked /\ ~WriteRejected
  BY <1>1, NeverBlocked
<1>6. CASE Applied
  BY <1>1, <1>6, AppliedUndisturbed DEF Applied, Quiet
<1>7. ~AppliedGone
  BY <1>1, FinalConverged DEF AppliedGone
<1>8. CASE DropNode
  BY <1>1, <1>8, DropNodeUndisturbed DEF DropNode, Goto, Quiet
<1>9. CASE DropBlocked
  BY <1>1, <1>9, DropBlockedUndisturbed DEF DropBlocked, DropFailed, Quiet
<1>10. CASE DropDone
  <2>1. last' \in {"failed", "destroyed", last}
    BY <1>10 DEF DropDone, End
  <2>. QED  BY <1>1, <1>10, <2>1, DropDoneUndisturbed DEF Quiet
<1>. QED  BY <1>2, <1>3, <1>4, <1>5, <1>6, <1>7, <1>8, <1>9, <1>10 DEF Resource

(* The configuration is read when a plan begins.                              *)
LEMMA QuietSame ==
    ASSUME Inv, Quiet, stage = "idle" \/ config' = config, last' = last,
           UNCHANGED <<objects, tf, saved, stage, callVars>>
    PROVE  Quiet'
<1>1. CASE stage = "idle"
  <2>1. stage' = "idle" /\ pc' = "idle"
    BY <1>1 DEF Inv, CallInv, callVars
  <2>2. ReplacementInv'
    BY <1>1 DEF Quiet, Undisturbed, ReplacementInv, Recorded
  <2>3. Faithful => Faithful'
    BY DEF Faithful, KnownBy, ReplacedBy, Converged, Holds
  <2>4. Done => Done'
    BY DEF Done, Converged, Holds
  <2>5. UpdateInv'
    BY <1>1, <2>1, <2>3, <2>4 DEF Quiet, Undisturbed, UpdateInv
  <2>. QED  BY <2>1, <2>2, <2>5 DEF Quiet, Undisturbed, RecordInv, DraftInv, DeleteInv, ApplyInv, Recording
<1>2. CASE config' = config
  <2>1. UNCHANGED <<objects, config, tf, saved, stage, pc, at, existing, todo, operations,
                    positions, preview, draft, failed>>
    BY <1>2 DEF callVars
  <2>2. RecordInv'
    <3>1. Start' = Start /\ Turn' = Turn /\ Whole' = Whole /\ Want' = Want
      BY <2>1 DEF Start, Bare, Turn, Whole, Ops, Operation, Want
    <3>2. Recorded(Start, Want, Turn, Whole) => Recorded(Start', Want', Turn', Whole')
      BY <3>1
    <3>3. Recorded(Start, Want, Turn, Whole) => Recorded(Start, Want, Turn, Whole)'
      BY <3>2 DEF Recorded, Built, Block, Ops, Due
    <3>4. \A n \in Node : Read(n)' = Read(n)
      BY <2>1, ReadSame
    <3>5. RecordInv
      BY DEF Quiet, Undisturbed
    <3>. QED  BY <2>1, <3>1, <3>3, <3>4, <3>5 DEF RecordInv, Recording, Fits
  <2>3. DraftInv'
    <3>1. Replaces(config)' = Replaces(config) /\ Draft(config)' = Draft(config)
          /\ Draft(saved.want)' = Draft(saved.want)
      BY <2>1 DEF Draft, Replaces, Known, Converged, Holds
    <3>. QED  BY <2>1, <3>1 DEF Quiet, Undisturbed, DraftInv
  <2>4. DeleteInv'
    BY <2>1, ReadSame DEF Quiet, Undisturbed, DeleteInv
  <2>5. ReplacementInv'
    BY <2>1 DEF Quiet, Undisturbed, ReplacementInv, Recorded
  <2>6. UpdateInv'
    <3>1. (Faithful => Faithful') /\ (Done => Done')
      BY <2>1 DEF Faithful, Done, KnownBy, ReplacedBy, Converged, Holds
    <3>. QED  BY <2>1, <3>1 DEF Quiet, Undisturbed, UpdateInv
  <2>7. ApplyInv'
    <3>1. \A n \in Node : (Awaited(n) => Awaited(n)') /\ (Passed(n)' => Passed(n))
      BY <2>1 DEF Awaited, Passed, Turn
    <3>2. Turn' = Turn
      BY <2>1 DEF Turn
    <3>. QED  BY <2>1, <3>1, <3>2 DEF Quiet, Undisturbed, ApplyInv
  <2>. QED  BY <2>2, <2>3, <2>4, <2>5, <2>6, <2>7 DEF Quiet, Undisturbed
<1>. QED  BY <1>1, <1>2

LEMMA QuietStep == ASSUME Inv, QuietInv, [Next]_vars PROVE QuietInv'
<1>1. CASE MakePlan
  BY <1>1, MakePlanUndisturbed DEF MakePlan, QuietInv
<1>2. CASE Failure \/ \E n \in Node, x \in OtherStatements : OtherClient(n, x)
  BY <1>2 DEF Failure, CallFails, AnswerLost, DropFails, Fault, OtherClient, QuietInv
<1>3. ASSUME Quiet' PROVE QuietInv'
  BY <1>3 DEF Quiet, QuietInv
<1>4. CASE disturbed
  <2>1. MakePlan \/ disturbed' = disturbed \/ disturbed' = TRUE
    BY DEF Next, vars, callVars, Refresh, Core, Planned, StartApply, ReplanUnchanged, ReplanReplaces,
           Replan, Replanned, ReplanDiffers, Resource, Survey, AlreadyExists, Reconcile,
           ReconcileFails, Create, Write, WriteBlocked, WriteRejected, NextNode, LoopDone, Applied,
           AppliedGone, DropNode, DropBlocked, DropDone, Goto, Failure, CallFails, AnswerLost,
           DropFails, Fault, Reconfigure, OtherClient
  <2>. QED  BY <1>1, <1>4, <2>1 DEF QuietInv
<1>5. CASE ~disturbed
  <2>1. Quiet
    BY <1>5 DEF QuietInv, Quiet
  <2>2. CASE Refresh
    BY <2>1, <2>2, <1>3, RefreshUndisturbed DEF Refresh, Quiet
  <2>3. CASE Core
    BY <2>1, <2>3, <1>3, QuietCore
  <2>4. CASE Resource
    BY <2>1, <2>4, <1>3, QuietResource
  <2>5. CASE \E new \in Edits \cup {None} : Reconfigure(new)
    BY <2>1, <2>5, <1>3, QuietSame DEF Reconfigure
  <2>6. CASE UNCHANGED vars
    BY <2>1, <2>6, <1>3, QuietSame DEF vars
  <2>. QED  BY <1>1, <1>2, <2>2, <2>3, <2>4, <2>5, <2>6, CallCase
<1>. QED  BY <1>4, <1>5

(* A reviewed plan covers what its apply needs (ConvergeNodes under the       *)
(* reviewed client): for any number of nodes, and any resource whose          *)
(* statements serve the other nodes or leave them alone, no write is blocked  *)
(* and no plan refused unless something failed or somebody else wrote since   *)
(* the plan began.                                                            *)
THEOREM PlansApply == Spec => []UndisturbedPlanApplies
<1>1. Inv /\ QuietInv /\ [Next]_vars => (Inv /\ QuietInv)'
  BY TypeStep, CallStep, SavedStep, QuietStep DEF Inv
<1>2. Init => Inv /\ QuietInv
  BY InitInv, QuietInit DEF Inv
<1>3. QuietInv => UndisturbedPlanApplies
  BY DEF QuietInv, UndisturbedPlanApplies
<1>. QED  BY <1>1, <1>2, <1>3, PTL DEF Spec

=============================================================================
