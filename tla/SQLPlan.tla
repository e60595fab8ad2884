------------------------------ MODULE SQLPlan ------------------------------
(***************************************************************************)
(* enforce_sql_plan: a plan records the writes that a resource would send, *)
(* the operator reviews them, and the apply sends nothing else             *)
(* (internal/clickhouseclient/sqlplan.go and pkg/provider/sqlplan.go).     *)
(*                                                                         *)
(* Recording and enforcing run the same resource code, ConvergeNodes and   *)
(* DeleteNodes, and differ only in what becomes of a statement, so they    *)
(* share their actions here; Recording tells them apart.  The resource     *)
(* itself is a parameter: what it compares, which statements it sends for  *)
(* a node and what they do (modules ReviewedView and ReviewedTable).       *)
(*                                                                         *)
(* Terraform core plans once for the saved plan and once more while it     *)
(* applies, and gives up when the second plan does not fit the first.      *)
(* A digest is a collision-free hash: it stands for the list it was        *)
(* computed from, and no digest is the empty list.                         *)
(***************************************************************************)
EXTENDS Naturals, Sequences

CONSTANTS
    N,                  \* number of nodes, each a target of statements
    Configs,            \* configurations of the resource, as a state may have them
    Edits,              \* those an operator writes
    Objects,            \* objects on a node
    Statements,         \* statements sent for them
    None, Live,         \* nothing; a node that the preview did not touch
    ReadAs(_, _),       \* ReadAs(config, object): what a refresh makes of config
    StatementKept(_, _),\* an update of one config to another runs nothing by itself
    MustReplace(_, _),  \* it cannot be made in place
    Creation(_),        \* the statement that creates a config
    Removal,            \* the statement that drops the object
    Alterations(_, _),  \* Alterations(config, object): the statements between them
    Accepts(_, _, _),   \* Accepts(objects, n, statement): the server runs it
    After(_, _, _),     \* After(objects, n, statement): the objects it leaves
    AdoptExisting,      \* provider adopt_existing
    StartObjects,       \* objects the nodes may have at first
    OtherStatements,    \* what other clients send
    MaxDrift,           \* bound: statements of other clients
    MaxFaults,          \* bound: failing calls
    MaxChanges          \* bound: edits of the configuration

Node == 1 .. N

List  == Seq([target : Node, statement : Statements])
State == [config : Configs, digest : List]

ASSUME SQLPlanAssumption ==
    /\ N \in Nat \ {0}
    /\ Edits \subseteq Configs /\ None \notin Configs
    /\ None \notin Objects /\ Live \notin Objects \cup {None} /\ None \notin State
    /\ StartObjects \subseteq Objects
    /\ Removal \in Statements /\ OtherStatements \subseteq Statements
    /\ \A c \in Configs : /\ Creation(c) \in Statements
                          /\ \A o \in Objects : /\ ReadAs(c, o) \in Configs
                                                /\ Alterations(c, o) \in Seq(Statements)
    /\ \A s \in [Node -> Objects \cup {None}], n \in Node, x \in Statements :
          After(s, n, x) \in [Node -> Objects \cup {None}]
    /\ {MaxDrift, MaxFaults, MaxChanges} \subseteq Nat

(* What a resource still has to run on a node that holds this object, and     *)
(* whether it can: ConvergeNodes reconciles or creates.                       *)
Fits(want, object) == object = None \/ ~MustReplace(ReadAs(want, object), want)

Due(want, object) == IF object = None THEN <<Creation(want)>> ELSE Alterations(want, object)

Subsequence(short, long) ==
    \E place \in [DOMAIN short -> DOMAIN long] :
        /\ \A i \in DOMAIN short : short[i] = long[place[i]]
        /\ \A i, j \in DOMAIN short : i < j => place[i] < place[j]

(* Nodes are altered before others are created, and what one is sent serves   *)
(* the others or leaves them alone.                                           *)
ASSUME StatementsAssumption ==
    \A want \in Configs, s \in [Node -> Objects \cup {None}], n \in Node :
        LET due   == Due(want, s[n])
            after == After(s, n, Head(due))
        IN  /\ \A m \in Node : Fits(want, s[m])
            /\ due # <<>>
            /\ s[n] = None => \A m \in Node : s[m] = None \/ Due(want, s[m]) = <<>>
            => /\ Accepts(s, n, Head(due))
               /\ after[n] # None /\ Due(want, after[n]) = Tail(due)
               /\ \A m \in Node :
                     /\ Fits(want, after[m])
                     /\ m # n => /\ after[m] = None <=> s[m] = None
                                 /\ Subsequence(Due(want, after[m]), Due(want, s[m]))

ASSUME RemovalAssumption ==
    \A s \in [Node -> Objects \cup {None}], n \in Node :
        s[n] # None => /\ After(s, n, Removal)[n] = None
                       /\ \A m \in Node : s[m] = None => After(s, n, Removal)[m] = None

(* Once nothing is left to run, a refresh finds the configuration.            *)
ASSUME ReadAssumption ==
    \A want \in Configs :
        /\ StatementKept(want, want) /\ ~MustReplace(want, want)
        /\ \A object \in Objects :
              Fits(want, object) /\ Due(want, object) = <<>> => ReadAs(want, object) = want

VARIABLES
    objects,    \* the object on each node, or None
    config,     \* the configuration, or None
    tf,         \* Terraform's state: None, or config and sql_plan_digest
    saved,      \* the saved plan
    stage,      \* whose call runs: plan, drop, replan or apply
    pc, at,     \* where in ConvergeNodes or DeleteNodes it is
    existing,   \* the nodes the survey found the object on
    todo,       \* statements left for the node
    operations, \* SQLPlan.Operations of the call: recorded, or to be enforced
    positions,  \* SQLPlan.positions
    preview,    \* SQLPlan.objects
    draft,      \* PlanResourceChange: what ModifyPlan decided
    failed,     \* DeleteNodes: an error was collected
    wrote,      \* history: the writes of this apply
    last,       \* history: how the last apply ended
    disturbed,  \* history: something else happened since the plan began
    drift, faults, changes

callVars == <<pc, at, existing, todo, operations, positions, preview, draft, failed>>
counters == <<drift, faults, changes>>
vars     == <<objects, config, tf, saved, stage, callVars, wrote, last, disturbed, counters>>

Recording == stage \in {"plan", "replan"}
Enforcing == stage \in {"drop", "apply"}

-----------------------------------------------------------------------------
(* Exec of the reviewed client.                                               *)

Operation(n, statement) == [target |-> n, statement |-> statement]

(* Bug: a preview reads the nodes as they are.                                *)
ReadLive(n) == objects[n]

(* Reads of a preview see the creates and drops it simulated.                 *)
Read(n) == IF Recording /\ preview[n] # Live THEN preview[n] ELSE objects[n]

Seen == [n \in Node |-> Read(n)]

Record(n, statement) ==
    /\ operations' = Append(operations, Operation(n, statement))
    /\ preview' = [preview EXCEPT ![n] = After(Seen, n, statement)[n]]
    /\ UNCHANGED <<objects, positions, wrote>>

(* Bug: only the next operation of the manifest may run.                      *)
FoundNext(n, statement) ==
    {i \in DOMAIN operations : /\ i = positions[n] + 1
                               /\ operations[i] = Operation(n, statement)}

(* Reviewed operations may be skipped, never added.                           *)
Found(n, statement) ==
    {i \in DOMAIN operations : /\ i > positions[n]
                               /\ operations[i] = Operation(n, statement)}

First(n, statement) ==
    CHOOSE i \in Found(n, statement) : \A j \in Found(n, statement) : i <= j

(* The position moves on before the statement is sent.                        *)
Send(n, statement) ==
    /\ Found(n, statement) # {}
    /\ positions' = [positions EXCEPT ![n] = First(n, statement)]
    /\ wrote' = Append(wrote, Operation(n, statement))
    /\ UNCHANGED <<operations, preview>>

Perform(n, statement) ==
    /\ Send(n, statement)
    /\ Accepts(objects, n, statement)
    /\ objects' = After(objects, n, statement)

Exec(n, statement) ==
    IF Recording THEN Record(n, statement) ELSE Perform(n, statement)

Blocked(n, statement) == Enforcing /\ Found(n, statement) = {}

-----------------------------------------------------------------------------
(* PlanResourceChange.                                                        *)

Want == IF stage = "plan" THEN config ELSE saved.want

Holds(object, want) == object # None /\ ReadAs(want, object) = want

Converged(want) == \A n \in Node : Holds(objects[n], want)

(* Bug: the nodes are not compared with the configuration.                    *)
KnownFromState(want) == StatementKept(tf.config, want)

(* create_statement stays known: no statement is expected to run.             *)
Known(want) == Converged(want) /\ StatementKept(tf.config, want)

Replaces(want) ==
    /\ tf # None
    /\ \/ MustReplace(tf.config, want)
       \/ \E n \in Node : objects[n] # None /\ MustReplace(ReadAs(want, objects[n]), want)

(* The planned state is the prior state, digest included.                     *)
Unchanged(want) == tf # None /\ want = tf.config /\ Known(want)

Draft(want) ==
    [replace |-> Replaces(want),
     known   |-> tf # None /\ ~Replaces(want) /\ Known(want),
     deletes |-> <<>>]

(* Bug: what was never applied has no digest.                                 *)
NoPriorDigest == IF tf = None \/ draft.replace THEN None ELSE tf.digest

PriorDigest == IF tf = None \/ draft.replace THEN <<>> ELSE tf.digest

(* A preview that recorded nothing keeps the digest of the prior state.       *)
Digest == IF operations # <<>> THEN operations ELSE PriorDigest

Creating == tf = None \/ (stage = "plan" /\ draft.replace)

-----------------------------------------------------------------------------
NewDraft == [replace |-> FALSE, known |-> FALSE, deletes |-> <<>>]

Init ==
    /\ objects \in [Node -> StartObjects \cup {None}]
    /\ config \in Edits
    /\ tf = None /\ saved = None
    /\ stage = "idle" /\ pc = "idle" /\ at = 1
    /\ existing = {} /\ todo = <<>> /\ operations = <<>>
    /\ positions = [n \in Node |-> 0]
    /\ preview = [n \in Node |-> Live]
    /\ draft = NewDraft /\ failed = FALSE
    /\ wrote = <<>> /\ last = "none" /\ disturbed = FALSE
    /\ drift = 0 /\ faults = 0 /\ changes = 0

(* A call of the resource starts at pc with the given SQLPlan.                *)
Call(newStage, newPc, list) ==
    /\ stage' = newStage /\ pc' = newPc /\ at' = 1
    /\ existing' = {} /\ todo' = <<>> /\ failed' = FALSE
    /\ operations' = list
    /\ positions' = [n \in Node |-> 0]
    /\ preview' = [n \in Node |-> Live]

Idle == Call("idle", "idle", <<>>) /\ draft' = NewDraft

(* The plan or apply ends without touching Terraform's state.                 *)
End(outcome) ==
    /\ Idle
    /\ last' = outcome
    /\ UNCHANGED <<objects, config, tf, saved, wrote, drift, changes>>

Goto(next) ==
    /\ pc' = next
    /\ UNCHANGED <<config, tf, saved, stage, draft, failed, last, disturbed, counters>>

NoExec == UNCHANGED <<objects, operations, positions, preview, wrote>>

-----------------------------------------------------------------------------
(* The operator and Terraform core.                                           *)

Reconfigure(new) ==
    /\ stage = "idle" /\ changes < MaxChanges /\ new # config
    /\ config' = new /\ changes' = changes + 1
    /\ UNCHANGED <<objects, tf, saved, stage, callVars, wrote, last, disturbed, drift, faults>>

(* ReadNodes: the first node that differs from the state, or the state.       *)
Differing == {n \in Node : objects[n] # None /\ ~Holds(objects[n], tf.config)}

FirstDiffering == CHOOSE n \in Differing : \A m \in Differing : n <= m

Refresh ==
    /\ stage = "idle" /\ tf # None
    /\ \/ /\ \A n \in Node : objects[n] = None
          /\ tf' = None
       \/ /\ Differing # {}
          /\ tf' = [tf EXCEPT !.config = ReadAs(tf.config, objects[FirstDiffering])]
    /\ UNCHANGED <<objects, config, saved, stage, callVars, wrote, last, disturbed, counters>>

MakePlan ==
    /\ stage = "idle"
    /\ IF config = None THEN tf # None ELSE ~Unchanged(config)
    /\ draft' = IF config = None THEN NewDraft ELSE Draft(config)
    /\ Call("plan", IF config = None \/ draft'.replace THEN "delete" ELSE "survey", <<>>)
    /\ saved' = None /\ wrote' = <<>> /\ last' = "none" /\ disturbed' = FALSE
    /\ UNCHANGED <<objects, config, tf, counters>>

SavePlan ==
    saved' = [prior |-> tf, want |-> config, digest |-> Digest, known |-> draft.known,
              operations |-> operations, deletes |-> draft.deletes,
              replace |-> draft.replace]

Planned ==
    /\ stage = "plan" /\ pc = "final"
    /\ SavePlan /\ Idle
    /\ UNCHANGED <<objects, config, tf, wrote, last, disturbed, counters>>

(* A saved plan is stale once the state is another.                           *)
StartApply ==
    /\ stage = "idle" /\ saved # None /\ saved.prior = tf
    /\ CASE saved.want = None -> Call("drop", "delete", saved.operations)
         [] saved.want # None /\ saved.replace -> Call("drop", "delete", saved.deletes)
         [] OTHER -> Call("replan", "modify", <<>>)
    /\ wrote' = <<>> /\ last' = "none"
    /\ UNCHANGED <<objects, config, tf, saved, draft, disturbed, counters>>

(* Core accepts an update that has become unnecessary, but no other action.   *)
ReplanUnchanged ==
    /\ pc = "modify" /\ Unchanged(Want)
    /\ End("applied")
    /\ UNCHANGED <<disturbed, faults>>

ReplanReplaces ==
    /\ pc = "modify" /\ Replaces(Want)
    /\ End("refused")
    /\ UNCHANGED <<disturbed, faults>>

Replan ==
    /\ pc = "modify" /\ ~Unchanged(Want) /\ ~Replaces(Want)
    /\ draft' = Draft(Want)
    /\ pc' = "survey"
    /\ NoExec
    /\ UNCHANGED <<config, tf, saved, stage, at, existing, todo, failed, last, disturbed, counters>>

(* Bug: only the attributes that are known are bound.                         *)
BoundByAttributes == saved.known => draft.known

(* What core and ApplyResourceChange compare: the digest, and what was known. *)
Bound == Digest = saved.digest /\ (saved.known => draft.known)

Replanned ==
    /\ stage = "replan" /\ pc = "final" /\ Bound
    /\ Call("apply", "survey", operations)
    /\ UNCHANGED <<objects, config, tf, saved, draft, wrote, last, disturbed, counters>>

ReplanDiffers ==
    /\ stage = "replan" /\ pc = "final" /\ ~Bound
    /\ End("refused")
    /\ UNCHANGED <<disturbed, faults>>

-----------------------------------------------------------------------------
(* ConvergeNodes.  NodeConvergence has the reads of the survey one by one.    *)

Survey ==
    /\ pc = "survey"
    /\ existing' = {n \in Node : Read(n) # None}
    /\ Creating /\ ~AdoptExisting => existing' = {}
    /\ at' = 1 /\ Goto("reconcile") /\ NoExec /\ UNCHANGED todo

AlreadyExists ==
    /\ pc = "survey" /\ Creating /\ ~AdoptExisting
    /\ \E n \in Node : Read(n) # None
    /\ End("failed")
    /\ UNCHANGED <<disturbed, faults>>

Reconcile ==
    /\ pc = "reconcile" /\ at \in existing
    /\ Read(at) # None /\ ~MustReplace(ReadAs(Want, Read(at)), Want)
    /\ todo' = Alterations(Want, Read(at))
    /\ Goto("write") /\ NoExec /\ UNCHANGED <<at, existing>>

ReconcileFails ==
    /\ pc = "reconcile" /\ at \in existing
    /\ Read(at) # None => MustReplace(ReadAs(Want, Read(at)), Want)
    /\ End("failed")
    /\ UNCHANGED <<disturbed, faults>>

Create ==
    /\ pc = "create" /\ at \in Node \ existing
    /\ todo' = <<Creation(Want)>>
    /\ Goto("write") /\ NoExec /\ UNCHANGED <<at, existing>>

Write ==
    /\ pc = "write" /\ todo # <<>>
    /\ Exec(at, Head(todo))
    /\ todo' = Tail(todo)
    /\ Goto("write") /\ UNCHANGED <<at, existing>>

WriteBlocked ==
    /\ pc = "write" /\ todo # <<>> /\ Blocked(at, Head(todo))
    /\ End("blocked")
    /\ UNCHANGED <<disturbed, faults>>

WriteRejected ==
    /\ pc = "write" /\ todo # <<>> /\ Enforcing
    /\ Found(at, Head(todo)) # {} /\ ~Accepts(objects, at, Head(todo))
    /\ End("failed")
    /\ UNCHANGED <<disturbed, faults>>

(* Each loop goes on with the next node it is for.                            *)
NextNode ==
    /\ \/ pc = "write" /\ todo = <<>>
       \/ pc = "reconcile" /\ at \in Node \ existing
       \/ pc = "create" /\ at \in existing
    /\ at' = at + 1
    /\ Goto(IF pc # "write" THEN pc ELSE IF at \in existing THEN "reconcile" ELSE "create")
    /\ NoExec /\ UNCHANGED <<existing, todo>>

LoopDone ==
    /\ pc \in {"reconcile", "create"} /\ at = N + 1
    /\ at' = 1
    /\ Goto(IF pc = "reconcile" THEN "create" ELSE "final")
    /\ NoExec /\ UNCHANGED <<existing, todo>>

Applied ==
    /\ stage = "apply" /\ pc = "final" /\ objects[1] # None
    /\ tf' = [config |-> saved.want, digest |-> saved.digest]
    /\ Idle /\ last' = "applied"
    /\ UNCHANGED <<objects, config, saved, wrote, disturbed, counters>>

AppliedGone ==
    /\ stage = "apply" /\ pc = "final" /\ objects[1] = None
    /\ End("failed")
    /\ UNCHANGED <<disturbed, faults>>

-----------------------------------------------------------------------------
(* DeleteNodes.                                                               *)

DropNode ==
    /\ pc = "delete" /\ at \in Node
    /\ IF Read(at) # None THEN Exec(at, Removal) ELSE NoExec
    /\ at' = at + 1
    /\ Goto("delete") /\ UNCHANGED <<existing, todo>>

(* An error is collected, and the next node is dropped.                       *)
DropFailed ==
    /\ failed' = TRUE
    /\ at' = at + 1
    /\ UNCHANGED <<config, tf, saved, stage, pc, existing, todo, draft, last, drift, changes>>

DropBlocked ==
    /\ pc = "delete" /\ at \in Node /\ Read(at) # None /\ Blocked(at, Removal)
    /\ DropFailed /\ NoExec /\ UNCHANGED <<disturbed, faults>>

DropDone ==
    /\ pc = "delete" /\ at = N + 1
    /\ CASE failed ->
              End("failed") /\ UNCHANGED <<disturbed, faults>>
         [] ~failed /\ stage = "plan" /\ draft.replace ->
              (* The create half is previewed as if the object had gone. *)
              /\ draft' = [draft EXCEPT !.deletes = operations]
              /\ operations' = <<>>
              /\ pc' = "survey" /\ at' = 1
              /\ UNCHANGED <<objects, config, tf, saved, stage, existing, todo, positions,
                             preview, failed, wrote, last, disturbed, counters>>
         [] ~failed /\ stage = "plan" /\ ~draft.replace ->
              /\ SavePlan /\ Idle
              /\ UNCHANGED <<objects, config, tf, wrote, last, disturbed, counters>>
         [] OTHER ->
              /\ tf' = None
              /\ IF saved.replace
                 THEN Call("replan", "modify", <<>>) /\ UNCHANGED <<draft, last>>
                 ELSE Idle /\ last' = "destroyed"
              /\ UNCHANGED <<objects, config, saved, wrote, disturbed, counters>>

-----------------------------------------------------------------------------
(* Failing calls: a read or a statement fails, or its answer is lost.         *)

Fault == faults < MaxFaults /\ faults' = faults + 1 /\ disturbed' = TRUE

CallFails ==
    /\ stage # "idle" /\ pc # "delete" /\ Fault
    /\ End("failed")

AnswerLost ==
    /\ pc = "write" /\ todo # <<>> /\ Enforcing /\ Fault
    /\ Found(at, Head(todo)) # {} /\ Accepts(objects, at, Head(todo))
    /\ objects' = After(objects, at, Head(todo))
    /\ wrote' = Append(wrote, Operation(at, Head(todo)))
    /\ Idle /\ last' = "failed"
    /\ UNCHANGED <<config, tf, saved, drift, changes>>

DropFails ==
    /\ pc = "delete" /\ at \in Node /\ Fault
    /\ NoExec \/ (Enforcing /\ Read(at) # None /\ Perform(at, Removal))
    /\ DropFailed

OtherClient(n, statement) ==
    /\ drift < MaxDrift /\ drift' = drift + 1
    /\ Accepts(objects, n, statement)
    /\ objects' = After(objects, n, statement)
    /\ disturbed' = TRUE
    /\ UNCHANGED <<config, tf, saved, stage, callVars, wrote, last, faults, changes>>

Core == Planned \/ StartApply \/ ReplanUnchanged \/ ReplanReplaces \/ Replan
        \/ Replanned \/ ReplanDiffers

Resource ==
    \/ Survey \/ AlreadyExists \/ Reconcile \/ ReconcileFails \/ Create
    \/ Write \/ WriteBlocked \/ WriteRejected \/ NextNode \/ LoopDone
    \/ Applied \/ AppliedGone
    \/ DropNode \/ DropBlocked \/ DropDone

Failure == CallFails \/ AnswerLost \/ DropFails

Next ==
    \/ MakePlan \/ Refresh
    \/ Core \/ Resource \/ Failure
    \/ \E new \in Edits \cup {None} : Reconfigure(new)
    \/ \E n \in Node, statement \in OtherStatements : OtherClient(n, statement)

Spec == Init /\ [][Next]_vars

-----------------------------------------------------------------------------
(* Properties.                                                                *)

Stage == {"idle", "plan", "drop", "replan", "apply"}
PC    == {"idle", "modify", "survey", "reconcile", "create", "write", "final", "delete"}
Saved == [prior : State \cup {None}, want : Configs \cup {None}, digest : List, known : BOOLEAN,
          operations : List, deletes : List, replace : BOOLEAN]

TypeOK ==
    /\ objects \in [Node -> Objects \cup {None}]
    /\ config \in Configs \cup {None}
    /\ tf \in State \cup {None}
    /\ saved \in Saved \cup {None}
    /\ stage \in Stage /\ pc \in PC
    /\ at \in 1 .. N + 1 /\ existing \subseteq Node
    /\ todo \in Seq(Statements)
    /\ operations \in List /\ wrote \in List
    /\ positions \in [Node -> Nat]
    /\ preview \in [Node -> Objects \cup {None, Live}]
    /\ draft \in [replace : BOOLEAN, known : BOOLEAN, deletes : List]
    /\ {failed, disturbed} \subseteq BOOLEAN
    /\ last \in {"none", "applied", "destroyed", "failed", "refused", "blocked"}
    /\ drift \in 0 .. MaxDrift /\ faults \in 0 .. MaxFaults /\ changes \in 0 .. MaxChanges

(* What the operator is shown: drops of a replacement first.                  *)
Shown == saved.deletes \o saved.operations

(* Each write is one of the list, none is used twice, and they keep the order *)
(* of the list on every target.                                               *)
Follows(writes, list) ==
    \E index \in [DOMAIN writes -> DOMAIN list] :
        /\ \A i \in DOMAIN writes : writes[i] = list[index[i]]
        /\ \A i, j \in DOMAIN writes :
              i < j /\ writes[i].target = writes[j].target => index[i] < index[j]

(* "The client checks its SQL, target, bound values, count and order against  *)
(* that manifest": whatever happens between the plan and the apply, and       *)
(* although the apply records its manifest anew, it writes only what the plan *)
(* showed.  Plans that showed no create or alter are left to the next one.    *)
ReviewedWritesOnly ==
    saved # None /\ (saved.want # None => saved.operations # <<>>)
    => Follows(wrote, Shown)

(* "An apply cannot expand a known SQL plan" (sql_plan_digest): the apply of  *)
(* a plan that showed no SQL sends none.                                      *)
EmptyPlanWritesNothing == saved # None /\ Shown = <<>> => wrote = <<>>

(* A reviewed plan covers everything its apply turns out to need, although    *)
(* the preview never runs a statement and replicas satisfy each other's       *)
(* writes: nothing is blocked or refused as long as nobody interferes.        *)
UndisturbedPlanApplies == last \in {"blocked", "refused"} => disturbed

(* Reviewing does not keep a resource from its configuration: an operator who *)
(* plans again after every failed apply gets there, unless objects outside    *)
(* the state cannot be adopted because they would have to be replaced.        *)
Unadoptable ==
    /\ tf = None /\ config # None
    /\ \E n \in Node : objects[n] # None /\ MustReplace(ReadAs(config, objects[n]), config)

EventuallyApplied ==
    []<>Unadoptable
    \/ <>[](IF config = None THEN tf = None
            ELSE tf # None /\ tf.config = config /\ Converged(config))

(* Calls end.  An operator with work left neither plans for ever without      *)
(* applying nor applies the same refused plan for ever.                       *)
Fairness ==
    /\ SF_vars(MakePlan) /\ SF_vars(StartApply) /\ WF_vars(Refresh)
    /\ WF_vars(Core) /\ WF_vars(Resource)

FairSpec == Spec /\ Fairness
=============================================================================
