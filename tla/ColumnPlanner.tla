--------------------------- MODULE ColumnPlanner ---------------------------
(***************************************************************************)
(* How the table resource changes the columns of one node: Reconcile reads *)
(* the table, planColumnUpdate turns the difference into four groups of    *)
(* column actions, and every group is an ALTER TABLE of its own that may   *)
(* fail or meet a table another client changed meanwhile.  A dry run sends *)
(* none of them and previews the table they would leave                    *)
(* (previewUpdatedTable).                                                  *)
(*                                                                         *)
(* The position of a column is planned on a list that adds and moves       *)
(* columns in the order of the configuration, but the group of the adds    *)
(* runs before the group of the moves.                                     *)
(*                                                                         *)
(* Type, codec, TTL and comment of a column take the way of its "kind",    *)
(* the kind of its default expression, which has the rules of its own.     *)
(***************************************************************************)
EXTENDS Naturals, SequencesExt

CONSTANTS
    Names,          \* names of columns
    Unmanaged,      \* names an unmanaged_columns pattern matches
    Referenced,     \* names that the sorting key or another expression uses
    Starts,         \* columns the table may have at first
    Configurations, \* columns an operator may configure, and ignore_column_order
    Foreign,        \* columns other clients add
    MaxDrift,       \* bound: changes by other clients
    MaxFaults       \* bound: failing calls

Kind     == {"ordinary", "DEFAULT", "EPHEMERAL"}
Column   == [name : Names, kind : Kind]

AtFront  == "FIRST"     \* FirstColumnPosition
Keep     == "unmoved"   \* no position clause
Position == Names \cup {AtFront, Keep}

Action ==
    [do : {"add", "modify"}, column : Column, after : Position]
    \cup [do : {"remove"}, name : Names, kind : {"DEFAULT"}]
    \cup [do : {"rename"}, name : Names, to : Names]
    \cup [do : {"drop"}, name : Names]

NamesOf(list)  == [i \in DOMAIN list |-> list[i].name]
NameSet(list)  == {list[i].name : i \in DOMAIN list}
Distinct(list) == IsInjective(NamesOf(list))

ASSUME ColumnAssumption ==
    /\ Unmanaged \subseteq Names /\ Referenced \subseteq Names
    /\ AtFront \notin Names /\ Keep \notin Names
    /\ Foreign \subseteq Column
    /\ Starts \subseteq Seq(Column) /\ <<>> \notin Starts
    /\ \A list \in Starts : Distinct(list)
    /\ \A conf \in Configurations :
          /\ conf.columns \in Seq(Column) /\ conf.columns # <<>>
          /\ Distinct(conf.columns) /\ conf.ignore \in BOOLEAN
    /\ {MaxDrift, MaxFaults} \subseteq Nat

VARIABLES
    columns,    \* the columns of the table, in physical order
    conf,       \* the configuration; every table may meet every one, so no step edits it
    groups,     \* plannedTableUpdate.ActionGroups, those left to send
    running,    \* Reconcile is under way
    preview,    \* the columns a dry run of this plan shows
    before,     \* history: the columns the plan was made for
    added,      \* history: the plan adds columns
    last,       \* history: how the last Reconcile ended
    disturbed,  \* history: another client changed the table since
    drift, faults

historyVars == <<preview, before, added, last>>
vars == <<columns, conf, groups, running, historyVars, disturbed, drift, faults>>

-----------------------------------------------------------------------------
(* Lists of columns.                                                          *)

Has(list, name)    == name \in NameSet(list)
At(list, name)     == CHOOSE i \in DOMAIN list : list[i].name = name
Lookup(list, name) == list[At(list, name)]

(* The columns with these names, in the order of the list.                    *)
Only(list, names) ==
    LET kept[k \in 0 .. Len(list)] ==
            IF k = 0 THEN <<>>
            ELSE IF list[k].name \in names THEN Append(kept[k - 1], list[k]) ELSE kept[k - 1]
    IN  kept[Len(list)]

Without(list, name) == Only(list, Names \ {name})

(* insertNameAfter, and what ClickHouse makes of FIRST and AFTER.             *)
InsertAfter(list, column, previous) ==
    CASE previous = AtFront    -> <<column>> \o list
      [] Has(list, previous)  -> InsertAt(list, At(list, previous) + 1, column)
      [] OTHER                -> Append(list, column)

(* Bug: the column also stays where it was.                                   *)
CopyAfter(list, column, previous) == InsertAfter(list, column, previous)

(* moveNameAfter.                                                             *)
MoveAfter(list, column, previous) ==
    InsertAfter(Without(list, column.name), column, previous)

(* columnInDesiredPosition.                                                   *)
InPosition(list, name, previous) ==
    IF previous = AtFront THEN At(list, name) = 1
    ELSE Has(list, previous) /\ At(list, name) = At(list, previous) + 1

Previous(list, i) == IF i = 1 THEN AtFront ELSE list[i - 1].name

-----------------------------------------------------------------------------
(* ALTER TABLE as the server runs it.  No columns at all stand for a          *)
(* rejected statement: a table has one at least.                              *)

Rejected == <<>>

Accepts(list, action) ==
    CASE action.do = "add"    -> \/ Has(list, action.column.name)
                                 \/ action.after = AtFront \/ Has(list, action.after)
      [] action.do = "modify" -> /\ Has(list, action.column.name)
                                 /\ \/ action.after \in {AtFront, Keep}
                                    \/ Has(list, action.after)
      [] action.do = "remove" -> [name |-> action.name, kind |-> action.kind] \in ToSet(list)
      [] action.do = "rename" -> Has(list, action.name) /\ ~Has(list, action.to)
      [] action.do = "drop"   -> TRUE

(* MODIFY COLUMN without an expression keeps the one the column has.          *)
Modified(old, column) ==
    IF column.kind = "ordinary" THEN [column EXCEPT !.kind = old.kind] ELSE column

Apply(list, action) ==
    CASE action.do = "add" ->
            IF Has(list, action.column.name) THEN list
            ELSE InsertAfter(list, action.column, action.after)
      [] action.do = "modify" ->
            LET new == Modified(Lookup(list, action.column.name), action.column)
            IN  IF action.after = Keep
                THEN ReplaceAt(list, At(list, new.name), new)
                ELSE MoveAfter(list, new, action.after)
      [] action.do = "remove" -> [list EXCEPT ![At(list, action.name)].kind = "ordinary"]
      [] action.do = "rename" -> [list EXCEPT ![At(list, action.name)].name = action.to]
      [] action.do = "drop"   -> Without(list, action.name)

Sent(list, action) ==
    IF list # Rejected /\ Accepts(list, action) THEN Apply(list, action) ELSE Rejected

AlterTable(list, group) == FoldLeft(Sent, list, group)

-----------------------------------------------------------------------------
(* What Reconcile makes of the table it reads.                               *)

Want           == conf.columns
Declared(name) == Has(Want, name)
Undeclared     == Names \ NameSet(Want)

(* Bug: what matches a pattern is managed nevertheless.                       *)
Unfiltered(list) == list

(* filterUnmanaged.                                                           *)
Managed(list) == Only(list, NameSet(Want) \cup (Names \ Unmanaged))

(* alignColumnOrder.                                                          *)
Align(list) ==
    LET both == Only(Want, NameSet(list))
    IN  [i \in DOMAIN both |-> Lookup(list, both[i].name)] \o Only(list, Undeclared)

(* Bug: the declared order counts although it is to be ignored.               *)
CurrentInOrder(list) == Managed(list)

Current(list) == IF conf.ignore THEN Align(Managed(list)) ELSE Managed(list)

Satisfied == Current(columns) = Want

(* applySafeRenames: a column that goes and one that comes at its place are   *)
(* one column with another name.                                              *)
RenamedAt(list) ==
    {i \in DOMAIN list \cap DOMAIN Want :
        /\ ~Declared(list[i].name) /\ ~Has(list, Want[i].name)
        /\ list[i].kind = Want[i].kind
        /\ {list[i].name, Want[i].name} \cap Referenced = {}}

Renamed(list) == [i \in DOMAIN list |-> IF i \in RenamedAt(list) THEN Want[i] ELSE list[i]]

(* The renames follow the order of the columns.                               *)
Rename(list, i) == [do |-> "rename", name |-> list[i].name, to |-> Want[i].name]

Renames(list) ==
    FoldLeftDomain(LAMBDA actions, i : IF i \in RenamedAt(list)
                                       THEN Append(actions, Rename(list, i)) ELSE actions,
                   <<>>, list)

Dropped(list) == Only(list, Undeclared)

Drops(list) ==
    LET gone == Dropped(list)
    IN  [i \in DOMAIN gone |-> [do |-> "drop", name |-> gone[i].name]]

(* The columns of a table as planColumnUpdate starts from them.               *)
Aligned(list) == Renamed(Current(list))

(* Bug: EPHEMERAL is taken for something that REMOVE takes away.              *)
ReplaceRequiredToDrop(list) == NameSet(Dropped(Aligned(list))) \cap Referenced # {}

(* replaceRequired: the column cannot be dropped, or made ordinary again.     *)
ReplaceRequired(list) ==
    \/ NameSet(Dropped(Aligned(list))) \cap Referenced # {}
    \/ \E c \in ToSet(Aligned(list)), d \in ToSet(Want) :
          c.name = d.name /\ c.kind = "EPHEMERAL" /\ d.kind = "ordinary"

(* REMOVE DEFAULT; there is no REMOVE EPHEMERAL.                              *)
RemoveExpression(old, new) ==
    IF old.kind = "DEFAULT" /\ new.kind # "DEFAULT"
    THEN <<[do |-> "remove", name |-> new.name, kind |-> old.kind]>> ELSE <<>>

ModifyColumn(old, new, moved, previous) ==
    IF moved \/ (new.kind # "ordinary" /\ old.kind # new.kind)
    THEN <<[do |-> "modify", column |-> new, after |-> IF moved THEN previous ELSE Keep]>>
    ELSE <<>>

(* One turn of the loop of planColumnUpdate over the configured columns.      *)
PlanColumn(plan, i) ==
    LET new      == Want[i]
        previous == Previous(Want, i)
        old      == Lookup(plan.order, new.name)
        moved    == ~InPosition(plan.order, new.name, previous)
    IN  IF ~Has(plan.order, new.name)
        THEN [plan EXCEPT !.order = InsertAfter(@, new, previous),
                          !.adds  = Append(@, [do |-> "add", column |-> new, after |-> previous])]
        ELSE [plan EXCEPT !.order = IF moved THEN MoveAfter(@, new, previous) ELSE @,
                          !.modifies = @ \o RemoveExpression(old, new)
                                         \o ModifyColumn(old, new, moved, previous)]

Planned(list) ==
    FoldLeftDomain(PlanColumn, [order |-> Aligned(list), adds |-> <<>>, modifies |-> <<>>], Want)

(* A group without an action is not sent.                                     *)
Group(actions) == IF actions = <<>> THEN <<>> ELSE <<actions>>

(* Bug: columns are dropped before others are added.                          *)
DropsFirst(renames, adds, modifies, drops) ==
    Group(renames) \o Group(drops) \o Group(adds) \o Group(modifies)

(* planTableUpdate: drops come last.                                          *)
InGroups(renames, adds, modifies, drops) ==
    Group(renames) \o Group(adds) \o Group(modifies) \o Group(drops)

ActionGroups(list) ==
    LET plan == Planned(list)
    IN  InGroups(Renames(Current(list)), plan.adds, plan.modifies, Drops(Aligned(list)))

-----------------------------------------------------------------------------
(* previewUpdatedTable: the same walk over the physical columns, unmanaged    *)
(* ones included, with the moves put off until all columns are added.         *)

(* The column of the configuration that this one is renamed to, or itself.    *)
Successor(list, column) ==
    IF \E k \in RenamedAt(list) : list[k] = column
    THEN Want[CHOOSE k \in RenamedAt(list) : list[k] = column]
    ELSE column

RenamedPhysical(list) == [i \in DOMAIN list |-> Successor(Current(list), list[i])]

(* Bug: a column moves as soon as the walk meets it.                          *)
PreviewMovingAtOnce(walk, i) ==
    LET new      == Want[i]
        previous == Previous(Want, i)
    IN  CASE ~Has(walk.order, new.name) ->
               [walk EXCEPT !.physical = InsertAfter(@, new, previous),
                            !.order    = InsertAfter(@, new, previous)]
          [] Has(walk.order, new.name) /\ ~InPosition(walk.order, new.name, previous) ->
               [walk EXCEPT !.physical = MoveAfter(@, new, previous),
                            !.order    = MoveAfter(@, new, previous)]
          [] OTHER -> walk

PreviewColumn(walk, i) ==
    LET new      == Want[i]
        previous == Previous(Want, i)
    IN  CASE ~Has(walk.order, new.name) ->
               [walk EXCEPT !.physical = InsertAfter(@, new, previous),
                            !.order    = InsertAfter(@, new, previous)]
          [] Has(walk.order, new.name) /\ ~InPosition(walk.order, new.name, previous) ->
               [walk EXCEPT !.moves = Append(@, [column |-> new, after |-> previous]),
                            !.order = MoveAfter(@, new, previous)]
          [] OTHER -> walk

Walked(list) ==
    FoldLeftDomain(PreviewColumn,
                   [physical |-> RenamedPhysical(list), order |-> Aligned(list), moves |-> <<>>],
                   Want)

Moved(list, moves) == FoldLeft(LAMBDA l, move : MoveAfter(l, move.column, move.after), list, moves)

PreviewTable(list) ==
    LET walk == Walked(list)
        kept == Only(Moved(walk.physical, walk.moves),
                     (Names \ NameSet(walk.order)) \cup NameSet(Want))
    IN  [i \in DOMAIN kept |->
            IF Declared(kept[i].name) THEN Lookup(Want, kept[i].name) ELSE kept[i]]

-----------------------------------------------------------------------------
Init ==
    /\ columns \in Starts
    /\ conf \in Configurations
    /\ groups = <<>> /\ running = FALSE
    /\ preview = columns /\ before = columns /\ added = FALSE
    /\ last = "none" /\ disturbed = FALSE
    /\ drift = 0 /\ faults = 0

(* The plan is not empty, and the apply reads the node.                       *)
Reconcile ==
    /\ ~running /\ ~Satisfied /\ ~ReplaceRequired(columns)
    /\ groups' = ActionGroups(columns)
    /\ running' = TRUE
    /\ preview' = PreviewTable(columns) /\ before' = columns
    /\ added' = (Planned(columns).adds # <<>>)
    /\ last' = "none" /\ disturbed' = FALSE
    /\ UNCHANGED <<columns, conf, drift, faults>>

ReconcileRefused ==
    /\ ~running /\ ~Satisfied /\ ReplaceRequired(columns)
    /\ last' = "refused"
    /\ UNCHANGED <<columns, conf, groups, running, preview, before, added, disturbed,
                   drift, faults>>

End(outcome) ==
    /\ running' = FALSE /\ groups' = <<>> /\ last' = outcome
    /\ UNCHANGED <<conf, preview, before, added, disturbed, drift>>

Result == AlterTable(columns, Head(groups))

SendGroup ==
    /\ running /\ groups # <<>> /\ Result # Rejected
    /\ columns' = Result
    /\ groups' = Tail(groups)
    /\ UNCHANGED <<conf, running, historyVars, disturbed, drift, faults>>

GroupRejected ==
    /\ running /\ groups # <<>> /\ Result = Rejected
    /\ End("rejected")
    /\ UNCHANGED <<columns, faults>>

(* A call fails, or its answer is lost: Reconcile ends between two groups.    *)
GroupFails ==
    /\ running /\ groups # <<>> /\ Result # Rejected
    /\ faults < MaxFaults /\ faults' = faults + 1
    /\ columns' \in {columns, Result}
    /\ End("failed")

Reconciled ==
    /\ running /\ groups = <<>>
    /\ End("applied")
    /\ UNCHANGED <<columns, faults>>

(* Another client adds a column or drops one.                                 *)
OtherClient ==
    /\ drift < MaxDrift /\ drift' = drift + 1
    /\ \/ \E c \in Foreign, previous \in {AtFront} \cup {d.name : d \in ToSet(columns)} :
             /\ ~Has(columns, c.name)
             /\ columns' = InsertAfter(columns, c, previous)
       \/ \E c \in ToSet(columns) :
             /\ columns # <<c>>
             /\ columns' = Without(columns, c.name)
    /\ disturbed' = TRUE
    /\ UNCHANGED <<conf, groups, running, historyVars, faults>>

Provider == Reconcile \/ ReconcileRefused \/ SendGroup \/ GroupRejected \/ Reconciled

Next == Provider \/ GroupFails \/ OtherClient

Spec == Init /\ [][Next]_vars

-----------------------------------------------------------------------------
(* Properties.                                                                *)

TypeOK ==
    /\ columns \in Seq(Column) /\ columns # <<>> /\ Distinct(columns)
    /\ conf \in Configurations
    /\ running \in BOOLEAN /\ groups \in Seq(Seq(Action))
    /\ preview \in Seq(Column) /\ before \in Seq(Column)
    /\ added \in BOOLEAN /\ disturbed \in BOOLEAN
    /\ last \in {"none", "applied", "failed", "rejected", "refused"}
    /\ drift \in 0 .. MaxDrift /\ faults \in 0 .. MaxFaults

(* The dry run "must preserve that order": an apply that nobody disturbed     *)
(* leaves the very columns the preview showed, unmanaged ones between them    *)
(* included, which the CREATE of a new replica was reviewed with.             *)
PreviewAgrees == last = "applied" /\ ~disturbed => columns = preview

(* The four groups fit each other: the server rejects none of them unless     *)
(* another client changed the table under way.                                *)
StatementsAccepted == last = "rejected" => disturbed

(* An apply leaves the configured columns, and in the configured order as     *)
(* well when its plan added none: the second apply is the last.               *)
AppliedUpToOrder ==
    last = "applied" /\ ~disturbed =>
        /\ ToSet(Current(columns)) = ToSet(Want)
        /\ ~added => Satisfied

Common(list, other) == NamesOf(Only(list, NameSet(other)))

(* "When true, a table whose columns match the configuration in a different   *)
(* order is not altered" (ignore_column_order): whatever else is added,       *)
(* dropped or renamed, the columns that keep their names keep their order.    *)
OrderIgnored ==
    conf.ignore /\ ~disturbed => Common(columns, before) = Common(before, columns)

Unnamed(list) == Only(list, Unmanaged \ NameSet(Want))

(* "So the provider never reports or changes them": no step of the provider   *)
(* touches a column that is not configured and matches unmanaged_columns,     *)
(* even one another client added between two of its groups.                   *)
UnmanagedKept ==
    [][drift' = drift => Unnamed(columns') = Unnamed(columns)]_vars
=============================================================================
