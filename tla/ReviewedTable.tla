--------------------------- MODULE ReviewedTable ---------------------------
(***************************************************************************)
(* A Replicated table as module SQLPlan sees it: table.ModifyPlan and the  *)
(* closures of table.convergeTable, for the replicas of one Keeper path.   *)
(* Rows, lagging replicas and unmanaged columns are in NodeConvergence.    *)
(***************************************************************************)
EXTENDS Naturals, Sequences

CONSTANTS Keys, Columns, Settings, NoTable

Tables == [key : Keys, columns : Columns, settings : Settings]

(* Read replaces every attribute of the state.                                *)
TableReadAs(config, table) == table

(* Everything an update can change is run.                                    *)
TableKept(have, want) == have = want

TableMustReplace(have, want) == have.key # want.key

CreateStatement(table) == [kind |-> "create", key |-> table.key,
                           columns |-> table.columns, settings |-> table.settings]
DropStatement == [kind |-> "drop"]
AlterColumns(columns) == [kind |-> "columns", columns |-> columns]
AlterSettings(settings) == [kind |-> "settings", settings |-> settings]

TableStatements ==
    {CreateStatement(t) : t \in Tables} \cup {DropStatement}
    \cup {AlterColumns(c) : c \in Columns} \cup {AlterSettings(s) : s \in Settings}

(* planTableUpdate: columns first.                                            *)
TableAlterations(want, table) ==
    (IF table.columns # want.columns THEN <<AlterColumns(want.columns)>> ELSE <<>>)
    \o (IF table.settings # want.settings THEN <<AlterSettings(want.settings)>> ELSE <<>>)

(* A new replica declares the columns Keeper holds.                           *)
TableAccepts(tables, n, statement) ==
    IF statement.kind = "create"
    THEN /\ tables[n] = NoTable
         /\ \A m \in DOMAIN tables : tables[m] # NoTable =>
               /\ tables[m].columns = statement.columns
               /\ tables[m].key = statement.key
    ELSE tables[n] # NoTable

(* Column changes reach every replica, settings stay on one.                  *)
TableAfter(tables, n, statement) ==
    CASE statement.kind = "create" ->
           [tables EXCEPT ![n] = [key |-> statement.key, columns |-> statement.columns,
                                  settings |-> statement.settings]]
      [] statement.kind = "drop" -> [tables EXCEPT ![n] = NoTable]
      [] statement.kind = "columns" ->
           [m \in DOMAIN tables |->
              IF tables[m] = NoTable THEN NoTable
              ELSE [tables[m] EXCEPT !.columns = statement.columns]]
      [] statement.kind = "settings" ->
           [tables EXCEPT ![n] = IF @ = NoTable THEN NoTable
                                 ELSE [@ EXCEPT !.settings = statement.settings]]
=============================================================================
