-------------------------- MODULE MCSQLPlanTable --------------------------
(* SQLPlan for a table; constants of its TLC runs.                          *)
EXTENDS SQLPlan, ReviewedTable

Table(key, columns, settings) ==
    [key |-> key, columns |-> columns, settings |-> settings]

TwoKeys    == {Table(0, 1, 1), Table(1, 1, 1)}
Outdated   == {Table(0, 0, 0)}
OtherTable == {DropStatement, CreateStatement(Table(1, 1, 1))}
=============================================================================
