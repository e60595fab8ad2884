--------------------------- MODULE MCSQLPlanView ---------------------------
(* SQLPlan for a view; constants of its TLC runs.                           *)
EXTENDS SQLPlan, ReviewedView

ColumnsOrNot == {[query |-> 1, columns |-> NotSet], [query |-> 1, columns |-> 1]}
TwoQueries   == {[query |-> q, columns |-> NotSet] : q \in {1, 2}}
OtherView    == {[query |-> 2, columns |-> 2]}
Interference == {DropView, CreateView(TRUE, [query |-> 2, columns |-> NotSet])}
Drops        == {DropView}
=============================================================================
