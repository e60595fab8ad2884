-------------------------- MODULE MCColumnPlanner --------------------------
(* Constants of the TLC runs of ColumnPlanner.                              *)
EXTENDS ColumnPlanner

Lists(names, lengths) ==
    {list \in UNION {[1 .. n -> [name : names, kind : Kind]] : n \in lengths} :
        /\ Distinct(list)
        /\ \A i \in DOMAIN list : list[i].kind # "ordinary" => list[i].name = "a"}

Configured(names, lengths, ignore) == [columns : Lists(names, lengths), ignore : ignore]

(* Every table of at most three columns, every configuration of at most three. *)
SmallTables  == Lists({"a", "b", "c", "u"}, 1 .. 3)
SmallConfigs == Configured({"a", "b", "d"}, 1 .. 3, BOOLEAN)

(* One that is never managed, and one that a configuration may declare.        *)
TwoColumns == {[name |-> n, kind |-> "ordinary"] : n \in {"b", "u"}}
=============================================================================
